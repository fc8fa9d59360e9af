-------------------------- MODULE GoldSessionProofs --------------------------
(* For any number of jobs, sessions, requests and faults: what a reviewer     *)
(* adds under a blind segment is unassisted, what is approved is as it was,   *)
(* a session that is not exported can be, and what exports leave on disk      *)
(* agrees with itself.                                                        *)
EXTENDS GoldSession, WellFoundedInduction, SequenceTheorems, FiniteSetTheorems, TLAPS

(* The shape of candidates and sessions, whatever their fields hold.          *)
IsCandidate(c) ==
  c \in [proposition : {c.proposition}, original : {c.original}, outcome : {c.outcome},
         edit : {c.edit}, explicit : {c.explicit}]

IsSession(x) ==
  /\ x \in [job : {x.job}, candidates : {x.candidates}, hand : {x.hand},
            learnings : {x.learnings}, blind : {x.blind}, revealed : {x.revealed},
            report : {x.report}, covered : {x.covered}, exported : {x.exported},
            slug : {x.slug}, validationOf : {x.validationOf}]
  /\ x.candidates = [i \in DOMAIN x.candidates |-> x.candidates[i]]
  /\ \A i \in DOMAIN x.candidates : IsCandidate(x.candidates[i])

(* The part of the invariant that is about one session.                       *)
BlindOK(x) ==
  \A i \in DOMAIN x.candidates :
    Hidden(x, x.candidates[i]) => x.candidates[i].outcome = "unreviewed"

ApprovedOK(x) ==
  \A i \in DOMAIN x.candidates :
    (x.validationOf # NoSlug /\ x.candidates[i].outcome = "accepted")
      => x.candidates[i].proposition = x.candidates[i].original

Fine(x) == IsSession(x) /\ BlindOK(x) /\ ApprovedOK(x)

OneValidation ==
  \A s, t \in Open : (sessions[s].validationOf # NoSlug
                      /\ sessions[s].validationOf = sessions[t].validationOf) => s = t

GoldInv ==
  /\ sessions = [s \in SessionIds |-> sessions[s]]
  /\ \A s \in SessionIds : Fine(sessions[s])
  /\ OneValidation
  /\ OpenSessionHasJob

-----------------------------------------------------------------------------
(* What a session becomes: it keeps its job and its record, and once it was   *)
(* exported it stays so.                                                      *)
Follows(x, y) ==
  /\ y.job = x.job /\ y.validationOf = x.validationOf
  /\ x.exported => y.exported

LEMMA OneChanges ==
  ASSUME GoldInv, NEW s \in SessionIds, NEW y, Fine(y), Follows(sessions[s], y),
         sessions' = [sessions EXCEPT ![s] = y], jobs' = jobs
  PROVE  GoldInv'
<1>1. /\ sessions'[s] = y
      /\ \A t \in SessionIds : t # s => sessions'[t] = sessions[t]
      /\ sessions' = [t \in SessionIds |-> sessions'[t]]
  BY DEF GoldInv
<1>2. \A t \in SessionIds : /\ Follows(sessions[t], sessions'[t])
                            /\ Fine(sessions'[t])
  BY <1>1 DEF GoldInv, Follows
<1>3. \A t \in Open' : /\ t \in Open /\ sessions'[t].job = sessions[t].job
                       /\ sessions'[t].validationOf = sessions[t].validationOf
  BY <1>2 DEF Follows, Open, Made
<1>4. OneValidation'  BY <1>3 DEF OneValidation, GoldInv
<1>5. OpenSessionHasJob'  BY <1>3 DEF OpenSessionHasJob, GoldInv
<1>6. QED  BY <1>1, <1>2, <1>4, <1>5 DEF GoldInv

LEMMA EditKeeps ==
  ASSUME GoldInv, NEW s \in SessionIds, NEW y, Edit(s, y),
         Fine(y), Follows(sessions[s], y)
  PROVE  GoldInv'
BY OneChanges DEF Edit

(* A new session is untouched.                                                *)
LEMMA NewIsFine ==
  ASSUME NEW job, NEW list, NEW record,
         list = [i \in DOMAIN list |-> list[i]],
         \A i \in DOMAIN list : IsCandidate(list[i]) /\ list[i].outcome = "unreviewed"
  PROVE  Fine(NewSession(job, list, record))
BY DEF Fine, IsSession, NewSession, BlindOK, ApprovedOK

LEMMA CandidatesAreNew ==
  ASSUME NEW p, NEW explicit
  PROVE  IsCandidate(Candidate(p, explicit)) /\ Candidate(p, explicit).outcome = "unreviewed"
BY DEF IsCandidate, Candidate

LEMMA InitKeeps == GoldInit => GoldInv
<1> SUFFICES ASSUME GoldInit PROVE GoldInv  OBVIOUS
<1>1. sessions = [s \in SessionIds |-> NotMade]  BY DEF GoldInit
<1>2. Fine(NotMade)
  <2>1. DOMAIN <<>> = {} /\ <<>> = [i \in DOMAIN <<>> |-> <<>>[i]]  OBVIOUS
  <2>2. QED  BY <2>1, NewIsFine DEF NotMade
<1>3. Made = {}  BY <1>1 DEF Made, NotMade, NewSession
<1>4. Open = {}  BY <1>3 DEF Open
<1>5. QED  BY <1>1, <1>2, <1>4 DEF GoldInv, OneValidation, OpenSessionHasJob

-----------------------------------------------------------------------------
(* Sessions are made.                                                         *)
LEMMA CreateKeeps ==
  ASSUME GoldInv, NEW s, NEW job, NEW baseline, s \in SessionIds,
         CreateSession(s, job, baseline)
  PROVE  GoldInv'
<1> DEFINE found == IF baseline THEN Lexicon[job] ELSE Extracted[job]
           list  == [i \in DOMAIN found |-> Candidate(found[i], FALSE)]
           new   == NewSession(job, list, NoSlug)
<1>1. /\ s \notin Made /\ job \in jobs /\ jobs' = jobs
      /\ sessions' = [sessions EXCEPT ![s] = new]
  BY DEF CreateSession
<1>2. Fine(new)  BY NewIsFine, CandidatesAreNew
<1>3. new.job = job /\ new.validationOf = NoSlug  BY DEF NewSession
<1> HIDE DEF new
<1>4. /\ sessions'[s] = new
      /\ \A t \in SessionIds : t # s => sessions'[t] = sessions[t]
      /\ sessions' = [t \in SessionIds |-> sessions'[t]]
  BY <1>1 DEF GoldInv
<1>5. \A t \in Open' : t = s \/ t \in Open  BY <1>4 DEF Open, Made
<1>6. OneValidation'  BY <1>3, <1>4, <1>5 DEF OneValidation, GoldInv, Open, Made
<1>7. OpenSessionHasJob'  BY <1>1, <1>3, <1>4, <1>5 DEF OpenSessionHasJob, GoldInv, Open, Made
<1>8. QED  BY <1>2, <1>4, <1>6, <1>7 DEF GoldInv

(* The guard sees to it that a record has one that is open.                   *)
LEMMA ValidationKeeps ==
  ASSUME GoldInv, NEW g \in Slugs, CreateValidation(g)
  PROVE  GoldInv'
<1>1. PICK e \in Records :
        /\ jobs' = jobs \cup {e.job}
        /\ IF OpenValidations(g) # {}
           THEN UNCHANGED sessions
           ELSE \E s \in SessionIds \ Made :
                  sessions' = [sessions EXCEPT ![s] = NewSession(e.job, Items(jsonl[g].holds), g)]
  BY DEF CreateValidation
<1>2. CASE sessions' = sessions
  BY <1>1, <1>2 DEF GoldInv, OneValidation, OpenSessionHasJob, Open, Made
<1>3. CASE OpenValidations(g) = {}
  <2> DEFINE list == Items(jsonl[g].holds)
             new  == NewSession(e.job, list, g)
  <2>1. PICK s \in SessionIds \ Made : sessions' = [sessions EXCEPT ![s] = new]
    BY <1>1, <1>3
  <2>2. list = [i \in DOMAIN list |-> list[i]]  BY DEF Items
  <2>3. \A i \in DOMAIN list : IsCandidate(list[i]) /\ list[i].outcome = "unreviewed"
    BY CandidatesAreNew DEF Items
  <2>4. Fine(new)  BY <2>2, <2>3, NewIsFine
  <2>5. new.job = e.job /\ new.validationOf = g  BY DEF NewSession
  <2> HIDE DEF new
  <2>6. /\ sessions'[s] = new
        /\ \A t \in SessionIds : t # s => sessions'[t] = sessions[t]
        /\ sessions' = [t \in SessionIds |-> sessions'[t]]
    BY <2>1 DEF GoldInv
  <2>7. \A t \in Open' : t = s \/ t \in Open  BY <2>6 DEF Open, Made
  <2>8. \A t \in Open : sessions[t].validationOf # g  BY <1>3 DEF OpenValidations
  <2>9. OneValidation'  BY <2>5, <2>6, <2>7, <2>8 DEF OneValidation, GoldInv, Open, Made
  <2>10. OpenSessionHasJob'
    BY <1>1, <2>5, <2>6, <2>7 DEF OpenSessionHasJob, GoldInv, Open, Made
  <2>11. QED  BY <2>4, <2>6, <2>9, <2>10 DEF GoldInv
<1>4. QED  BY <1>1, <1>2, <1>3

-----------------------------------------------------------------------------
(* What reviewers ask for.                                                    *)
LEMMA ReviewedCandidate ==
  ASSUME NEW c, IsCandidate(c), NEW outcome, NEW current, NEW explicit
  PROVE  LET d == Reviewed(c, outcome, current, explicit)
         IN  /\ IsCandidate(d) /\ d.original = c.original
             /\ d.outcome = outcome /\ d.proposition = current
<1>1. ASSUME NEW kind, NEW d,
             d = [c EXCEPT !.proposition = current, !.outcome = outcome,
                           !.explicit = explicit, !.edit = kind]
      PROVE  /\ IsCandidate(d) /\ d.original = c.original
             /\ d.outcome = outcome /\ d.proposition = current
  BY <1>1 DEF IsCandidate
<1>2. QED  BY <1>1 DEF Reviewed

LEMMA OutcomeKeeps ==
  ASSUME GoldInv, NEW s \in SessionIds, NEW i \in DOMAIN sessions[s].candidates,
         NEW outcome, NEW current, NEW explicit,
         RecordOutcome(s, i, outcome, current, explicit)
  PROVE  GoldInv'
<1> DEFINE x == sessions[s]
           c == x.candidates[i]
           d == Reviewed(c, outcome, current, explicit)
           y == [x EXCEPT !.candidates[i] = d]
<1>1. Fine(x)  BY DEF GoldInv
<1>2. /\ ~Hidden(x, c) /\ MayApprove(x, c, current, outcome)
      /\ Edit(s, y)
  BY DEF RecordOutcome
<1>3. IsCandidate(c)  BY <1>1 DEF Fine, IsSession
<1>4. /\ IsCandidate(d) /\ d.original = c.original
      /\ d.outcome = outcome /\ d.proposition = current
  BY <1>3, ReviewedCandidate
<1> HIDE DEF d
<1>5. /\ y = [x EXCEPT !.candidates = [x.candidates EXCEPT ![i] = d]]
      /\ y.job = x.job /\ y.validationOf = x.validationOf /\ y.exported = x.exported
      /\ y.blind = x.blind /\ y.revealed = x.revealed
      /\ y.candidates = [x.candidates EXCEPT ![i] = d]
  BY <1>1 DEF Fine, IsSession
<1>6. /\ DOMAIN y.candidates = DOMAIN x.candidates
      /\ y.candidates[i] = d
      /\ \A k \in DOMAIN x.candidates : k # i => y.candidates[k] = x.candidates[k]
      /\ y.candidates = [k \in DOMAIN y.candidates |-> y.candidates[k]]
  BY <1>1, <1>5 DEF Fine, IsSession
<1>7. IsSession(y)
  BY <1>1, <1>4, <1>5, <1>6 DEF Fine, IsSession
<1> HIDE DEF y
<1>8. BlindOK(y)
  <2>1. ASSUME NEW k \in DOMAIN y.candidates, Hidden(y, y.candidates[k])
        PROVE  y.candidates[k].outcome = "unreviewed"
    <3>1. Hidden(x, y.candidates[k])  BY <1>5, <2>1 DEF Hidden
    <3>2. k # i  BY <1>2, <1>4, <1>6, <3>1 DEF Hidden
    <3>3. k \in DOMAIN x.candidates /\ y.candidates[k] = x.candidates[k]
      BY <1>6, <3>2
    <3>4. QED  BY <1>1, <3>1, <3>3 DEF Fine, BlindOK
  <2>2. QED  BY <2>1 DEF BlindOK
<1>9. ApprovedOK(y)
  BY <1>1, <1>2, <1>4, <1>5, <1>6 DEF Fine, ApprovedOK, MayApprove
<1>10. Fine(y) /\ Follows(x, y)  BY <1>5, <1>7, <1>8, <1>9 DEF Fine, Follows
<1>11. QED  BY <1>2, <1>10, EditKeeps

(* What leaves the candidates alone, and the segment unless it is named now.  *)
LEMMA OtherEdits ==
  ASSUME GoldInv, NEW s \in SessionIds, NEW y, IsSession(y), Edit(s, y),
         y.candidates = sessions[s].candidates, Follows(sessions[s], y),
         \/ y.revealed
         \/ y.blind = sessions[s].blind /\ y.revealed = sessions[s].revealed
         \/ Unassisted(sessions[s], y.blind)
  PROVE  GoldInv'
<1>1. Fine(sessions[s])  BY DEF GoldInv
<1>2. BlindOK(y)  BY <1>1 DEF Fine, BlindOK, Hidden, Unassisted
<1>3. ApprovedOK(y)  BY <1>1 DEF Fine, ApprovedOK, Follows
<1>4. QED  BY <1>2, <1>3, EditKeeps DEF Fine

LEMMA RequestKeeps ==
  ASSUME GoldInv, NEW s \in SessionIds, SessionRequest(s)
  PROVE  GoldInv'
<1> DEFINE x == sessions[s]
<1>1. /\ IsSession(x)
      /\ {"job", "candidates", "hand", "blind", "revealed", "covered", "exported",
          "validationOf"} \subseteq DOMAIN x
  <2>1. IsSession(x)  BY DEF GoldInv, Fine
  <2>2. QED  BY <2>1 DEF IsSession
<1>2. CASE \E i \in DOMAIN x.candidates :
        \E outcome \in {"accepted", "edited", "deleted", "unreviewed"},
           current \in {x.candidates[i].proposition} \cup Payloads :
          \E explicit \in {FALSE, current.open} : RecordOutcome(s, i, outcome, current, explicit)
  BY <1>2, OutcomeKeeps
<1>3. ASSUME NEW hand, Edit(s, [x EXCEPT !.hand = hand])  PROVE GoldInv'
  <2> DEFINE y == [x EXCEPT !.hand = hand]
  <2>1. IsSession(y)  BY <1>1 DEF IsSession
  <2>2. /\ y.candidates = x.candidates /\ Follows(x, y)
        /\ y.blind = x.blind /\ y.revealed = x.revealed
    BY <1>1 DEF Follows
  <2>3. QED  BY <1>3, <2>1, <2>2, OtherEdits
<1>4. CASE \E p \in Payloads : \E explicit \in {FALSE, p.open} : AddHandAdded(s, p, explicit)
  BY <1>3, <1>4 DEF AddHandAdded
<1>5. CASE \E p \in Payloads : DeleteHandAdded(s, p.id)
  BY <1>3, <1>5 DEF DeleteHandAdded
<1>6. CASE AddLearning(s)
  <2> DEFINE y(n) == [x EXCEPT !.learnings = n]
  <2>1. \A n : IsSession(y(n))  BY <1>1 DEF IsSession
  <2>2. \A n : /\ y(n).candidates = x.candidates /\ Follows(x, y(n))
               /\ y(n).blind = x.blind /\ y(n).revealed = x.revealed
    BY <1>1 DEF Follows
  <2>3. Edit(s, y(x.learnings + 1))  BY <1>6 DEF AddLearning
  <2> HIDE DEF y
  <2>4. QED  BY <2>1, <2>2, <2>3, OtherEdits
<1>7. CASE \E segment \in Segments : SetBlindSegment(s, segment)
  <2>1. PICK segment \in Segments : SetBlindSegment(s, segment)  BY <1>7
  <2> DEFINE y == [x EXCEPT !.blind = segment]
  <2>2. IsSession(y)  BY <1>1 DEF IsSession
  <2>3. y.candidates = x.candidates /\ Follows(x, y) /\ y.blind = segment
    BY <1>1 DEF Follows
  <2>4. Edit(s, y) /\ Unassisted(x, segment)  BY <2>1 DEF SetBlindSegment
  <2> HIDE DEF y
  <2>5. QED  BY <2>2, <2>3, <2>4, OtherEdits
<1>8. CASE Reveal(s)
  <2> DEFINE y(revealed, report) == [x EXCEPT !.revealed = revealed, !.report = report]
  <2>1. ASSUME NEW report  PROVE IsSession(y(TRUE, report))  BY <1>1 DEF IsSession
  <2>2. ASSUME NEW report
        PROVE  /\ y(TRUE, report).candidates = x.candidates
               /\ Follows(x, y(TRUE, report)) /\ y(TRUE, report).revealed
    BY <1>1 DEF Follows
  <2>3. Edit(s, y(TRUE, Report(x)))  BY <1>8 DEF Reveal
  <2> HIDE DEF y
  <2>4. QED  BY <2>1, <2>2, <2>3, OtherEdits
<1>9. CASE RecordCoverage(s)
  <2>1. ASSUME NEW covered, Edit(s, [x EXCEPT !.covered = covered])  PROVE GoldInv'
    <3> DEFINE y == [x EXCEPT !.covered = covered]
    <3>1. IsSession(y)  BY <1>1 DEF IsSession
    <3>2. /\ y.candidates = x.candidates /\ Follows(x, y)
          /\ y.blind = x.blind /\ y.revealed = x.revealed
      BY <1>1 DEF Follows
    <3>3. QED  BY <2>1, <3>1, <3>2, OtherEdits
  <2>2. QED  BY <1>9, <2>1 DEF RecordCoverage
<1>10. CASE \E slug \in Slugs, done \in 1..5 : Export(s, slug, done)
  <2>1. PICK slug \in Slugs, done \in 1..5 : Export(s, slug, done)  BY <1>10
  <2> DEFINE y(e) == [[x EXCEPT !.exported = e] EXCEPT !.slug = slug]
  <2>2. jobs' = jobs /\ (sessions' = [sessions EXCEPT ![s] = y(TRUE)] \/ sessions' = sessions)
    BY <2>1 DEF Export, GoldInv
  <2>3. \A e : /\ IsSession(y(e)) /\ y(e).candidates = x.candidates /\ y(e).exported = e
               /\ y(e).job = x.job /\ y(e).validationOf = x.validationOf
               /\ y(e).blind = x.blind /\ y(e).revealed = x.revealed
    BY <1>1 DEF IsSession
  <2> HIDE DEF y
  <2>4. ASSUME NEW e  PROVE Fine(y(e))
    <3>1. Fine(x) /\ IsSession(y(e)) /\ y(e).candidates = x.candidates
      BY <2>3 DEF GoldInv
    <3>2. y(e).validationOf = x.validationOf /\ y(e).blind = x.blind /\ y(e).revealed = x.revealed
      BY <2>3
    <3>3. QED  BY <3>1, <3>2 DEF Fine, BlindOK, Hidden, ApprovedOK
  <2>5. Follows(x, y(TRUE))  BY <2>3 DEF Follows
  <2>6. CASE sessions' = sessions
    BY <2>2, <2>6 DEF GoldInv, OneValidation, OpenSessionHasJob, Open, Made
  <2>7. QED  BY <2>2, <2>4, <2>5, <2>6, OneChanges
<1>11. QED
  BY <1>2, <1>4, <1>5, <1>6, <1>7, <1>8, <1>9, <1>10 DEF SessionRequest

(* A clean-up takes no job that an open session needs.                        *)
LEMMA CleanUpKeeps ==
  ASSUME GoldInv, NEW old, CleanUp(old)
  PROVE  GoldInv'
<1>1. jobs' = jobs \ (old \ Needed) /\ sessions' = sessions  BY DEF CleanUp
<1>2. \A s \in Open : sessions[s].job \in jobs \cap Needed
  BY DEF GoldInv, OpenSessionHasJob, Needed
<1>3. QED  BY <1>1, <1>2 DEF GoldInv, OneValidation, OpenSessionHasJob, Open, Made

LEMMA GoldKeeps ==
  ASSUME GoldInv, [GoldNext]_gold_vars
  PROVE  GoldInv'
<1>1. CASE \E s \in SessionIds, job \in Jobs, baseline \in BOOLEAN : CreateSession(s, job, baseline)
  BY <1>1, CreateKeeps
<1>2. CASE \E g \in Slugs : CreateValidation(g)  BY <1>2, ValidationKeeps
<1>3. CASE \E s \in Made : SessionRequest(s)  BY <1>3, RequestKeeps DEF Made
<1>4. CASE Spoil \/ UNCHANGED gold_vars
  BY <1>4 DEF Spoil, gold_vars, GoldInv, OneValidation, OpenSessionHasJob, Open, Made
<1>5. CASE \E old \in SUBSET Jobs : CleanUp(old)  BY <1>5, CleanUpKeeps
<1>6. QED  BY <1>1, <1>2, <1>3, <1>4, <1>5 DEF GoldNext

THEOREM GoldInvariant == GoldSpec => []GoldInv
<1>1. GoldInit => GoldInv  BY InitKeeps
<1>2. GoldInv /\ [GoldNext]_gold_vars => GoldInv'  BY GoldKeeps
<1>3. QED  BY <1>1, <1>2, PTL DEF GoldSpec

-----------------------------------------------------------------------------
(* No candidate of the tool under a blind segment is settled before it is     *)
(* revealed, so what is added there is unassisted.  (set_blind_segment)       *)
THEOREM BlindStaysUntouched == GoldSpec => []BlindUntouched
<1>1. GoldInv => BlindUntouched  BY DEF GoldInv, Fine, BlindOK, BlindUntouched, Made
<1>2. QED  BY <1>1, GoldInvariant, PTL

(* A record has one open validation at a time, and what is approved in one is *)
(* as the tool had it.  (create_validation_session, record_candidate_outcome) *)
THEOREM ValidationStaysSound == GoldSpec => []ValidationIsSound
<1>1. GoldInv => ValidationIsSound
  BY DEF GoldInv, Fine, ApprovedOK, OneValidation, ValidationIsSound, Made
<1>2. QED  BY <1>1, GoldInvariant, PTL

(* The job of a session that was not exported outlives every clean-up of the  *)
(* job store.  (cleanup_expired)                                              *)
THEOREM OpenSessionsKeepTheirJob == GoldSpec => []OpenSessionHasJob
<1>1. GoldInv => OpenSessionHasJob  BY DEF GoldInv
<1>2. QED  BY <1>1, GoldInvariant, PTL

-----------------------------------------------------------------------------
(* What is picked from a sequence, by induction on how far it was looked at:  *)
(* a set that holds 0 and with each number below n the next one, holds all.   *)
LEMMA UpToAll ==
  ASSUME NEW n \in Nat, NEW S, 0 \in S, \A k \in 0..(n - 1) : k \in S => k + 1 \in S
  PROVE  0..n \subseteq S
<1> DEFINE T == {k \in 0..n : k \notin S}
<1> SUFFICES ASSUME T # {}  PROVE FALSE  OBVIOUS
<1>1. PICK x \in T : \A y \in T : ~(<<y, x>> \in OpToRel(<, Nat))
  <2>1. T \subseteq Nat  OBVIOUS
  <2>2. QED  BY <2>1, NatLessThanWellFounded, WFMin
<1>2. x \in 0..n /\ x \notin S  BY <1>1
<1> HIDE DEF T
<1>3. x # 0  BY <1>2
<1>4. x \in Nat /\ x - 1 \in 0..(n - 1) /\ (x - 1) + 1 = x  BY <1>2, <1>3
<1>5. PICK y \in Nat : y = x - 1  BY <1>4
<1>6. y < x /\ y \in 0..n  BY <1>4, <1>5
<1>7. <<y, x>> \in OpToRel(<, Nat) <=> y < x
  BY <1>4, Zenon DEF OpToRel
<1>8. y \notin T  BY <1>1, <1>6, <1>7
<1>9. y \in S  BY <1>6, <1>8 DEF T
<1>10. QED  BY <1>2, <1>4, <1>5, <1>9

(* The recursive function is what its equation says.                          *)
LEMMA PickedIs ==
  ASSUME NEW seq, NEW places, Len(seq) \in Nat
  PROVE  PickedUpTo(seq, places) =
           [n \in 0..Len(seq) |-> IF n = 0 THEN <<>>
                                  ELSE IF n \in places
                                       THEN Append(PickedUpTo(seq, places)[n - 1], seq[n])
                                  ELSE PickedUpTo(seq, places)[n - 1]]
<1> DEFINE Next1(f, n) == IF n = 0 THEN <<>>
                          ELSE IF n \in places THEN Append(f[n - 1], seq[n]) ELSE f[n - 1]
           S == {n \in Nat : \E f : f = [k \in 0..n |-> Next1(f, k)]}
<1>1. 0 \in S
  <2> DEFINE f == [k \in 0..0 |-> <<>>]
  <2>1. f = [k \in 0..0 |-> Next1(f, k)]  OBVIOUS
  <2>2. QED  BY <2>1
<1>2. ASSUME NEW n \in Nat, n \in S  PROVE n + 1 \in S
  <2>1. PICK f : f = [k \in 0..n |-> Next1(f, k)]  BY <1>2
  <2> DEFINE g == [k \in 0..(n + 1) |-> IF k = n + 1 THEN Next1(f, n + 1) ELSE f[k]]
  <2>2. ASSUME NEW k \in 0..(n + 1)  PROVE g[k] = Next1(g, k)
    <3>1. CASE k = 0  BY <2>1, <3>1
    <3>2. CASE k \in 1..n
      <4>1. k - 1 \in 0..n /\ k \in 0..n  BY <3>2
      <4>2. g[k - 1] = f[k - 1] /\ g[k] = f[k]  BY <3>2, <4>1
      <4>3. QED  BY <2>1, <3>2, <4>1, <4>2
    <3>3. CASE k = n + 1
      <4>1. k - 1 = n /\ g[k - 1] = f[k - 1] /\ k # 0  BY <3>3
      <4>2. g[k] = Next1(f, k)  BY <3>3
      <4>3. QED  BY <4>1, <4>2
    <3>4. QED  BY <3>1, <3>2, <3>3
  <2>3. g = [k \in 0..(n + 1) |-> Next1(g, k)]
    <3>1. g = [k \in 0..(n + 1) |-> g[k]]  OBVIOUS
    <3>2. QED  BY <2>2, <3>1, Zenon
  <2>4. \E h : h = [k \in 0..(n + 1) |-> Next1(h, k)]
    <3> HIDE DEF g, Next1
    <3>1. QED  BY <2>3, Zenon
  <2>5. n + 1 \in Nat  OBVIOUS
  <2> HIDE DEF g, Next1
  <2>6. QED  BY <2>4, <2>5, Zenon
<1>3. Len(seq) \in S
  <2> HIDE DEF S
  <2>1. \A k \in 0..(Len(seq) - 1) : k \in S => k + 1 \in S  BY <1>2
  <2>2. 0..Len(seq) \subseteq S  BY <1>1, <2>1, UpToAll
  <2>3. QED  BY <2>2
<1>4. \E f : f = [k \in 0..Len(seq) |-> Next1(f, k)]  BY <1>3
<1>5. QED  BY <1>4, Zenon DEF PickedUpTo

(* One step of picking, and what the picked come from.                        *)
LEMMA PickedSteps ==
  ASSUME NEW S, NEW seq \in Seq(S), NEW places
  PROVE  /\ PickedUpTo(seq, places)[0] = <<>>
         /\ \A n \in 1..Len(seq) :
              PickedUpTo(seq, places)[n] =
                IF n \in places THEN Append(PickedUpTo(seq, places)[n - 1], seq[n])
                ELSE PickedUpTo(seq, places)[n - 1]
<1>1. Len(seq) \in Nat  OBVIOUS
<1> DEFINE P == PickedUpTo(seq, places)
<1>2. P = [n \in 0..Len(seq) |-> IF n = 0 THEN <<>>
                                 ELSE IF n \in places THEN Append(P[n - 1], seq[n])
                                 ELSE P[n - 1]]
  BY <1>1, PickedIs
<1> HIDE DEF P
<1>3. P[0] = <<>> /\ \A n \in 1..Len(seq) :
        P[n] = IF n \in places THEN Append(P[n - 1], seq[n]) ELSE P[n - 1]
  <2>1. 0 \in 0..Len(seq) /\ \A n \in 1..Len(seq) : n \in 0..Len(seq) /\ n # 0  BY <1>1
  <2> DEFINE F(n) == IF n = 0 THEN <<>>
                     ELSE IF n \in places THEN Append(P[n - 1], seq[n]) ELSE P[n - 1]
  <2>2. \A n \in 0..Len(seq) : P[n] = F(n)
    <3> HIDE DEF F
    <3>1. P = [n \in 0..Len(seq) |-> F(n)]  BY <1>2 DEF F
    <3>2. QED  BY <3>1
  <2>3. QED  BY <2>1, <2>2
<1>4. QED  BY <1>3 DEF P

LEMMA PickedTyped ==
  ASSUME NEW S, NEW seq \in Seq(S), NEW places
  PROVE  \A n \in 0..Len(seq) : PickedUpTo(seq, places)[n]
            \in Seq({seq[i] : i \in places \cap DOMAIN seq})
<1> DEFINE P == PickedUpTo(seq, places)
           D == {seq[i] : i \in places \cap DOMAIN seq}
           T == {n \in 0..Len(seq) : P[n] \in Seq(D)}
<1>0. Len(seq) \in Nat  OBVIOUS
<1>1. /\ P[0] = <<>>
      /\ \A n \in 1..Len(seq) : P[n] = IF n \in places THEN Append(P[n - 1], seq[n])
                                       ELSE P[n - 1]
  BY PickedSteps
<1> HIDE DEF P
<1>2. 0 \in T
  <2>1. 0 \in 0..Len(seq)  BY <1>0
  <2>2. P[0] = <<>>  BY <1>1
  <2>3. <<>> \in Seq(D)  BY EmptySeq
  <2>4. P[0] \in Seq(D)  BY <2>2, <2>3
  <2> HIDE DEF D
  <2>5. QED  BY <2>1, <2>4
<1>3. ASSUME NEW n \in 0..(Len(seq) - 1), n \in T  PROVE n + 1 \in T
  <2>1. /\ n + 1 \in 1..Len(seq) /\ (n + 1) - 1 = n /\ P[n] \in Seq(D)
        /\ n + 1 \in DOMAIN seq /\ n + 1 \in 0..Len(seq)
    BY <1>3
  <2>2. CASE n + 1 \in places
    <3>1. P[n + 1] = Append(P[n], seq[n + 1])  BY <1>1, <2>1, <2>2
    <3>2. seq[n + 1] \in D  BY <2>1, <2>2
    <3> HIDE DEF D
    <3>3. Append(P[n], seq[n + 1]) \in Seq(D)  BY <2>1, <3>2
    <3>4. QED  BY <2>1, <3>1, <3>3
  <2>3. CASE n + 1 \notin places  BY <1>1, <2>1, <2>3
  <2>4. QED  BY <2>2, <2>3
<1> HIDE DEF T
<1>4. 0..Len(seq) \subseteq T  BY <1>0, <1>2, <1>3, UpToAll
<1>5. QED  BY <1>4 DEF P, T

LEMMA PropositionsOf ==
  ASSUME NEW S, NEW list \in Seq(S), NEW e
  PROVE  /\ Len(TheirPropositions(list)) = Len(list)
         /\ DOMAIN TheirPropositions(list) = DOMAIN list
         /\ TheirPropositions(list) \in Seq({list[i].proposition : i \in DOMAIN list})
         /\ TheirPropositions(Append(list, e)) = Append(TheirPropositions(list), e.proposition)
<1> DEFINE D == {list[i].proposition : i \in DOMAIN list}
           Q == TheirPropositions(list)
<1>1. Q = [i \in 1..Len(list) |-> list[i].proposition] /\ Len(list) \in Nat
  BY DEF TheirPropositions
<1>2. Q \in Seq(D) /\ Len(Q) = Len(list) /\ DOMAIN Q = DOMAIN list
  <2>1. \A i \in 1..Len(list) : list[i].proposition \in D  OBVIOUS
  <2> HIDE DEF D, Q
  <2>2. QED  BY <1>1, <2>1
<1>3. TheirPropositions(Append(list, e)) =
        [i \in 1..(Len(list) + 1) |-> Append(list, e)[i].proposition]
  BY DEF TheirPropositions
<1>4. \A i \in 1..(Len(list) + 1) :
        Append(list, e)[i] = IF i <= Len(list) THEN list[i] ELSE e
  BY <1>1
<1>5. Append(Q, e.proposition) =
        [i \in 1..(Len(list) + 1) |-> IF i <= Len(list) THEN Q[i] ELSE e.proposition]
  <2> HIDE DEF D, Q
  <2>1. QED  BY <1>2
<1>6. TheirPropositions(Append(list, e)) = Append(Q, e.proposition)
  <2>1. \A i \in 1..(Len(list) + 1) :
          Append(list, e)[i].proposition = IF i <= Len(list) THEN Q[i] ELSE e.proposition
    BY <1>1, <1>4
  <2> HIDE DEF Q
  <2>2. QED  BY <1>3, <1>5, <2>1
<1>7. QED  BY <1>2, <1>6

-----------------------------------------------------------------------------
(* The lists of a session, and the rows an export makes of them.              *)
Outcomes   == {"accepted", "edited", "deleted", "unreviewed"}
EditKinds  == {"field", "boundary", "both", "none"}
Candidates == [proposition : KnownPropositions, original : KnownPropositions,
               outcome : Outcomes, edit : EditKinds, explicit : BOOLEAN]
HandAdded  == [proposition : Payloads, explicit : BOOLEAN]

Lists(x) ==
  /\ x.candidates \in Seq(Candidates) /\ x.hand \in Seq(HandAdded)
  /\ x.learnings \in Nat

LEMMA FourParts ==
  ASSUME NEW S, NEW a \in Seq(S), NEW b \in Seq(S), NEW c \in Seq(S), NEW d \in Seq(S),
         NEW all, all = a \o b \o c \o d
  PROVE  /\ all \in Seq(S)
         /\ Len(all) = Len(a) + Len(b) + Len(c) + Len(d)
         /\ \A i \in 1..Len(a) : all[i] = a[i]
         /\ \A i \in 1..Len(b) : all[Len(a) + i] = b[i]
         /\ \A i \in 1..Len(c) : all[Len(a) + Len(b) + i] = c[i]
         /\ \A i \in 1..Len(d) : all[Len(a) + Len(b) + Len(c) + i] = d[i]
<1> DEFINE ab == a \o b
           abc == ab \o c
<1>0. Len(a) \in Nat /\ Len(b) \in Nat /\ Len(c) \in Nat /\ Len(d) \in Nat  OBVIOUS
<1>1. /\ ab \in Seq(S) /\ Len(ab) = Len(a) + Len(b)
      /\ \A i \in 1..(Len(a) + Len(b)) : ab[i] = IF i <= Len(a) THEN a[i] ELSE b[i - Len(a)]
  BY ConcatProperties, Zenon
<1> HIDE DEF ab
<1>2. /\ abc \in Seq(S) /\ Len(abc) = Len(ab) + Len(c)
      /\ \A i \in 1..(Len(ab) + Len(c)) :
           abc[i] = IF i <= Len(ab) THEN ab[i] ELSE c[i - Len(ab)]
  <2>1. ab \in Seq(S)  BY <1>1
  <2>2. QED  BY <2>1, ConcatProperties, Zenon
<1> HIDE DEF abc
<1>3. /\ all \in Seq(S) /\ Len(all) = Len(abc) + Len(d)
      /\ \A i \in 1..(Len(abc) + Len(d)) :
           all[i] = IF i <= Len(abc) THEN abc[i] ELSE d[i - Len(abc)]
  <2>1. abc \in Seq(S)  BY <1>2
  <2>2. all = abc \o d  BY DEF abc, ab
  <2>3. /\ abc \o d \in Seq(S) /\ Len(abc \o d) = Len(abc) + Len(d)
        /\ \A i \in 1..(Len(abc) + Len(d)) :
             (abc \o d)[i] = IF i <= Len(abc) THEN abc[i] ELSE d[i - Len(abc)]
    BY <2>1, ConcatProperties, Zenon
  <2>4. QED  BY <2>2, <2>3, Zenon
<1>4. ASSUME NEW i \in 1..Len(a)  PROVE all[i] = a[i]
  <2>1. all[i] = abc[i]  BY <1>0, <1>1, <1>2, <1>3
  <2>2. abc[i] = ab[i]  BY <1>0, <1>1, <1>2
  <2>3. ab[i] = a[i]  BY <1>0, <1>1
  <2>4. QED  BY <2>1, <2>2, <2>3
<1>5. ASSUME NEW i \in 1..Len(b)  PROVE all[Len(a) + i] = b[i]
  <2>1. all[Len(a) + i] = abc[Len(a) + i]  BY <1>0, <1>1, <1>2, <1>3
  <2>2. abc[Len(a) + i] = ab[Len(a) + i]  BY <1>0, <1>1, <1>2
  <2>3. ab[Len(a) + i] = b[i]
    <3>1. /\ Len(a) + i \in 1..(Len(a) + Len(b)) /\ ~(Len(a) + i <= Len(a))
          /\ (Len(a) + i) - Len(a) = i
      BY <1>0
    <3>2. QED  BY <1>1, <3>1
  <2>4. QED  BY <2>1, <2>2, <2>3
<1>6. ASSUME NEW i \in 1..Len(c)  PROVE all[Len(a) + Len(b) + i] = c[i]
  <2>1. /\ Len(ab) + i \in 1..(Len(ab) + Len(c)) /\ ~(Len(ab) + i <= Len(ab))
        /\ (Len(ab) + i) - Len(ab) = i /\ Len(ab) + i <= Len(abc)
        /\ Len(ab) + i \in 1..(Len(abc) + Len(d))
    BY <1>0, <1>1, <1>2
  <2>2. all[Len(ab) + i] = abc[Len(ab) + i]  BY <1>3, <2>1
  <2>3. abc[Len(ab) + i] = c[i]  BY <1>2, <2>1
  <2>4. QED  BY <1>1, <2>2, <2>3
<1>7. ASSUME NEW i \in 1..Len(d)  PROVE all[Len(a) + Len(b) + Len(c) + i] = d[i]
  <2>1. /\ Len(abc) + i \in 1..(Len(abc) + Len(d)) /\ ~(Len(abc) + i <= Len(abc))
        /\ (Len(abc) + i) - Len(abc) = i
    BY <1>0, <1>1, <1>2
  <2>2. all[Len(abc) + i] = d[i]  BY <1>3, <2>1
  <2>3. Len(abc) + i = Len(a) + Len(b) + Len(c) + i  BY <1>0, <1>1, <1>2
  <2>4. QED  BY <2>2, <2>3
<1>8. Len(all) = Len(a) + Len(b) + Len(c) + Len(d)  BY <1>0, <1>1, <1>2, <1>3
<1>9. QED  BY <1>3, <1>4, <1>5, <1>6, <1>7, <1>8

LEMMA RowsShape ==
  ASSUME NEW x, Lists(x), NEW rows, rows = Rows(x),
         NEW c \in Nat, DOMAIN x.candidates = 1..c, NEW h \in Nat, DOMAIN x.hand = 1..h
  PROVE  /\ \E S : rows \in Seq(S)
         /\ Len(rows) \in Nat /\ c + h <= Len(rows)
         /\ \A i \in 1..c : rows[i] = CandidateRow(x.candidates[i])
         /\ \A i \in 1..h : rows[c + i] = HandRow(x.hand[i])
         /\ \A i \in (c + h + 1)..Len(rows) :
              rows[i].type \in {"cycle-learning", "blind-segment"}
<1> DEFINE one == [i \in DOMAIN x.candidates |-> CandidateRow(x.candidates[i])]
           two == [i \in DOMAIN x.hand |-> HandRow(x.hand[i])]
           three == [i \in 1..x.learnings |-> [type |-> "cycle-learning"]]
           four == IF x.blind = NoSegment THEN <<>>
                   ELSE <<[type |-> "blind-segment", blind |-> x.blind, report |-> x.report]>>
<1>1. PICK S : S = {one[i] : i \in DOMAIN one} \cup {two[i] : i \in DOMAIN two}
                \cup {[type |-> "cycle-learning"]}
                \cup {[type |-> "blind-segment", blind |-> x.blind, report |-> x.report]}
  OBVIOUS
<1>2. x.learnings \in Nat  BY DEF Lists
<1>3. PICK a : a = one  OBVIOUS
<1>4. a \in Seq(S) /\ Len(a) = c /\ \A i \in 1..c : a[i] = CandidateRow(x.candidates[i])
  <2>1. a = [i \in 1..c |-> CandidateRow(x.candidates[i])]  BY <1>2, <1>3
  <2>2. \A i \in 1..c : CandidateRow(x.candidates[i]) \in S  BY <1>1, <1>2
  <2>3. a \in Seq(S) /\ Len(a) = c  BY <1>2, <2>1, <2>2
  <2>4. \A i \in 1..c : a[i] = CandidateRow(x.candidates[i])  BY <2>1
  <2>5. QED  BY <2>3, <2>4
<1>5. PICK b : b = two  OBVIOUS
<1>6. b \in Seq(S) /\ Len(b) = h /\ \A i \in 1..h : b[i] = HandRow(x.hand[i])
  <2>1. b = [i \in 1..h |-> HandRow(x.hand[i])]  BY <1>2, <1>5
  <2>2. \A i \in 1..h : HandRow(x.hand[i]) \in S  BY <1>1, <1>2
  <2>3. b \in Seq(S) /\ Len(b) = h  BY <1>2, <2>1, <2>2
  <2>4. \A i \in 1..h : b[i] = HandRow(x.hand[i])  BY <2>1
  <2>5. QED  BY <2>3, <2>4
<1>7. PICK d : d = three  OBVIOUS
<1>8. d \in Seq(S) /\ Len(d) \in Nat /\ \A i \in 1..Len(d) : d[i].type = "cycle-learning"
  <2>1. [type |-> "cycle-learning"] \in S  BY <1>1
  <2>2. PICK n \in Nat : n = x.learnings  BY <1>2
  <2>3. d = [i \in 1..n |-> [type |-> "cycle-learning"]]  BY <1>7, <2>2
  <2>4. d \in Seq(S) /\ Len(d) = n  BY <2>1, <2>3
  <2>5. \A i \in 1..n : d[i].type = "cycle-learning"  BY <2>3
  <2>6. QED  BY <2>4, <2>5
<1>9. PICK e : e = four  OBVIOUS
<1>10. e \in Seq(S) /\ Len(e) \in Nat /\ \A i \in 1..Len(e) : e[i].type = "blind-segment"
  <2>1. PICK r : r = [type |-> "blind-segment", blind |-> x.blind, report |-> x.report]  OBVIOUS
  <2>2. r \in S /\ r.type = "blind-segment"  BY <1>1, <2>1
  <2>3. e = <<>> \/ e = <<r>>  BY <1>9, <2>1
  <2> HIDE DEF four
  <2>4. CASE e = <<>>
    <3>1. e \in Seq(S) /\ Len(e) = 0  BY <2>4
    <3>2. QED  BY <3>1
  <2>5. CASE e = <<r>>
    <3>1. e \in Seq(S) /\ Len(e) = 1 /\ e[1] = r  BY <2>2, <2>5
    <3>2. QED  BY <2>2, <3>1
  <2>6. QED  BY <2>3, <2>4, <2>5
<1>11. rows = a \o b \o d \o e  BY <1>3, <1>5, <1>7, <1>9 DEF Rows
<1> HIDE DEF one, two, three, four
<1>12. /\ rows \in Seq(S)
       /\ Len(rows) = Len(a) + Len(b) + Len(d) + Len(e)
       /\ \A i \in 1..Len(a) : rows[i] = a[i]
       /\ \A i \in 1..Len(b) : rows[Len(a) + i] = b[i]
       /\ \A i \in 1..Len(d) : rows[Len(a) + Len(b) + i] = d[i]
       /\ \A i \in 1..Len(e) : rows[Len(a) + Len(b) + Len(d) + i] = e[i]
  <2>1. a \in Seq(S) /\ b \in Seq(S) /\ d \in Seq(S) /\ e \in Seq(S)
    BY <1>4, <1>6, <1>8, <1>10
  <2>2. QED  BY <1>11, <2>1, FourParts
<1>13. \A i \in 1..c : rows[i] = CandidateRow(x.candidates[i])  BY <1>4, <1>12
<1>14. \A i \in 1..h : rows[c + i] = HandRow(x.hand[i])  BY <1>4, <1>6, <1>12
<1>15. ASSUME NEW i \in (c + h + 1)..Len(rows)
       PROVE  rows[i].type \in {"cycle-learning", "blind-segment"}
  <2>1. Len(rows) = c + h + Len(d) + Len(e)  BY <1>4, <1>6, <1>12
  <2>2. CASE i <= c + h + Len(d)
    <3>1. PICK k \in 1..Len(d) : i = c + h + k
      <4>1. i - (c + h) \in 1..Len(d) /\ i = c + h + (i - (c + h))  BY <1>8, <2>1, <2>2
      <4>2. QED  BY <4>1
    <3>2. rows[i] = d[k]  BY <1>4, <1>6, <1>12, <3>1
    <3>3. QED  BY <1>8, <3>2
  <2>3. CASE i > c + h + Len(d)
    <3>1. PICK k \in 1..Len(e) : i = c + h + Len(d) + k
      <4>1. /\ i - (c + h + Len(d)) \in 1..Len(e)
            /\ i = c + h + Len(d) + (i - (c + h + Len(d)))
        BY <1>8, <1>10, <2>1, <2>3
      <4>2. QED  BY <4>1
    <3>2. rows[i] = e[k]  BY <1>4, <1>6, <1>12, <3>1
    <3>3. QED  BY <1>10, <3>2
  <2>4. QED  BY <1>8, <1>10, <2>1, <2>2, <2>3
<1>16. Len(rows) \in Nat /\ c + h <= Len(rows)
  <2>1. Len(rows) = c + h + Len(d) + Len(e)  BY <1>4, <1>6, <1>12
  <2>2. QED  BY <1>2, <1>8, <1>10, <2>1
<1>17. QED  BY <1>2, <1>12, <1>13, <1>14, <1>15, <1>16

(* The propositions of what is picked.                                        *)
PickedPropositions(seq, places) ==
  [n \in 0..Len(seq) |-> TheirPropositions(PickedUpTo(seq, places)[n])]

LEMMA PropositionSteps ==
  ASSUME NEW S, NEW seq \in Seq(S), NEW places
  PROVE  /\ PickedPropositions(seq, places)[0] = <<>>
         /\ \A n \in 1..Len(seq) :
              PickedPropositions(seq, places)[n] =
                IF n \in places
                THEN Append(PickedPropositions(seq, places)[n - 1], seq[n].proposition)
                ELSE PickedPropositions(seq, places)[n - 1]
<1> DEFINE P == PickedUpTo(seq, places)
           D == {seq[i] : i \in places \cap DOMAIN seq}
<1>1. Len(seq) \in Nat  OBVIOUS
<1>2. /\ P[0] = <<>>
      /\ \A n \in 1..Len(seq) : P[n] = IF n \in places THEN Append(P[n - 1], seq[n])
                                       ELSE P[n - 1]
  BY PickedSteps
<1>3. \A n \in 0..Len(seq) : P[n] \in Seq(D)  BY PickedTyped
<1>4. \A n \in 0..Len(seq) : PickedPropositions(seq, places)[n] = TheirPropositions(P[n])
  BY DEF PickedPropositions
<1> HIDE DEF P, D
<1>5. PickedPropositions(seq, places)[0] = <<>>
  <2>1. DOMAIN <<>> = {} /\ <<>> = [i \in DOMAIN <<>> |-> <<>>[i]]  OBVIOUS
  <2>2. TheirPropositions(<<>>) = <<>>  BY <2>1 DEF TheirPropositions
  <2>3. 0 \in 0..Len(seq)  BY <1>1
  <2>4. QED  BY <1>2, <1>4, <2>2, <2>3
<1>6. ASSUME NEW n \in 1..Len(seq)
      PROVE  PickedPropositions(seq, places)[n] =
               IF n \in places
               THEN Append(PickedPropositions(seq, places)[n - 1], seq[n].proposition)
               ELSE PickedPropositions(seq, places)[n - 1]
  <2>1. n \in 0..Len(seq) /\ n - 1 \in 0..Len(seq)  BY <1>1
  <2>2. P[n - 1] \in Seq(D)  BY <1>3, <2>1
  <2>3. TheirPropositions(Append(P[n - 1], seq[n])) =
          Append(TheirPropositions(P[n - 1]), seq[n].proposition)
    BY <2>2, PropositionsOf
  <2>4. /\ PickedPropositions(seq, places)[n] = TheirPropositions(P[n])
        /\ PickedPropositions(seq, places)[n - 1] = TheirPropositions(P[n - 1])
    BY <1>4, <2>1
  <2>5. P[n] = IF n \in places THEN Append(P[n - 1], seq[n]) ELSE P[n - 1]  BY <1>2
  <2>6. QED  BY <2>3, <2>4, <2>5, Zenon
<1>7. QED  BY <1>5, <1>6

LEMMA ThreeInARow ==
  ASSUME NEW D, NEW a \in Seq(D), NEW b \in Seq(D), NEW c \in Seq(D)
  PROVE  (a \o b) \o c = a \o (b \o c)
BY ConcatAssociative

(* A session without an unreviewed candidate is written as it is counted: its *)
(* rows have as many of each outcome, and their gold is what was kept.        *)
LEMMA RowsAgree ==
  ASSUME NEW x, Lists(x),
         \A i \in DOMAIN x.candidates : x.candidates[i].outcome # "unreviewed"
  PROVE  RowCounts(Rows(x)) = Counts(x) /\ GoldOf(Rows(x)) = Kept(x)
<1>1. PICK cands \in Seq(Candidates) : cands = x.candidates  BY DEF Lists
<1>2. PICK hand \in Seq(HandAdded) : hand = x.hand  BY DEF Lists
<1>3. PICK c \in Nat : c = Len(cands) /\ DOMAIN cands = 1..c  OBVIOUS
<1>4. PICK h \in Nat : h = Len(hand) /\ DOMAIN hand = 1..h  OBVIOUS
<1>5. PICK rows : rows = Rows(x)  OBVIOUS
<1>6. /\ \E S : rows \in Seq(S)
      /\ Len(rows) \in Nat /\ c + h <= Len(rows)
      /\ \A i \in 1..c : rows[i] = CandidateRow(cands[i])
      /\ \A i \in 1..h : rows[c + i] = HandRow(hand[i])
      /\ \A i \in (c + h + 1)..Len(rows) :
           rows[i].type \in {"cycle-learning", "blind-segment"}
  <2>1. DOMAIN x.candidates = 1..c /\ DOMAIN x.hand = 1..h  BY <1>1, <1>2, <1>3, <1>4
  <2>2. /\ \E S : rows \in Seq(S)
        /\ Len(rows) \in Nat /\ c + h <= Len(rows)
        /\ \A i \in 1..c : rows[i] = CandidateRow(x.candidates[i])
        /\ \A i \in 1..h : rows[c + i] = HandRow(x.hand[i])
        /\ \A i \in (c + h + 1)..Len(rows) :
             rows[i].type \in {"cycle-learning", "blind-segment"}
    BY <1>5, <2>1, RowsShape
  <2>3. QED  BY <1>1, <1>2, <2>2
<1>7. PICK S : rows \in Seq(S)  BY <1>6
<1>8. PICK m \in Nat : m = Len(rows) /\ DOMAIN rows = 1..m  BY <1>7
<1>9. ASSUME NEW i \in 1..c
      PROVE  /\ i \in DOMAIN rows /\ cands[i] \in Candidates
             /\ cands[i].outcome \in {"accepted", "edited", "deleted"}
             /\ rows[i].type = IF cands[i].outcome = "deleted" THEN "candidate-audit"
                               ELSE "annotation"
             /\ rows[i].origin = "pre-selected" /\ rows[i].outcome = cands[i].outcome
             /\ rows[i].proposition = cands[i].proposition
             /\ rows[i].explicit = cands[i].explicit
  <2>1. i \in DOMAIN rows /\ cands[i] \in Candidates  BY <1>3, <1>6, <1>8
  <2>2. cands[i].outcome \in Outcomes  BY <2>1 DEF Candidates
  <2>3. cands[i].outcome # "unreviewed"  BY <1>1, <1>3
  <2>4. rows[i] = CandidateRow(cands[i])  BY <1>6
  <2>5. QED  BY <2>1, <2>2, <2>3, <2>4 DEF Outcomes, CandidateRow
<1>10. ASSUME NEW i \in 1..h
       PROVE  /\ c + i \in DOMAIN rows /\ hand[i] \in HandAdded
              /\ rows[c + i].type = "annotation" /\ rows[c + i].origin = "hand-added"
              /\ rows[c + i].proposition = hand[i].proposition
              /\ rows[c + i].explicit = hand[i].explicit
  <2>1. c + i \in DOMAIN rows /\ hand[i] \in HandAdded  BY <1>4, <1>6, <1>8
  <2>2. rows[c + i] = HandRow(hand[i])  BY <1>6
  <2>3. QED  BY <2>1, <2>2 DEF HandRow
<1>11. ASSUME NEW i \in 1..m
       PROVE  \/ i \in 1..c
              \/ \E k \in 1..h : i = c + k
              \/ i > c + h /\ rows[i].type \in {"cycle-learning", "blind-segment"}
  <2>1. CASE i > c /\ i <= c + h
    <3>1. i - c \in 1..h /\ i = c + (i - c)  BY <2>1
    <3>2. QED  BY <3>1
  <2>2. CASE i > c + h  BY <1>6, <1>8, <2>2
  <2>3. QED  BY <2>1, <2>2
<1>12. RowCounts(rows) = Counts(x)
  <2>1. ASSUME NEW outcome
        PROVE  Preselected(rows, outcome)
                 = Cardinality({i \in DOMAIN cands : cands[i].outcome = outcome})
    <3> DEFINE X == {i \in DOMAIN rows : /\ rows[i].type \in {"annotation", "candidate-audit"}
                                         /\ rows[i].origin = "pre-selected"
                                         /\ rows[i].outcome = outcome}
               Y == {i \in DOMAIN cands : cands[i].outcome = outcome}
    <3>1. ASSUME NEW i \in Y  PROVE i \in X  BY <1>3, <1>9
    <3>2. ASSUME NEW i \in X  PROVE i \in Y
      <4>1. i \in 1..m /\ rows[i].origin = "pre-selected" /\ rows[i].outcome = outcome
            /\ rows[i].type \in {"annotation", "candidate-audit"}
        BY <1>8
      <4>2. i \in 1..c
        <5>1. CASE \E k \in 1..h : i = c + k  BY <1>10, <4>1, <5>1
        <5>2. QED  BY <1>11, <4>1, <5>1
      <4>3. QED  BY <1>3, <1>9, <4>1, <4>2
    <3>3. X = Y  BY <3>1, <3>2
    <3> HIDE DEF Y
    <3>4. Preselected(rows, outcome) = Cardinality(X)  BY DEF Preselected, Number
    <3>5. QED  BY <3>3, <3>4 DEF Y
  <2>2. Preselected(rows, "accepted") = Number(x.candidates, LAMBDA e : e.outcome = "accepted")
    <3>1. Number(x.candidates, LAMBDA e : e.outcome = "accepted")
            = Cardinality({i \in DOMAIN cands : cands[i].outcome = "accepted"})
      BY <1>1 DEF Number
    <3>2. QED  BY <2>1, <3>1
  <2>3. Preselected(rows, "edited") = Number(x.candidates, LAMBDA e : e.outcome = "edited")
    <3>1. Number(x.candidates, LAMBDA e : e.outcome = "edited")
            = Cardinality({i \in DOMAIN cands : cands[i].outcome = "edited"})
      BY <1>1 DEF Number
    <3>2. QED  BY <2>1, <3>1
  <2>4. Preselected(rows, "deleted") = Number(x.candidates, LAMBDA e : e.outcome = "deleted")
    <3>1. Number(x.candidates, LAMBDA e : e.outcome = "deleted")
            = Cardinality({i \in DOMAIN cands : cands[i].outcome = "deleted"})
      BY <1>1 DEF Number
    <3>2. QED  BY <2>1, <3>1
  <2>5. Number(rows, LAMBDA r : r.type = "annotation" /\ r.origin = "hand-added") = Len(x.hand)
    <3>1. {i \in DOMAIN rows : rows[i].type = "annotation" /\ rows[i].origin = "hand-added"}
            = (c + 1)..(c + h)
      <4>1. \A k \in 1..h : c + k \in (c + 1)..(c + h)  OBVIOUS
      <4>2. \A i \in (c + 1)..(c + h) : i - c \in 1..h /\ i = c + (i - c)  OBVIOUS
      <4>3. ASSUME NEW i \in (c + 1)..(c + h)
            PROVE  /\ i \in DOMAIN rows
                   /\ rows[i].type = "annotation" /\ rows[i].origin = "hand-added"
        <5>1. PICK k \in 1..h : k = i - c /\ i = c + k  BY <4>2
        <5>2. c + k \in DOMAIN rows /\ rows[c + k].type = "annotation"
              /\ rows[c + k].origin = "hand-added"
          BY <1>10
        <5>3. QED  BY <5>1, <5>2
      <4>4. ASSUME NEW i \in DOMAIN rows, rows[i].type = "annotation",
                   rows[i].origin = "hand-added"
            PROVE  i \in (c + 1)..(c + h)
        BY <1>8, <1>9, <1>11, <4>1, <4>4
      <4>5. QED  BY <4>3, <4>4
    <3>2. Cardinality((c + 1)..(c + h)) = h
      <4>1. c + 1 \in Int /\ c + h \in Int  OBVIOUS
      <4>2. PICK a \in Int, b \in Int : a = c + 1 /\ b = c + h  BY <4>1
      <4>3. Cardinality(a..b) = IF a > b THEN 0 ELSE b - a + 1  BY FS_Interval
      <4>4. QED  BY <4>2, <4>3
    <3>3. Len(x.hand) = h  BY <1>2, <1>4
    <3>4. QED  BY <3>1, <3>2, <3>3 DEF Number
  <2>6. QED  BY <2>2, <2>3, <2>4, <2>5 DEF RowCounts, Counts
<1> DEFINE A == {i \in DOMAIN rows : rows[i].type = "annotation"}
           B == {i \in DOMAIN cands : Settled(cands[i])}
<1>13. PICK p : p = PickedPropositions(rows, A)  OBVIOUS
<1>14. PICK q : q = PickedPropositions(cands, B)  OBVIOUS
<1>15. GoldOf(rows) = p[m]
  <2>1. p[m] = TheirPropositions(PickedUpTo(rows, A)[Len(rows)])
    BY <1>8, <1>13 DEF PickedPropositions
  <2>2. QED  BY <2>1 DEF GoldOf, AnnotationRows, Filtered
<1>16. Kept(x) = q[c] \o [i \in 1..h |-> hand[i].proposition]
  <2>1. q[c] = TheirPropositions(PickedUpTo(cands, B)[Len(cands)])
    BY <1>3, <1>14 DEF PickedPropositions
  <2>2. TheirPropositions(hand) = [i \in 1..h |-> hand[i].proposition]  BY <1>4 DEF TheirPropositions
  <2>3. QED  BY <1>1, <1>2, <2>1, <2>2 DEF Kept, Filtered
<1>17. /\ p[0] = <<>>
       /\ \A n \in 1..m : p[n] = IF n \in A THEN Append(p[n - 1], rows[n].proposition)
                                 ELSE p[n - 1]
  BY <1>7, <1>8, <1>13, PropositionSteps
<1>18. /\ q[0] = <<>>
       /\ \A n \in 1..c : q[n] = IF n \in B THEN Append(q[n - 1], cands[n].proposition)
                                 ELSE q[n - 1]
  BY <1>3, <1>14, PropositionSteps
<1>19. \A i \in 1..c : (i \in A <=> i \in B) /\ i \in 1..m
  BY <1>3, <1>8, <1>9 DEF Settled
<1>20. \A i \in 1..h : c + i \in A  BY <1>10
<1>21. \A i \in (c + h + 1)..m : i \notin A  BY <1>6, <1>8
<1> HIDE DEF A, B
(* The candidates' rows give what was settled, the others what was added.     *)
<1>22. p[c] = q[c]
  <2> DEFINE T == {n \in 0..c : p[n] = q[n]}
  <2>1. 0 \in T  BY <1>17, <1>18
  <2>2. ASSUME NEW n \in 0..(c - 1), n \in T  PROVE n + 1 \in T
    <3>1. n + 1 \in 1..c /\ n + 1 \in 1..m /\ (n + 1) - 1 = n /\ n + 1 \in 0..c  BY <1>19
    <3>2. p[n] = q[n]  BY <2>2
    <3>3. rows[n + 1].proposition = cands[n + 1].proposition  BY <1>9, <3>1
    <3>4. p[n + 1] = q[n + 1]  BY <1>17, <1>18, <1>19, <3>1, <3>2, <3>3
    <3>5. QED  BY <3>1, <3>4
  <2> HIDE DEF T
  <2>3. 0..c \subseteq T  BY <2>1, <2>2, UpToAll
  <2>4. QED  BY <2>3 DEF T
<1>23. p[c + h] = q[c] \o [i \in 1..h |-> hand[i].proposition]
  <2>1. PICK f : f = [i \in 1..h |-> hand[i].proposition]  OBVIOUS
  <2>2. PICK D : D = {cands[i].proposition : i \in 1..c} \cup {f[i] : i \in 1..h}  OBVIOUS
  <2>3. q[c] \in Seq(D)
    <3> DEFINE T == {n \in 0..c : q[n] \in Seq(D)}
    <3>1. 0 \in T
      <4>1. <<>> \in Seq(D)  BY EmptySeq
      <4>2. q[0] \in Seq(D)  BY <1>18, <4>1, Zenon
      <4>3. QED  BY <4>2
    <3>2. ASSUME NEW n \in 0..(c - 1), n \in T  PROVE n + 1 \in T
      <4>1. n + 1 \in 1..c /\ (n + 1) - 1 = n /\ n + 1 \in 0..c  OBVIOUS
      <4>2. q[n] \in Seq(D) /\ cands[n + 1].proposition \in D  BY <2>2, <3>2, <4>1
      <4>3. Append(q[n], cands[n + 1].proposition) \in Seq(D)  BY <4>2
      <4>4. QED  BY <1>18, <4>1, <4>2, <4>3
    <3> HIDE DEF T
    <3>3. 0..c \subseteq T  BY <3>1, <3>2, UpToAll
    <3>4. QED  BY <3>3 DEF T
  <2> DEFINE T == {k \in 0..h : p[c + k] = q[c] \o [i \in 1..k |-> f[i]]}
  <2>4. 0 \in T
    <3>1. c + 0 = c /\ 0 \in 0..h  OBVIOUS
    <3>2. q[c] \o [i \in 1..0 |-> f[i]] = q[c]
      <4>1. [i \in 1..0 |-> f[i]] = <<>>  OBVIOUS
      <4>2. q[c] \o <<>> = q[c]  BY <2>3, ConcatEmptySeq
      <4>3. QED  BY <4>1, <4>2
    <3>3. QED  BY <1>22, <3>1, <3>2
  <2>5. ASSUME NEW k \in 0..(h - 1), k \in T  PROVE k + 1 \in T
    <3>1. /\ c + (k + 1) \in 1..m /\ (c + (k + 1)) - 1 = c + k
          /\ k + 1 \in 1..h /\ k + 1 \in 0..h /\ k \in Nat
      BY <1>6, <1>8
    <3>2. c + (k + 1) \in A /\ rows[c + (k + 1)].proposition = f[k + 1]
      BY <1>10, <1>20, <2>1, <3>1
    <3>3. p[c + (k + 1)] = Append(p[c + k], f[k + 1])  BY <1>17, <3>1, <3>2
    <3>4. p[c + k] = q[c] \o [i \in 1..k |-> f[i]]  BY <2>5
    <3>5. \A i \in 1..(k + 1) : f[i] \in D  BY <2>2, <3>1
    <3>6. Append(q[c] \o [i \in 1..k |-> f[i]], f[k + 1]) = q[c] \o [i \in 1..(k + 1) |-> f[i]]
      <4>1. PICK v : v = [i \in 1..k |-> f[i]]  OBVIOUS
      <4>2. PICK w : w = [i \in 1..(k + 1) |-> f[i]]  OBVIOUS
      <4>3. v \in Seq(D) /\ Len(v) = k  BY <3>1, <3>5, <4>1
      <4>4. w \in Seq(D) /\ Len(w) = k + 1  BY <3>1, <3>5, <4>2
      <4>5. w = Append(v, f[k + 1])
        <5>1. f[k + 1] \in D  BY <3>1, <3>5
        <5>2. Append(v, f[k + 1]) \in Seq(D) /\ Len(Append(v, f[k + 1])) = k + 1
          BY <3>1, <4>3, <5>1
        <5>3. \A i \in 1..(k + 1) : w[i] = Append(v, f[k + 1])[i]
          BY <3>1, <4>1, <4>2, <4>3, <5>1
        <5>4. QED  BY <4>4, <5>2, <5>3, SeqEqual
      <4>6. f[k + 1] \in D  BY <3>1, <3>5
      <4>7. PICK u \in Seq(D) : u = q[c]  BY <2>3
      <4>8. PICK y \in D : y = f[k + 1]  BY <4>6
      <4>9. PICK uv \in Seq(D) : uv = u \o v  BY <4>3, ConcatProperties
      <4>10. Append(uv, y) = u \o Append(v, y)
        <5>1. <<y>> \in Seq(D)  OBVIOUS
        <5>2. PICK one \in Seq(D) : one = <<y>>  BY <5>1
        <5>3. Append(uv, y) = uv \o one /\ Append(v, y) = v \o one
          BY <4>3, <5>2, AppendIsConcat
        <5>4. PICK z \in Seq(D) : z = v  BY <4>3
        <5>5. (u \o z) \o one = u \o (z \o one)  BY <5>2, <5>4, ThreeInARow
        <5>6. QED  BY <4>9, <5>3, <5>4, <5>5
      <4>11. QED  BY <4>1, <4>2, <4>5, <4>7, <4>8, <4>9, <4>10
    <3>7. QED  BY <3>1, <3>3, <3>4, <3>6
  <2> HIDE DEF T
  <2>6. 0..h \subseteq T  BY <2>4, <2>5, UpToAll
  <2>7. p[c + h] = q[c] \o [i \in 1..h |-> f[i]]  BY <2>6 DEF T
  <2>8. [i \in 1..h |-> f[i]] = [i \in 1..h |-> hand[i].proposition]  BY <2>1
  <2>9. QED  BY <2>7, <2>8
<1>24. p[m] = p[c + h]
  <2>1. PICK d \in Nat : m = c + h + d
    <3>1. m - (c + h) \in Nat /\ m = c + h + (m - (c + h))  BY <1>6, <1>8
    <3>2. QED  BY <3>1
  <2> DEFINE T == {k \in 0..d : p[c + h + k] = p[c + h]}
  <2>2. 0 \in T
    <3>1. c + h + 0 = c + h /\ 0 \in 0..d  OBVIOUS
    <3>2. QED  BY <3>1
  <2>3. ASSUME NEW k \in 0..(d - 1), k \in T  PROVE k + 1 \in T
    <3>1. /\ c + h + (k + 1) \in 1..m /\ (c + h + (k + 1)) - 1 = c + h + k
          /\ c + h + (k + 1) \in (c + h + 1)..m /\ k + 1 \in 0..d
      BY <2>1
    <3>2. p[c + h + (k + 1)] = p[c + h + k]  BY <1>17, <1>21, <3>1
    <3>3. p[c + h + k] = p[c + h]  BY <2>3
    <3>4. QED  BY <3>1, <3>2, <3>3
  <2> HIDE DEF T
  <2>4. 0..d \subseteq T  BY <2>2, <2>3, UpToAll
  <2>5. p[c + h + d] = p[c + h]
    <3>1. d \in 0..d  OBVIOUS
    <3>2. d \in T  BY <2>4, <3>1
    <3>3. QED  BY <3>2 DEF T
  <2>6. QED  BY <2>1, <2>5
<1>25. QED  BY <1>5, <1>12, <1>15, <1>16, <1>23, <1>24

(* What the annotations of a file hold can be validated.                      *)
RowsOK(rows) ==
  /\ \E S : AnnotationRows(rows) \in Seq(S)
  /\ \A i \in DOMAIN AnnotationRows(rows) :
       /\ AnnotationRows(rows)[i].proposition \in KnownPropositions
       /\ AnnotationRows(rows)[i].explicit \in BOOLEAN

LEMMA AnnotationsOf ==
  ASSUME NEW S, NEW rows \in Seq(S)
  PROVE  /\ \E D : AnnotationRows(rows) \in Seq(D)
         /\ \A k \in DOMAIN AnnotationRows(rows) :
              \E i \in DOMAIN rows : /\ rows[i].type = "annotation"
                                     /\ AnnotationRows(rows)[k] = rows[i]
<1> DEFINE A == {j \in DOMAIN rows : rows[j].type = "annotation"}
           D == {rows[i] : i \in A \cap DOMAIN rows}
<1>1. Len(rows) \in 0..Len(rows)  OBVIOUS
<1>2. PickedUpTo(rows, A)[Len(rows)] \in Seq(D)
  <2>1. \A n \in 0..Len(rows) : PickedUpTo(rows, A)[n] \in Seq(D)  BY PickedTyped
  <2> HIDE DEF D, A
  <2>2. QED  BY <1>1, <2>1
<1>3. AnnotationRows(rows) = PickedUpTo(rows, A)[Len(rows)]  BY DEF AnnotationRows, Filtered
<1>4. AnnotationRows(rows) \in Seq(D)  BY <1>2, <1>3
<1>5. \A k \in DOMAIN AnnotationRows(rows) : AnnotationRows(rows)[k] \in D
  <2>1. PICK r \in Seq(D) : r = AnnotationRows(rows)  BY <1>4
  <2> HIDE DEF D
  <2>2. \A k \in DOMAIN r : r[k] \in D  OBVIOUS
  <2>3. QED  BY <2>1, <2>2
<1>6. QED  BY <1>4, <1>5

LEMMA ItemsAreFine ==
  ASSUME NEW rows, RowsOK(rows)
  PROVE  /\ Items(rows) \in Seq(Candidates)
         /\ \A i \in DOMAIN Items(rows) : CandidateOK(Items(rows)[i])
<1>1. PICK S : AnnotationRows(rows) \in Seq(S)  BY DEF RowsOK
<1>2. PICK r \in Seq(S) : r = AnnotationRows(rows)  BY <1>1
<1>3. PICK n \in Nat : n = Len(r) /\ DOMAIN r = 1..n  OBVIOUS
<1>4. ASSUME NEW i \in 1..n
      PROVE  /\ Candidate(r[i].proposition, r[i].explicit) \in Candidates
             /\ CandidateOK(Candidate(r[i].proposition, r[i].explicit))
  <2>1. r[i].proposition \in KnownPropositions /\ r[i].explicit \in BOOLEAN
    BY <1>2, <1>3 DEF RowsOK
  <2>2. QED
    BY <2>1 DEF Candidate, Candidates, Outcomes, EditKinds, CandidateOK, Settled
<1>5. Items(rows) = [i \in 1..n |-> Candidate(r[i].proposition, r[i].explicit)]
  BY <1>2, <1>3 DEF Items
<1>6. PICK items : items = Items(rows)  OBVIOUS
<1>7. items \in Seq(Candidates)  BY <1>4, <1>5, <1>6
<1>8. \A i \in DOMAIN items : CandidateOK(items[i])  BY <1>4, <1>5, <1>6
<1>9. QED  BY <1>6, <1>7, <1>8

LEMMA RowsAreOK ==
  ASSUME NEW x, Lists(x)
  PROVE  RowsOK(Rows(x))
<1>1. PICK cands \in Seq(Candidates) : cands = x.candidates  BY DEF Lists
<1>2. PICK hand \in Seq(HandAdded) : hand = x.hand  BY DEF Lists
<1>3. PICK c \in Nat : DOMAIN cands = 1..c  OBVIOUS
<1>4. PICK h \in Nat : DOMAIN hand = 1..h  OBVIOUS
<1>5. PICK rows : rows = Rows(x)  OBVIOUS
<1>6. /\ \E S : rows \in Seq(S)
      /\ Len(rows) \in Nat /\ c + h <= Len(rows)
      /\ \A i \in 1..c : rows[i] = CandidateRow(cands[i])
      /\ \A i \in 1..h : rows[c + i] = HandRow(hand[i])
      /\ \A i \in (c + h + 1)..Len(rows) :
           rows[i].type \in {"cycle-learning", "blind-segment"}
  <2>1. DOMAIN x.candidates = 1..c /\ DOMAIN x.hand = 1..h  BY <1>1, <1>2, <1>3, <1>4
  <2>2. /\ \E S : rows \in Seq(S)
        /\ Len(rows) \in Nat /\ c + h <= Len(rows)
        /\ \A i \in 1..c : rows[i] = CandidateRow(x.candidates[i])
        /\ \A i \in 1..h : rows[c + i] = HandRow(x.hand[i])
        /\ \A i \in (c + h + 1)..Len(rows) :
             rows[i].type \in {"cycle-learning", "blind-segment"}
    BY <1>5, <2>1, RowsShape
  <2>3. QED  BY <1>1, <1>2, <2>2
<1>7. PICK S : rows \in Seq(S)  BY <1>6
<1>8. PICK m \in Nat : m = Len(rows) /\ DOMAIN rows = 1..m  BY <1>7
<1>9. ASSUME NEW i \in DOMAIN rows, rows[i].type = "annotation"
      PROVE  rows[i].proposition \in KnownPropositions /\ rows[i].explicit \in BOOLEAN
  <2>1. CASE i \in 1..c
    <3>1. rows[i] = CandidateRow(cands[i]) /\ cands[i] \in Candidates  BY <1>3, <1>6, <2>1
    <3>2. QED  BY <3>1 DEF CandidateRow, Candidates
  <2>2. CASE i > c /\ i <= c + h
    <3>1. PICK k \in 1..h : i = c + k
      <4>1. i - c \in 1..h /\ i = c + (i - c)  BY <1>8, <2>2
      <4>2. QED  BY <4>1
    <3>2. rows[i] = HandRow(hand[k]) /\ hand[k] \in HandAdded  BY <1>4, <1>6, <3>1
    <3>3. Payloads \subseteq KnownPropositions  BY DEF KnownPropositions
    <3>4. QED  BY <3>2, <3>3 DEF HandRow, HandAdded
  <2>3. CASE i > c + h
    <3>1. i \in (c + h + 1)..Len(rows)  BY <1>8, <2>3
    <3>2. QED  BY <1>6, <1>9, <3>1
  <2>4. QED  BY <1>8, <2>1, <2>2, <2>3
<1>10. /\ \E D : AnnotationRows(rows) \in Seq(D)
       /\ \A k \in DOMAIN AnnotationRows(rows) :
            \E i \in DOMAIN rows : /\ rows[i].type = "annotation"
                                   /\ AnnotationRows(rows)[k] = rows[i]
  BY <1>7, AnnotationsOf
<1>11. \A k \in DOMAIN AnnotationRows(rows) :
         /\ AnnotationRows(rows)[k].proposition \in KnownPropositions
         /\ AnnotationRows(rows)[k].explicit \in BOOLEAN
  BY <1>9, <1>10
<1>12. QED  BY <1>5, <1>10, <1>11 DEF RowsOK

LEMMA CommittedAreOK ==
  ASSUME NEW g \in Committed
  PROVE  RowsOK(CommittedRows[g])
<1>1. PICK rows : rows = CommittedRows[g]  OBVIOUS
<1>2. /\ rows \in Seq(Range(rows))
      /\ \A i \in DOMAIN rows : rows[i].type = "annotation" => rows[i].explicit \in BOOLEAN
  BY <1>1, GoldAssumption
<1>3. /\ \E S : AnnotationRows(rows) \in Seq(S)
      /\ \A k \in DOMAIN AnnotationRows(rows) :
           \E i \in DOMAIN rows : /\ rows[i].type = "annotation"
                                  /\ AnnotationRows(rows)[k] = rows[i]
  BY <1>2, AnnotationsOf
<1>4. ASSUME NEW k \in DOMAIN AnnotationRows(rows)
      PROVE  AnnotationRows(rows)[k].proposition \in KnownPropositions
  <2>1. AnnotationRows(rows)[k].proposition \in Range(GoldOf(rows))
    BY DEF GoldOf, TheirPropositions, Range
  <2>2. Range(GoldOf(rows)) \in {Range(GoldOf(CommittedRows[r])) : r \in Committed}
    BY <1>1
  <2>3. AnnotationRows(rows)[k].proposition
          \in UNION {Range(GoldOf(CommittedRows[r])) : r \in Committed}
    BY <2>1, <2>2
  <2>4. QED  BY <2>3, Zenon DEF KnownPropositions
<1>5. QED  BY <1>1, <1>2, <1>3, <1>4 DEF RowsOK

-----------------------------------------------------------------------------
(* What is on disk agrees with itself.                                        *)
EntryOK(e) ==
  /\ e.slug \in Slugs /\ e.job \in Jobs
  /\ e.slug \notin torn =>
       /\ jsonl[e.slug].there /\ ann[e.slug].there
       /\ Agree(e, jsonl[e.slug].holds, ann[e.slug].holds)

BundleOK(s) ==
  /\ bundles[s].there =>
       /\ bundles[s].entry.session = s
       /\ Agree(bundles[s].entry, bundles[s].jsonl, bundles[s].ann)
  /\ sessions[s].job # NoJob /\ sessions[s].exported => bundles[s].there

SessionsTyped ==
  \A s \in SessionIds : /\ Lists(sessions[s])
                        /\ sessions[s].job # NoJob => SessionOK(sessions[s])

FilesInv ==
  /\ GoldInv /\ SessionsTyped
  /\ jobs \subseteq Jobs /\ torn \subseteq Slugs
  /\ jsonl = [g \in Slugs |-> jsonl[g]] /\ ann = [g \in Slugs |-> ann[g]]
  /\ bundles = [s \in SessionIds |-> bundles[s]]
  /\ \A g \in Slugs : jsonl[g].there => RowsOK(jsonl[g].holds)
  /\ \A e \in manifest.opinions : EntryOK(e)
  /\ \A s \in SessionIds : BundleOK(s)

LEMMA FilesAgree ==
  ASSUME FilesInv
  PROVE  ExportsAgree
BY DEF FilesInv, SessionsTyped, EntryOK, BundleOK, ExportsAgree, GoldTypeOK, Made

(* A session is made, or changed by its reviewer: no file is.                 *)
LEMMA SessionChanges ==
  ASSUME FilesInv, GoldInv', NEW s \in SessionIds, NEW y,
         sessions' = [sessions EXCEPT ![s] = y], Lists(y),
         y.job # NoJob => SessionOK(y),
         y.job # NoJob /\ y.exported => sessions[s].job # NoJob /\ sessions[s].exported,
         jobs' \subseteq Jobs, UNCHANGED files
  PROVE  FilesInv'
<1>1. /\ sessions'[s] = y
      /\ \A t \in SessionIds : t # s => sessions'[t] = sessions[t]
  BY DEF FilesInv, GoldInv
<1>2. /\ UNCHANGED <<jsonl, ann, manifest, bundles, torn>>  BY DEF files
<1>3. SessionsTyped'  BY <1>1 DEF FilesInv, SessionsTyped
<1>4. ASSUME NEW t \in SessionIds  PROVE BundleOK(t)'
  <2>1. BundleOK(t)  BY DEF FilesInv
  <2>2. /\ sessions'[t].job # NoJob /\ sessions'[t].exported
           => sessions[t].job # NoJob /\ sessions[t].exported
    BY <1>1
  <2>3. QED  BY <1>2, <2>1, <2>2 DEF BundleOK
<1>5. \A e \in manifest'.opinions : EntryOK(e)'  BY <1>2 DEF FilesInv, EntryOK
<1>6. QED  BY <1>2, <1>3, <1>4, <1>5 DEF FilesInv

LEMMA FilesInit == GoldInit => FilesInv
<1> SUFFICES ASSUME GoldInit PROVE FilesInv  OBVIOUS
<1>1. GoldInv  BY InitKeeps
<1>2. sessions = [s \in SessionIds |-> NotMade]  BY DEF GoldInit
<1>3. /\ NotMade.candidates = <<>> /\ NotMade.hand = <<>> /\ NotMade.learnings = 0
      /\ NotMade.job = NoJob
  BY DEF NotMade, NewSession
<1>4. SessionsTyped
  <2>1. Lists(NotMade)
    <3>1. <<>> \in Seq(Candidates) /\ <<>> \in Seq(HandAdded)  BY EmptySeq
    <3>2. QED  BY <1>3, <3>1 DEF Lists
  <2>2. QED  BY <1>2, <1>3, <2>1 DEF SessionsTyped
<1>5. jobs \subseteq Jobs /\ torn = {}
  <2>1. jobs \in {Jobs, Jobs \ Range(CommittedJob)} /\ torn = {}  BY DEF GoldInit
  <2>2. QED  BY <2>1
<1>6. /\ jsonl = [g \in Slugs |-> IF g \in Committed THEN File(CommittedRows[g]) ELSE NoFile]
      /\ ann = [g \in Slugs |-> IF g \in Committed THEN File(CommittedAnn(g)) ELSE NoFile]
      /\ bundles = [s \in SessionIds |-> NoBundle]
      /\ manifest.opinions = {CommittedEntry(g) : g \in Committed}
  BY DEF GoldInit
<1>7. ASSUME NEW g \in Slugs, jsonl[g].there  PROVE RowsOK(jsonl[g].holds)
  <2>1. g \in Committed  BY <1>6, <1>7 DEF NoFile
  <2>2. jsonl[g].holds = CommittedRows[g]  BY <1>6, <2>1 DEF File
  <2>3. QED  BY <2>1, <2>2, CommittedAreOK
<1>8. ASSUME NEW e \in manifest.opinions  PROVE EntryOK(e)
  <2>1. PICK g \in Committed : e = CommittedEntry(g)  BY <1>6
  <2>2. g \in Slugs /\ CommittedJob[g] \in Jobs  BY GoldAssumption
  <2>3. e.slug = g /\ e.job = CommittedJob[g] /\ e.counts = RowCounts(CommittedRows[g])
    BY <2>1 DEF CommittedEntry
  <2>4. /\ jsonl[g].there /\ jsonl[g].holds = CommittedRows[g]
        /\ ann[g].there /\ ann[g].holds = WithPlace(GoldOf(CommittedRows[g]))
    BY <1>6, <2>2 DEF File, CommittedAnn
  <2>5. QED  BY <2>2, <2>3, <2>4 DEF EntryOK, Agree
<1>9. ASSUME NEW s \in SessionIds  PROVE BundleOK(s)
  BY <1>2, <1>3, <1>6 DEF BundleOK, NoBundle
<1>10. QED  BY <1>1, <1>4, <1>5, <1>6, <1>7, <1>8, <1>9 DEF FilesInv

LEMMA NewTyped ==
  ASSUME NEW job \in Jobs, NEW list \in Seq(Candidates),
         \A i \in DOMAIN list : CandidateOK(list[i]), NEW record \in Slugs \cup {NoSlug},
         NEW y, y = NewSession(job, list, record)
  PROVE  Lists(y) /\ SessionOK(y) /\ ~y.exported
<1>1. /\ y.candidates = list /\ y.hand = <<>> /\ y.learnings = 0 /\ y.job = job
      /\ y.covered = FALSE /\ y.revealed = FALSE /\ y.exported = FALSE /\ y.slug = NoSlug
      /\ y.validationOf = record
  BY DEF NewSession
<1>2. <<>> \in Seq(HandAdded) /\ DOMAIN <<>> = {}  BY EmptySeq
<1>3. Lists(y)  BY <1>1, <1>2 DEF Lists
<1>4. SessionOK(y)  BY <1>1, <1>2 DEF SessionOK
<1>5. QED  BY <1>1, <1>3, <1>4

LEMMA FilesCreate ==
  ASSUME FilesInv, GoldInv', NEW s \in SessionIds, NEW job \in Jobs, NEW baseline \in BOOLEAN,
         CreateSession(s, job, baseline)
  PROVE  FilesInv'
<1>1. PICK found : found = IF baseline THEN Lexicon[job] ELSE Extracted[job]  OBVIOUS
<1>2. PICK list : list = [i \in DOMAIN found |-> Candidate(found[i], FALSE)]  OBVIOUS
<1>3. PICK y : y = NewSession(job, list, NoSlug)  OBVIOUS
<1>4. sessions' = [sessions EXCEPT ![s] = y] /\ jobs' = jobs /\ UNCHANGED files
  BY <1>1, <1>2, <1>3 DEF CreateSession
<1>5. found \in Seq(Range(found)) /\ Range(found) \subseteq KnownPropositions
  <2>1. found \in Seq(Range(found))  BY <1>1, GoldAssumption
  <2>2. Range(found) \subseteq Range(Extracted[job]) \cup Range(Lexicon[job])  BY <1>1
  <2>3. Range(found) \subseteq UNION {Range(Extracted[j]) \cup Range(Lexicon[j]) : j \in Jobs}
    BY <2>2
  <2>4. QED  BY <2>1, <2>3, Zenon DEF KnownPropositions
<1>6. PICK n \in Nat : DOMAIN found = 1..n  BY <1>5
<1>7. ASSUME NEW i \in 1..n
      PROVE  Candidate(found[i], FALSE) \in Candidates /\ CandidateOK(Candidate(found[i], FALSE))
  <2>1. found[i] \in KnownPropositions  BY <1>5, <1>6 DEF Range
  <2>2. QED
    BY <2>1 DEF Candidate, Candidates, Outcomes, EditKinds, CandidateOK, Settled
<1>8. list \in Seq(Candidates) /\ \A i \in DOMAIN list : CandidateOK(list[i])
  <2>1. list = [i \in 1..n |-> Candidate(found[i], FALSE)]  BY <1>2, <1>6
  <2>2. list \in Seq(Candidates)
    <3> DEFINE item(i) == Candidate(found[i], FALSE)
    <3>1. \A i \in 1..n : item(i) \in Candidates  BY <1>7
    <3>2. list = [i \in 1..n |-> item(i)]  BY <2>1
    <3> HIDE DEF item
    <3>3. QED  BY <3>1, <3>2
  <2>3. \A i \in DOMAIN list : CandidateOK(list[i])  BY <1>7, <2>1
  <2>4. QED  BY <2>2, <2>3
<1>9. Lists(y) /\ SessionOK(y) /\ ~y.exported  BY <1>3, <1>8, NewTyped
<1>10. jobs' \subseteq Jobs  BY <1>4 DEF FilesInv
<1>11. QED  BY <1>4, <1>9, <1>10, SessionChanges

LEMMA FilesValidation ==
  ASSUME FilesInv, GoldInv', NEW g \in Slugs, CreateValidation(g)
  PROVE  FilesInv'
<1>1. PICK e \in Records :
        /\ e.slug = g /\ jsonl[g].there
        /\ jobs' = jobs \cup {e.job}
        /\ IF OpenValidations(g) # {}
           THEN UNCHANGED sessions
           ELSE \E s \in SessionIds \ Made :
                  sessions' = [sessions EXCEPT ![s] = NewSession(e.job, Items(jsonl[g].holds), g)]
  BY DEF CreateValidation
<1>2. UNCHANGED files  BY DEF CreateValidation
<1>3. e.job \in Jobs /\ jobs' \subseteq Jobs  BY <1>1 DEF FilesInv, Records, EntryOK
<1>4. CASE UNCHANGED sessions
  <2>1. UNCHANGED <<jsonl, ann, manifest, bundles, torn>>  BY <1>2 DEF files
  <2>2. SessionsTyped'  BY <1>4 DEF FilesInv, SessionsTyped
  <2>3. \A t \in SessionIds : BundleOK(t)'  BY <1>4, <2>1 DEF FilesInv, BundleOK
  <2>4. \A r \in manifest'.opinions : EntryOK(r)'  BY <2>1 DEF FilesInv, EntryOK
  <2>5. QED  BY <1>3, <2>1, <2>2, <2>3, <2>4 DEF FilesInv
<1>5. ASSUME NEW s \in SessionIds,
             sessions' = [sessions EXCEPT ![s] = NewSession(e.job, Items(jsonl[g].holds), g)]
      PROVE  FilesInv'
  <2>1. RowsOK(jsonl[g].holds)  BY <1>1 DEF FilesInv
  <2>2. PICK items : items = Items(jsonl[g].holds)  OBVIOUS
  <2>3. items \in Seq(Candidates) /\ \A i \in DOMAIN items : CandidateOK(items[i])
    BY <2>1, <2>2, ItemsAreFine
  <2>4. PICK y : y = NewSession(e.job, items, g)  OBVIOUS
  <2>5. Lists(y) /\ SessionOK(y) /\ ~y.exported  BY <1>3, <2>3, <2>4, NewTyped
  <2>6. sessions' = [sessions EXCEPT ![s] = y]  BY <1>5, <2>2, <2>4
  <2>7. QED  BY <1>2, <1>3, <2>5, <2>6, SessionChanges
<1>6. QED  BY <1>1, <1>4, <1>5

-----------------------------------------------------------------------------
(* What reviewers ask for.                                                    *)
LEMMA SessionEdited ==
  ASSUME FilesInv, GoldInv', NEW s \in Made, NEW y, Edit(s, y), Lists(y), SessionOK(y),
         y.exported = sessions[s].exported
  PROVE  FilesInv'
<1>1. /\ s \in SessionIds /\ sessions[s].job # NoJob  BY DEF Made
<1>2. sessions' = [sessions EXCEPT ![s] = y] /\ jobs' = jobs /\ UNCHANGED files  BY DEF Edit
<1>3. jobs' \subseteq Jobs  BY <1>2 DEF FilesInv
<1>4. QED  BY <1>1, <1>2, <1>3, SessionChanges

LEMMA FilesOutcome ==
  ASSUME FilesInv, GoldInv', NEW s \in Made, NEW i \in DOMAIN sessions[s].candidates,
         NEW outcome \in Outcomes,
         NEW current \in {sessions[s].candidates[i].proposition} \cup Payloads,
         NEW explicit \in {FALSE, current.open},
         RecordOutcome(s, i, outcome, current, explicit)
  PROVE  FilesInv'
<1>1. PICK x : x = sessions[s]  OBVIOUS
<1>2. IsSession(x) /\ Lists(x) /\ SessionOK(x)
  BY <1>1 DEF FilesInv, GoldInv, SessionsTyped, Made, Fine
<1>3. PICK cands \in Seq(Candidates) : cands = x.candidates  BY <1>2 DEF Lists
<1>4. PICK c \in Candidates : c = cands[i]  BY <1>1, <1>3
<1>5. PICK kind : kind = IF outcome = "edited" THEN EditKind(current, c.original) ELSE "none"
  OBVIOUS
<1>6. kind \in EditKinds /\ (kind # "none" => outcome = "edited")
  <2>1. EditKind(current, c.original) \in {"both", "boundary", "field"}  BY DEF EditKind
  <2>2. QED  BY <1>5, <2>1 DEF EditKinds
<1>7. PICK d : d = [c EXCEPT !.proposition = current, !.outcome = outcome,
                             !.explicit = explicit, !.edit = kind]
  OBVIOUS
<1>8. d = Reviewed(c, outcome, current, explicit)  BY <1>5, <1>7 DEF Reviewed
<1>9. current \in KnownPropositions /\ explicit \in BOOLEAN
  <2>1. c.proposition \in KnownPropositions  BY DEF Candidates
  <2>2. Payloads \subseteq KnownPropositions  BY DEF KnownPropositions
  <2>3. current \in KnownPropositions  BY <1>1, <1>3, <1>4, <2>1, <2>2
  <2>4. QED  BY <2>3, PropositionsAssumption
<1>10. /\ d \in Candidates /\ d.proposition = current /\ d.outcome = outcome
       /\ d.explicit = explicit /\ d.edit = kind
  BY <1>6, <1>7, <1>9 DEF Candidates
<1>11. outcome \in {"accepted", "edited"} => MayStayOpen(current, explicit)
  BY DEF RecordOutcome
<1>12. CandidateOK(d)
  <2>1. d.original \in KnownPropositions  BY <1>10 DEF Candidates
  <2>2. QED
    BY <1>6, <1>9, <1>10, <1>11, <2>1 DEF CandidateOK, Settled, Outcomes, EditKinds
<1>13. PICK y : y = [x EXCEPT !.candidates = [cands EXCEPT ![i] = d]]  OBVIOUS
<1>14. Edit(s, y)
  <2>1. Edit(s, [x EXCEPT !.candidates[i] = Reviewed(c, outcome, current, explicit)])
    BY <1>1, <1>3, <1>4 DEF RecordOutcome
  <2>2. [x EXCEPT !.candidates[i] = d] = y  BY <1>2, <1>3, <1>13 DEF IsSession
  <2>3. QED  BY <1>8, <2>1, <2>2
<1>15. /\ y.candidates = [cands EXCEPT ![i] = d] /\ y.hand = x.hand
       /\ y.learnings = x.learnings /\ y.job = x.job /\ y.covered = x.covered
       /\ y.revealed = x.revealed /\ y.blind = x.blind /\ y.report = x.report
       /\ y.exported = x.exported /\ y.slug = x.slug /\ y.validationOf = x.validationOf
  BY <1>2, <1>13 DEF IsSession
<1>16. PICK new : new = y.candidates  OBVIOUS
<1>17. /\ new \in Seq(Candidates) /\ DOMAIN new = DOMAIN cands
       /\ \A k \in DOMAIN cands : new[k] = IF k = i THEN d ELSE cands[k]
  BY <1>1, <1>3, <1>10, <1>15, <1>16
<1>18. Lists(y)  BY <1>2, <1>15, <1>16, <1>17 DEF Lists
<1>19. \A k \in DOMAIN new : CandidateOK(new[k])
  BY <1>2, <1>3, <1>12, <1>17 DEF SessionOK
<1>20. SessionOK(y)
  <2> HIDE DEF CandidateOK
  <2>1. QED  BY <1>2, <1>15, <1>16, <1>19 DEF SessionOK
<1>21. QED  BY <1>1, <1>14, <1>15, <1>18, <1>20, SessionEdited

(* What leaves the candidates alone.                                          *)
SameOther(x, y) ==
  /\ y.candidates = x.candidates /\ y.job = x.job /\ y.exported = x.exported
  /\ y.slug = x.slug /\ y.validationOf = x.validationOf

LEMMA FilesHand ==
  ASSUME FilesInv, GoldInv', NEW s \in Made, NEW hand \in Seq(HandAdded),
         \A i \in DOMAIN hand : MayStayOpen(hand[i].proposition, hand[i].explicit),
         Edit(s, [sessions[s] EXCEPT !.hand = hand])
  PROVE  FilesInv'
<1>1. PICK x : x = sessions[s]  OBVIOUS
<1>2. IsSession(x) /\ Lists(x) /\ SessionOK(x)
  BY <1>1 DEF FilesInv, GoldInv, SessionsTyped, Made, Fine
<1>3. PICK y : y = [x EXCEPT !.hand = hand]  OBVIOUS
<1>4. /\ y.candidates = x.candidates /\ y.hand = hand
      /\ y.learnings = x.learnings /\ y.job = x.job /\ y.covered = x.covered
      /\ y.revealed = x.revealed /\ y.blind = x.blind /\ y.report = x.report
      /\ y.exported = x.exported /\ y.slug = x.slug /\ y.validationOf = x.validationOf
  BY <1>2, <1>3 DEF IsSession
<1>5. Lists(y)  BY <1>2, <1>4 DEF Lists
<1>6. \A i \in DOMAIN hand : hand[i].proposition \in Payloads
  <2>1. \A i \in DOMAIN hand : hand[i] \in HandAdded  OBVIOUS
  <2>2. QED  BY <2>1 DEF HandAdded
<1>7. SessionOK(y)  BY <1>2, <1>4, <1>6 DEF SessionOK
<1>8. QED  BY <1>1, <1>3, <1>4, <1>5, <1>7, SessionEdited

LEMMA FilesAdd ==
  ASSUME FilesInv, GoldInv', NEW s \in Made, NEW p \in Payloads, NEW explicit \in {FALSE, p.open},
         AddHandAdded(s, p, explicit)
  PROVE  FilesInv'
<1>1. PICK hand \in Seq(HandAdded) : hand = sessions[s].hand
  BY DEF FilesInv, SessionsTyped, Made, Lists
<1>2. PICK e : e = [proposition |-> p, explicit |-> explicit]  OBVIOUS
<1>3. explicit \in BOOLEAN
  <2>1. p \in KnownPropositions  BY DEF KnownPropositions
  <2>2. QED  BY <2>1, PropositionsAssumption
<1>4. e \in HandAdded /\ e.proposition = p /\ e.explicit = explicit  BY <1>2, <1>3 DEF HandAdded
<1>5. PICK more : more = Append(hand, e)  OBVIOUS
<1>6. /\ more \in Seq(HandAdded)
      /\ \A i \in DOMAIN more : (i \in DOMAIN hand /\ more[i] = hand[i]) \/ more[i] = e
  BY <1>4, <1>5
<1>7. MayStayOpen(p, explicit) /\ Edit(s, [sessions[s] EXCEPT !.hand = more])
  BY <1>1, <1>2, <1>5 DEF AddHandAdded
<1>8. \A i \in DOMAIN hand : MayStayOpen(hand[i].proposition, hand[i].explicit)
  BY <1>1 DEF FilesInv, SessionsTyped, Made, SessionOK
<1>9. \A i \in DOMAIN more : MayStayOpen(more[i].proposition, more[i].explicit)
  BY <1>4, <1>6, <1>7, <1>8
<1>10. QED  BY <1>6, <1>7, <1>9, FilesHand

LEMMA FilesDelete ==
  ASSUME FilesInv, GoldInv', NEW s \in Made, NEW p \in Payloads, DeleteHandAdded(s, p.id)
  PROVE  FilesInv'
<1>1. PICK hand \in Seq(HandAdded) : hand = sessions[s].hand
  BY DEF FilesInv, SessionsTyped, Made, Lists
<1> DEFINE A == {i \in DOMAIN hand : hand[i].proposition.id # p.id}
           D == {hand[i] : i \in A \cap DOMAIN hand}
<1>2. PICK less : less = PickedUpTo(hand, A)[Len(hand)]  OBVIOUS
<1>3. less \in Seq(D)
  <2>1. \A n \in 0..Len(hand) : PickedUpTo(hand, A)[n] \in Seq(D)  BY PickedTyped
  <2>2. Len(hand) \in 0..Len(hand)  OBVIOUS
  <2> HIDE DEF A, D
  <2>3. QED  BY <1>2, <2>1, <2>2
<1>4. /\ less \in Seq(HandAdded)
      /\ \A k \in DOMAIN less : less[k] \in D
  <2>1. D \subseteq HandAdded  OBVIOUS
  <2> HIDE DEF D
  <2>2. \A k \in DOMAIN less : less[k] \in D  BY <1>3
  <2>3. QED  BY <1>3, <2>1, <2>2
<1>5. Edit(s, [sessions[s] EXCEPT !.hand = less])
  <2>1. PICK x : x = sessions[s]  OBVIOUS
  <2>2. IsSession(x)  BY <2>1 DEF FilesInv, GoldInv, Made, Fine
  <2>3. less = Filtered(hand, LAMBDA h : h.proposition.id # p.id)  BY <1>2 DEF Filtered
  <2>4. [x EXCEPT !.hand = Filtered(x.hand, LAMBDA h : h.proposition.id # p.id)]
          = [x EXCEPT !.hand = less]
    BY <1>1, <2>1, <2>3
  <2>5. QED  BY <2>1, <2>4 DEF DeleteHandAdded
<1>6. \A i \in DOMAIN hand : MayStayOpen(hand[i].proposition, hand[i].explicit)
  BY <1>1 DEF FilesInv, SessionsTyped, Made, SessionOK
<1>7. \A i \in DOMAIN less : MayStayOpen(less[i].proposition, less[i].explicit)
  BY <1>4, <1>6
<1>8. QED  BY <1>4, <1>5, <1>7, FilesHand

LEMMA FilesOther ==
  ASSUME FilesInv, GoldInv', NEW s \in Made,
         \/ AddLearning(s) \/ Reveal(s) \/ RecordCoverage(s)
         \/ \E segment \in Segments : SetBlindSegment(s, segment)
  PROVE  FilesInv'
<1>1. PICK x : x = sessions[s]  OBVIOUS
<1>2. IsSession(x) /\ Lists(x) /\ SessionOK(x)
  BY <1>1 DEF FilesInv, GoldInv, SessionsTyped, Made, Fine
<1>3. ASSUME NEW learnings \in Nat, NEW blind, NEW revealed \in BOOLEAN, NEW report,
             NEW covered \in BOOLEAN, revealed => blind # NoSegment /\ report # <<>>,
             NEW y, SameOther(x, y), y.hand = x.hand,
             y.learnings = learnings, y.blind = blind, y.revealed = revealed,
             y.report = report, y.covered = covered, Edit(s, y)
      PROVE  FilesInv'
  <2>1. Lists(y)  BY <1>2, <1>3 DEF Lists, SameOther
  <2>2. SessionOK(y)  BY <1>2, <1>3 DEF SessionOK, SameOther
  <2>3. y.exported = sessions[s].exported  BY <1>1, <1>3 DEF SameOther
  <2>4. QED  BY <1>3, <2>1, <2>2, <2>3, SessionEdited
<1>4. /\ x.learnings \in Nat /\ x.revealed \in BOOLEAN /\ x.covered \in BOOLEAN
      /\ x.revealed => x.blind # NoSegment /\ x.report # <<>>
  BY <1>2 DEF Lists, SessionOK
<1>5. CASE AddLearning(s)
  <2>1. PICK y : y = [x EXCEPT !.learnings = x.learnings + 1]  OBVIOUS
  <2>2. /\ SameOther(x, y) /\ y.hand = x.hand /\ y.learnings = x.learnings + 1
        /\ y.blind = x.blind /\ y.revealed = x.revealed /\ y.report = x.report
        /\ y.covered = x.covered
    BY <1>2, <2>1 DEF IsSession, SameOther
  <2>3. Edit(s, y)  BY <1>1, <1>5, <2>1 DEF AddLearning
  <2>4. x.learnings + 1 \in Nat  BY <1>4
  <2>5. QED  BY <1>3, <1>4, <2>2, <2>3, <2>4
<1>6. CASE Reveal(s)
  <2>1. PICK report : report = Report(x)  OBVIOUS
  <2>2. report # <<>>  BY <2>1 DEF Report
  <2>3. PICK y : y = [x EXCEPT !.revealed = TRUE, !.report = report]  OBVIOUS
  <2>4. /\ SameOther(x, y) /\ y.hand = x.hand /\ y.learnings = x.learnings
        /\ y.blind = x.blind /\ y.revealed = TRUE /\ y.report = report
        /\ y.covered = x.covered
    BY <1>2, <2>3 DEF IsSession, SameOther
  <2>5. Edit(s, y) /\ x.blind # NoSegment  BY <1>1, <1>6, <2>1, <2>3 DEF Reveal
  <2>6. QED  BY <1>3, <1>4, <2>2, <2>4, <2>5
<1>7. CASE RecordCoverage(s)
  <2>1. PICK y : y = [x EXCEPT !.covered = TRUE]  OBVIOUS
  <2>2. /\ SameOther(x, y) /\ y.hand = x.hand /\ y.learnings = x.learnings
        /\ y.blind = x.blind /\ y.revealed = x.revealed /\ y.report = x.report
        /\ y.covered = TRUE
    BY <1>2, <2>1 DEF IsSession, SameOther
  <2>3. Edit(s, y)  BY <1>1, <1>7, <2>1 DEF RecordCoverage
  <2>4. QED  BY <1>3, <1>4, <2>2, <2>3
<1>8. CASE \E segment \in Segments : SetBlindSegment(s, segment)
  <2>1. PICK segment \in Segments : SetBlindSegment(s, segment)  BY <1>8
  <2>2. PICK y : y = [x EXCEPT !.blind = segment]  OBVIOUS
  <2>3. /\ SameOther(x, y) /\ y.hand = x.hand /\ y.learnings = x.learnings
        /\ y.blind = segment /\ y.revealed = x.revealed /\ y.report = x.report
        /\ y.covered = x.covered
    BY <1>2, <2>2 DEF IsSession, SameOther
  <2>4. Edit(s, y) /\ x.blind = NoSegment  BY <1>1, <2>1, <2>2 DEF SetBlindSegment
  <2>5. x.revealed = FALSE  BY <1>4, <2>4
  <2>6. QED  BY <1>3, <1>4, <2>3, <2>4, <2>5
<1>9. QED  BY <1>5, <1>6, <1>7, <1>8

-----------------------------------------------------------------------------
(* An export writes what agrees, however far it comes: until the manifest is  *)
(* written the name counts as torn, and the others' files are left alone.     *)
LEMMA FilesExport ==
  ASSUME FilesInv, GoldInv', NEW s \in Made, NEW slug \in Slugs, NEW done \in 1..5,
         Export(s, slug, done)
  PROVE  FilesInv'
<1>1. PICK x : x = sessions[s]  OBVIOUS
<1>2. s \in SessionIds /\ IsSession(x) /\ Lists(x) /\ SessionOK(x)
  BY <1>1 DEF FilesInv, GoldInv, SessionsTyped, Made, Fine
<1>3. PICK entry : entry = Entry(s, slug, x)  OBVIOUS
<1>4. PICK rows : rows = Rows(x)  OBVIOUS
<1>5. PICK gold : gold = WithPlace(Kept(x))  OBVIOUS
<1>6. /\ MayExport(x)
      /\ jsonl' = [jsonl EXCEPT ![slug] = File(rows)]
      /\ ann' = IF done >= 2 THEN [ann EXCEPT ![slug] = File(gold)] ELSE ann
      /\ manifest' = IF done >= 3 THEN [readable |-> TRUE, opinions |-> Listed(entry)]
                     ELSE manifest
      /\ bundles' = IF done >= 4
                    THEN [bundles EXCEPT ![s] = [there |-> TRUE, jsonl |-> jsonl'[slug].holds,
                                                 ann |-> ann'[slug].holds, entry |-> entry]]
                    ELSE bundles
      /\ sessions' = IF done = 5 THEN [sessions EXCEPT ![s].exported = TRUE, ![s].slug = slug]
                     ELSE sessions
      /\ torn' = IF done \in {1, 2} THEN torn \cup {slug}
                 ELSE IF done >= 3 THEN torn \ {slug} ELSE torn
      /\ jobs' = jobs
  BY <1>1, <1>3, <1>4, <1>5 DEF Export
<1>7. /\ entry.slug = slug /\ entry.session = s /\ entry.job = x.job
      /\ entry.counts = Counts(x)
  BY <1>3 DEF Entry
<1>8. Agree(entry, rows, gold) /\ RowsOK(rows)
  <2>1. \A i \in DOMAIN x.candidates : x.candidates[i].outcome # "unreviewed"
    BY <1>6 DEF MayExport
  <2>2. RowCounts(rows) = Counts(x) /\ WithPlace(GoldOf(rows)) = gold
    <3>1. RowCounts(rows) = Counts(x) /\ GoldOf(rows) = Kept(x)
      BY <1>2, <1>4, <2>1, RowsAgree
    <3>2. QED  BY <1>5, <3>1
  <2>3. RowsOK(rows)  BY <1>2, <1>4, RowsAreOK
  <2>4. QED  BY <1>7, <2>2, <2>3 DEF Agree
<1>9. /\ jsonl' = [g \in Slugs |-> jsonl'[g]]
      /\ jsonl'[slug].there /\ jsonl'[slug].holds = rows
      /\ \A g \in Slugs : g # slug => jsonl'[g] = jsonl[g]
  <2>1. jsonl = [g \in Slugs |-> jsonl[g]]  BY DEF FilesInv
  <2>2. jsonl'[slug] = File(rows) /\ \A g \in Slugs : g # slug => jsonl'[g] = jsonl[g]
    BY <1>6, <2>1
  <2>3. jsonl' = [g \in Slugs |-> jsonl'[g]]  BY <1>6, <2>1
  <2>4. QED  BY <2>2, <2>3 DEF File
<1>10. /\ ann' = [g \in Slugs |-> ann'[g]]
       /\ done >= 2 => ann'[slug].there /\ ann'[slug].holds = gold
       /\ \A g \in Slugs : g # slug => ann'[g] = ann[g]
  <2>1. ann = [g \in Slugs |-> ann[g]]  BY DEF FilesInv
  <2>2. CASE done >= 2
    <3>1. ann'[slug] = File(gold) /\ \A g \in Slugs : g # slug => ann'[g] = ann[g]
      BY <1>6, <2>1, <2>2
    <3>2. ann' = [g \in Slugs |-> ann'[g]]  BY <1>6, <2>1, <2>2
    <3>3. QED  BY <3>1, <3>2 DEF File
  <2>3. CASE ~(done >= 2)  BY <1>6, <2>1, <2>3
  <2>4. QED  BY <2>2, <2>3
<1>11. /\ bundles' = [t \in SessionIds |-> bundles'[t]]
       /\ \A t \in SessionIds : t # s => bundles'[t] = bundles[t]
       /\ done >= 4 => /\ bundles'[s].there /\ bundles'[s].entry = entry
                       /\ bundles'[s].jsonl = rows /\ bundles'[s].ann = gold
       /\ done < 4 => bundles'[s] = bundles[s]
  <2>1. bundles = [t \in SessionIds |-> bundles[t]]  BY DEF FilesInv
  <2>2. CASE done >= 4
    <3>1. jsonl'[slug].holds = rows /\ ann'[slug].holds = gold  BY <1>9, <1>10, <2>2
    <3>2. PICK b : b = [there |-> TRUE, jsonl |-> rows, ann |-> gold, entry |-> entry]  OBVIOUS
    <3>3. bundles' = [bundles EXCEPT ![s] = b]  BY <1>6, <2>2, <3>1, <3>2
    <3>4. /\ bundles' = [t \in SessionIds |-> bundles'[t]] /\ bundles'[s] = b
          /\ \A t \in SessionIds : t # s => bundles'[t] = bundles[t]
      BY <1>2, <2>1, <3>3
    <3>5. QED  BY <2>2, <3>2, <3>4
  <2>3. CASE done < 4  BY <1>6, <2>1, <2>3
  <2>4. QED  BY <2>2, <2>3
<1>12. SessionsTyped' /\ \A t \in SessionIds :
         /\ sessions'[t].job = sessions[t].job
         /\ t # s \/ done < 5 => sessions'[t].exported = sessions[t].exported
  <2>1. CASE done < 5
    <3>1. sessions' = sessions  BY <1>6, <2>1
    <3>2. QED  BY <2>1, <3>1 DEF FilesInv, SessionsTyped
  <2>2. CASE done = 5
    <3>1. PICK y : y = [x EXCEPT !.exported = TRUE, !.slug = slug]  OBVIOUS
    <3>2. /\ y.candidates = x.candidates /\ y.hand = x.hand
          /\ y.learnings = x.learnings /\ y.job = x.job /\ y.covered = x.covered
          /\ y.revealed = x.revealed /\ y.blind = x.blind /\ y.report = x.report
          /\ y.exported = TRUE /\ y.slug = slug /\ y.validationOf = x.validationOf
      BY <1>2, <3>1 DEF IsSession
    <3>3. Lists(y)  BY <1>2, <3>2 DEF Lists
    <3>4. slug # NoSlug  BY GoldAssumption
    <3>5. SessionOK(y)  BY <1>2, <3>2, <3>4 DEF SessionOK
    <3>6. /\ sessions'[s] = y
          /\ \A t \in SessionIds : t # s => sessions'[t] = sessions[t]
      <4>1. sessions = [t \in SessionIds |-> sessions[t]]  BY DEF FilesInv, GoldInv
      <4>2. sessions' = [sessions EXCEPT ![s] = y]
        BY <1>1, <1>2, <1>6, <2>2, <3>1, <4>1
      <4>3. QED  BY <1>2, <4>1, <4>2
    <3>7. QED  BY <1>1, <2>2, <3>2, <3>3, <3>5, <3>6 DEF FilesInv, SessionsTyped
  <2>3. QED  BY <2>1, <2>2
<1>13. ASSUME NEW t \in SessionIds  PROVE BundleOK(t)'
  <2>1. BundleOK(t)  BY DEF FilesInv
  <2>2. CASE t = s /\ done >= 4
    <3>1. /\ bundles'[s].there /\ bundles'[s].entry.session = s
          /\ bundles'[s].entry = entry /\ bundles'[s].jsonl = rows /\ bundles'[s].ann = gold
      BY <1>7, <1>11, <2>2
    <3>2. Agree(bundles'[s].entry, bundles'[s].jsonl, bundles'[s].ann)  BY <1>8, <3>1
    <3>3. QED  BY <2>2, <3>1, <3>2 DEF BundleOK
  <2>3. CASE t # s \/ done < 4
    <3>1. bundles'[t] = bundles[t]  BY <1>11, <2>3
    <3>2. sessions'[t].job = sessions[t].job /\ sessions'[t].exported = sessions[t].exported
      BY <1>12, <2>3
    <3>3. QED  BY <2>1, <3>1, <3>2 DEF BundleOK
  <2>4. QED  BY <2>2, <2>3
<1>14. ASSUME NEW e \in manifest'.opinions  PROVE EntryOK(e)'
  <2>1. CASE e \in manifest.opinions /\ e.slug # slug
    <3>1. EntryOK(e)  BY <2>1 DEF FilesInv
    <3>2. e.slug \in Slugs /\ jsonl'[e.slug] = jsonl[e.slug] /\ ann'[e.slug] = ann[e.slug]
      BY <1>9, <1>10, <2>1, <3>1 DEF EntryOK
    <3>3. e.slug \notin torn' => e.slug \notin torn  BY <1>6, <2>1
    <3>4. QED  BY <3>1, <3>2, <3>3 DEF EntryOK
  <2>2. CASE e \in manifest.opinions /\ e.slug = slug /\ done < 3
    <3>1. EntryOK(e)  BY <2>2 DEF FilesInv
    <3>2. e.slug \in torn'  BY <1>6, <2>2
    <3>3. QED  BY <3>1, <3>2 DEF EntryOK
  <2>3. CASE e = entry /\ done >= 3
    <3>1. e.slug = slug /\ e.job \in Jobs  BY <1>2, <1>7, <2>3 DEF SessionOK
    <3>2. /\ jsonl'[slug].there /\ ann'[slug].there
          /\ jsonl'[slug].holds = rows /\ ann'[slug].holds = gold
      BY <1>9, <1>10, <2>3
    <3>3. Agree(e, jsonl'[slug].holds, ann'[slug].holds)  BY <1>8, <2>3, <3>2
    <3>4. QED  BY <3>1, <3>2, <3>3 DEF EntryOK
  <2>4. \/ e \in manifest.opinions /\ (e.slug # slug \/ done < 3)
        \/ e = entry /\ done >= 3
    <3>1. CASE done < 3  BY <1>6, <3>1
    <3>2. CASE done >= 3
      <4>1. manifest'.opinions = Listed(entry)  BY <1>6, <3>2
      <4>2. QED  BY <1>7, <3>2, <4>1 DEF Listed
    <3>3. QED  BY <3>1, <3>2
  <2>5. QED  BY <2>1, <2>2, <2>3, <2>4
<1>15. \A g \in Slugs : jsonl'[g].there => RowsOK(jsonl'[g].holds)
  BY <1>8, <1>9 DEF FilesInv
<1>16. jobs' \subseteq Jobs /\ torn' \subseteq Slugs  BY <1>6 DEF FilesInv
<1>17. QED  BY <1>9, <1>10, <1>11, <1>12, <1>13, <1>14, <1>15, <1>16 DEF FilesInv

LEMMA FilesSpoil ==
  ASSUME FilesInv, GoldInv', Spoil
  PROVE  FilesInv'
<1>1. manifest'.opinions = {} /\ UNCHANGED <<jobs, sessions, jsonl, ann, bundles, torn>>
  BY DEF Spoil
<1>2. SessionsTyped'  BY <1>1 DEF FilesInv, SessionsTyped
<1>3. \A t \in SessionIds : BundleOK(t)'  BY <1>1 DEF FilesInv, BundleOK
<1>4. QED  BY <1>1, <1>2, <1>3 DEF FilesInv

LEMMA FilesStand ==
  ASSUME FilesInv, GoldInv', sessions' = sessions, UNCHANGED files, jobs' \subseteq Jobs
  PROVE  FilesInv'
<1>1. UNCHANGED <<jsonl, ann, manifest, bundles, torn>>  BY DEF files
<1>2. SessionsTyped'  BY DEF FilesInv, SessionsTyped
<1>3. \A t \in SessionIds : BundleOK(t)'  BY <1>1 DEF FilesInv, BundleOK
<1>4. \A e \in manifest'.opinions : EntryOK(e)'  BY <1>1 DEF FilesInv, EntryOK
<1>5. QED  BY <1>1, <1>2, <1>3, <1>4 DEF FilesInv

LEMMA FilesRequest ==
  ASSUME FilesInv, GoldInv', NEW s \in Made, SessionRequest(s)
  PROVE  FilesInv'
<1>1. CASE \E i \in DOMAIN sessions[s].candidates :
        \E outcome \in {"accepted", "edited", "deleted", "unreviewed"},
           current \in {sessions[s].candidates[i].proposition} \cup Payloads :
          \E explicit \in {FALSE, current.open} : RecordOutcome(s, i, outcome, current, explicit)
  BY <1>1, FilesOutcome DEF Outcomes
<1>2. CASE \E p \in Payloads : \E explicit \in {FALSE, p.open} : AddHandAdded(s, p, explicit)
  BY <1>2, FilesAdd
<1>3. CASE \E p \in Payloads : DeleteHandAdded(s, p.id)  BY <1>3, FilesDelete
<1>4. CASE \/ AddLearning(s) \/ Reveal(s) \/ RecordCoverage(s)
           \/ \E segment \in Segments : SetBlindSegment(s, segment)
  BY <1>4, FilesOther
<1>5. CASE \E slug \in Slugs, done \in 1..5 : Export(s, slug, done)  BY <1>5, FilesExport
<1>6. QED  BY <1>1, <1>2, <1>3, <1>4, <1>5 DEF SessionRequest

LEMMA FilesKeep ==
  ASSUME FilesInv, [GoldNext]_gold_vars
  PROVE  FilesInv'
<1>1. GoldInv'  BY GoldKeeps DEF FilesInv
<1>2. CASE \E s \in SessionIds, job \in Jobs, baseline \in BOOLEAN : CreateSession(s, job, baseline)
  BY <1>1, <1>2, FilesCreate
<1>3. CASE \E g \in Slugs : CreateValidation(g)  BY <1>1, <1>3, FilesValidation
<1>4. CASE \E s \in Made : SessionRequest(s)  BY <1>1, <1>4, FilesRequest
<1>5. CASE Spoil  BY <1>1, <1>5, FilesSpoil
<1>6. CASE \E old \in SUBSET Jobs : CleanUp(old)
  <2>1. sessions' = sessions /\ UNCHANGED files /\ jobs' \subseteq jobs  BY <1>6 DEF CleanUp
  <2>2. jobs' \subseteq Jobs  BY <2>1 DEF FilesInv
  <2>3. QED  BY <1>1, <2>1, <2>2, FilesStand
<1>7. CASE UNCHANGED gold_vars
  <2>1. sessions' = sessions /\ UNCHANGED files /\ jobs' = jobs  BY <1>7 DEF gold_vars
  <2>2. jobs' \subseteq Jobs  BY <2>1 DEF FilesInv
  <2>3. QED  BY <1>1, <2>1, <2>2, FilesStand
<1>8. QED  BY <1>2, <1>3, <1>4, <1>5, <1>6, <1>7 DEF GoldNext

THEOREM FilesInvariant == GoldSpec => []FilesInv
<1>1. GoldInit => FilesInv  BY FilesInit
<1>2. FilesInv /\ [GoldNext]_gold_vars => FilesInv'  BY FilesKeep
<1>3. QED  BY <1>1, <1>2, PTL DEF GoldSpec

(* What the manifest lists is on disk and is what it counts, however often    *)
(* exports are done over and break off, unless the last one under that name   *)
(* broke off before the manifest; and what is kept for an exported session is *)
(* of one and the same export.  (export, bundle)                              *)
THEOREM ExportsSayTheSame == GoldSpec => []ExportsAgree
<1>1. FilesInv => ExportsAgree  BY FilesAgree
<1>2. QED  BY <1>1, FilesInvariant, PTL
=============================================================================
