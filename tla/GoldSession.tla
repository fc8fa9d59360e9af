----------------------------- MODULE GoldSession -----------------------------
(* Gold annotation sessions (services/gold/store.py): reviewers settle the    *)
(* propositions a job has, add what was missed, annotate a blind segment      *)
(* unassisted, and export the result to a directory with a manifest; an       *)
(* exported record can be validated by a person in a session of its own.      *)
(*                                                                            *)
(* Every method of the store runs to its end without giving up the event      *)
(* loop (its awaits are on functions that do not wait), so a request is one   *)
(* step.  Files are replaced whole; what a crash or a full disk can leave is  *)
(* a prefix of the files an export writes.  The manifest lies in the          *)
(* repository, where a merge can spoil it.                                    *)
(*                                                                            *)
(* Simplifications: the README file of the directory, the versions of the     *)
(* records, texts, names and the ratios derived from the counts are left out; *)
(* a proposition has an id, a place or none, a classification and its         *)
(* disposition, resolved or open; one with half a place counts as having      *)
(* none.  Old jobs are those a clean-up finds past retention.                 *)
(* A definition marked "broken" is a defect that no specification uses.       *)
EXTENDS Integers, FiniteSets, SequencesExt

CONSTANTS Jobs, NoJob,
          SessionIds,          \* in the order of their file names
          Slugs, NoSlug,
          ValidatedSlug,       \* [Slugs -> Slugs]: "<slug>-validated"
          Committed,           \* the slugs of the records with a text
          CommittedJob,        \* [Committed -> Jobs]
          CommittedRows,       \* [Committed -> Seq(Row)]
          Protected,           \* jobs of demos, never cleaned up
          Extracted, Lexicon,  \* [Jobs -> Seq(Proposition)]: by the job, by the lexicon alone
          Payloads,            \* propositions a request may carry
          Segments,            \* blind segments a request may name
          TextLength,
          MaxRequests,         \* bound on the requests that change anything
          MaxFaults            \* bound on exports broken off and manifests spoilt

ASSUME GoldAssumption ==
  /\ SessionIds \subseteq Nat /\ TextLength \in Nat
  /\ NoJob \notin Jobs /\ NoSlug \notin Slugs
  /\ Committed \subseteq Slugs /\ Protected \subseteq Jobs
  /\ ValidatedSlug \in [Slugs -> Slugs]
  /\ CommittedJob \in [Committed -> Jobs]
  /\ \A g \in Committed :
       /\ CommittedRows[g] \in Seq(Range(CommittedRows[g]))
       /\ \A i \in DOMAIN CommittedRows[g] :
            CommittedRows[g][i].type = "annotation" => CommittedRows[g][i].explicit \in BOOLEAN
  /\ \A j \in Jobs : /\ Extracted[j] \in Seq(Range(Extracted[j]))
                     /\ Lexicon[j] \in Seq(Range(Lexicon[j]))

VARIABLES jobs,      \* jobs on disk
          sessions,  \* [SessionIds -> Session]
          jsonl, ann,\* [Slugs -> what the file of that name holds]
          manifest,  \* readable or not, and its opinions
          bundles,   \* [SessionIds -> what is kept for retrieval]
          torn,      \* history: slugs whose last export broke off
          requests, faults

files == <<jsonl, ann, manifest, bundles, torn>>
gold_vars == <<jobs, sessions, files, requests, faults>>

-----------------------------------------------------------------------------
\* Places and propositions
NoSegment == <<>>
NoPlace   == <<>>    \* start and end, or one of them, are not given

Meets(p, q) == p # NoPlace /\ q # NoSegment /\ p[1] < q[2] /\ p[2] > q[1]

Candidate(p, explicit) ==
  [proposition |-> p, original |-> p, outcome |-> "unreviewed", edit |-> "none",
   explicit |-> explicit]

EditKind(current, original) ==
  LET boundary == current.at # original.at
      field    == [current EXCEPT !.at = original.at] # original
  IN  CASE boundary /\ field -> "both" [] boundary -> "boundary" [] OTHER -> "field"

\* An unresolved disposition has to be confirmed (_validate_unresolved).
MayStayOpen(p, explicit) == p.open => explicit

-----------------------------------------------------------------------------
\* Sessions
NewSession(job, candidates, validationOf) ==
  [job |-> job, candidates |-> candidates, hand |-> <<>>, learnings |-> 0,
   blind |-> NoSegment, revealed |-> FALSE, report |-> <<>>, covered |-> FALSE,
   exported |-> FALSE, slug |-> NoSlug, validationOf |-> validationOf]

NotMade == NewSession(NoJob, <<>>, NoSlug)

Made == {s \in SessionIds : sessions[s].job # NoJob}
Open == {s \in Made : ~sessions[s].exported}

\* A candidate under a blind segment that was not revealed
Hidden(x, c) == ~x.revealed /\ Meets(c.original.at, x.blind)

\* What is at the given places of a sequence, in order
PickedUpTo(seq, places) ==
  LET upTo[n \in 0..Len(seq)] == IF n = 0 THEN <<>>
                                 ELSE IF n \in places THEN Append(upTo[n - 1], seq[n])
                                 ELSE upTo[n - 1]
  IN  upTo

Filtered(seq, Test(_)) == PickedUpTo(seq, {i \in DOMAIN seq : Test(seq[i])})[Len(seq)]

TheirPropositions(list) == [i \in DOMAIN list |-> list[i].proposition]

Settled(c) == c.outcome \in {"accepted", "edited"}

Kept(x) == TheirPropositions(Filtered(x.candidates, Settled)) \o TheirPropositions(x.hand)

\* The brat file leaves out propositions without a place.
WithPlace(list) == Filtered(list, LAMBDA p : p.at # NoPlace)

\* What was seen by the tool in the blind segment against what was by hand:
\* each proposition of the tool takes the first annotation left that it meets.
Report(x) ==
  LET InSegment(p) == Meets(p.at, x.blind)
      tools == SelectSeq([i \in DOMAIN x.candidates |-> x.candidates[i].original], InSegment)
      own   == SelectSeq([i \in DOMAIN x.hand |-> x.hand[i].proposition], InSegment)
      Match(found, tool) ==
        LET free == {k \in DOMAIN own \ {f[2] : f \in found} : Meets(own[k].at, tool.at)}
        IN  IF free = {} THEN found
            ELSE found \cup {<<tool, CHOOSE k \in free : \A l \in free : k <= l>>}
      pairs == FoldLeft(Match, {}, tools)
  IN  <<[matched    |-> {<<f[1], own[f[2]]>> : f \in pairs},
         tool_only  |-> SelectSeq(tools, LAMBDA t : \A f \in pairs : f[1] # t),
         annotator_only |-> {own[k] : k \in DOMAIN own \ {f[2] : f \in pairs}}]>>

-----------------------------------------------------------------------------
\* What an export writes
CandidateRow(c) ==
  [type     |-> IF c.outcome = "deleted" THEN "candidate-audit" ELSE "annotation",
   origin   |-> "pre-selected", outcome |-> c.outcome, explicit |-> c.explicit,
   proposition |-> c.proposition]

HandRow(h) ==
  [type |-> "annotation", origin |-> "hand-added", outcome |-> "accepted",
   explicit |-> h.explicit, proposition |-> h.proposition]

Rows(x) ==
  [i \in DOMAIN x.candidates |-> CandidateRow(x.candidates[i])]
  \o [i \in DOMAIN x.hand |-> HandRow(x.hand[i])]
  \o [i \in 1..x.learnings |-> [type |-> "cycle-learning"]]
  \o (IF x.blind = NoSegment THEN <<>>
      ELSE <<[type |-> "blind-segment", blind |-> x.blind, report |-> x.report]>>)

AnnotationRows(rows) == Filtered(rows, LAMBDA r : r.type = "annotation")

Number(seq, Test(_)) == Cardinality({i \in DOMAIN seq : Test(seq[i])})

Counts(x) ==
  [accepted |-> Number(x.candidates, LAMBDA c : c.outcome = "accepted"),
   edited   |-> Number(x.candidates, LAMBDA c : c.outcome = "edited"),
   deleted  |-> Number(x.candidates, LAMBDA c : c.outcome = "deleted"),
   hand     |-> Len(x.hand)]

Complete(x) ==
  /\ \A i \in DOMAIN x.candidates : x.candidates[i].outcome # "unreviewed"
  /\ x.covered
  /\ x.blind = NoSegment \/ x.revealed

Entry(s, slug, x) ==
  [slug |-> slug, session |-> s, job |-> x.job, counts |-> Counts(x),
   complete |-> Complete(x), validationOf |-> x.validationOf,
   text |-> x.validationOf # NoSlug]

\* The records that can be validated; GoldDataError when they cannot be read.
Records == {e \in manifest.opinions : e.text /\ e.validationOf = NoSlug}

\* The same counts and the gold, taken from the rows of a file
Preselected(rows, outcome) ==
  Number(rows, LAMBDA r : /\ r.type \in {"annotation", "candidate-audit"}
                          /\ r.origin = "pre-selected" /\ r.outcome = outcome)

RowCounts(rows) ==
  [accepted |-> Preselected(rows, "accepted"), edited |-> Preselected(rows, "edited"),
   deleted  |-> Preselected(rows, "deleted"),
   hand     |-> Number(rows, LAMBDA r : r.type = "annotation" /\ r.origin = "hand-added")]

GoldOf(rows) == TheirPropositions(AnnotationRows(rows))

NoFile == [there |-> FALSE, holds |-> <<>>]
File(content) == [there |-> TRUE, holds |-> content]

NoBundle == [there |-> FALSE, jsonl |-> <<>>, ann |-> <<>>, entry |-> <<>>]

CommittedEntry(g) ==
  [slug |-> g, session |-> 0, job |-> CommittedJob[g],
   counts |-> RowCounts(CommittedRows[g]),
   complete |-> TRUE, validationOf |-> NoSlug, text |-> TRUE]

CommittedAnn(g) == WithPlace(GoldOf(CommittedRows[g]))

GoldInit ==
  /\ jobs \in {Jobs, Jobs \ Range(CommittedJob)}
  /\ sessions = [s \in SessionIds |-> NotMade]
  /\ jsonl = [g \in Slugs |-> IF g \in Committed THEN File(CommittedRows[g]) ELSE NoFile]
  /\ ann = [g \in Slugs |-> IF g \in Committed THEN File(CommittedAnn(g)) ELSE NoFile]
  /\ manifest = [readable |-> TRUE, opinions |-> {CommittedEntry(g) : g \in Committed}]
  /\ bundles = [s \in SessionIds |-> NoBundle]
  /\ torn = {} /\ requests = 0 /\ faults = 0

-----------------------------------------------------------------------------
Request == requests < MaxRequests /\ requests' = requests + 1
Fault == faults < MaxFaults /\ faults' = faults + 1

\* Sessions are made
CreateSession(s, job, baseline) ==
  /\ s \notin Made /\ job \in jobs
  /\ Request
  /\ LET found == IF baseline THEN Lexicon[job] ELSE Extracted[job]
     IN  sessions' = [sessions EXCEPT
           ![s] = NewSession(job, [i \in DOMAIN found |-> Candidate(found[i], FALSE)], NoSlug)]
  /\ UNCHANGED <<jobs, files, faults>>

\* The record's annotations that were not deleted are the items to validate.
Items(rows) == [i \in DOMAIN AnnotationRows(rows) |->
                  Candidate(AnnotationRows(rows)[i].proposition, AnnotationRows(rows)[i].explicit)]

OpenValidations(g) == {s \in Open : sessions[s].validationOf = g}

\* One of a record is reopened as long as it was not exported; the record's
\* job comes back when it is gone.
CreateValidation(g) ==
  /\ Request
  /\ manifest.readable
  /\ \E e \in Records :
       /\ e.slug = g
       /\ jsonl[g].there
       /\ jobs' = jobs \cup {e.job}
       /\ IF OpenValidations(g) # {}
          THEN UNCHANGED sessions
          ELSE \E s \in SessionIds \ Made :
                 sessions' = [sessions EXCEPT ![s] = NewSession(e.job, Items(jsonl[g].holds), g)]
  /\ UNCHANGED <<files, faults>>

-----------------------------------------------------------------------------
\* A reviewer's requests, each on one session
Edit(s, x) ==
  /\ Request
  /\ sessions' = [sessions EXCEPT ![s] = x]
  /\ UNCHANGED <<jobs, files, faults>>

\* The first candidate that goes by an id now
Named(x, i) == \A j \in DOMAIN x.candidates :
                 x.candidates[j].proposition.id = x.candidates[i].proposition.id => i <= j

SavedApproval(x, c, current, outcome) == \* broken: looks at what the request changes only
  (x.validationOf # NoSlug /\ outcome = "accepted") => current \in {c.original, c.proposition}

MayApprove(x, c, current, outcome) ==
  (x.validationOf # NoSlug /\ outcome = "accepted") => current = c.original

Reviewed(c, outcome, current, explicit) ==
  [c EXCEPT !.proposition = current, !.outcome = outcome, !.explicit = explicit,
            !.edit = IF outcome = "edited" THEN EditKind(current, c.original) ELSE "none"]

RecordOutcome(s, i, outcome, current, explicit) ==
  LET x == sessions[s]
      c == x.candidates[i]
  IN  /\ Named(x, i)
      /\ ~Hidden(x, c)
      /\ current \in {c.proposition} \cup Payloads
      /\ MayApprove(x, c, current, outcome)
      /\ outcome \in {"accepted", "edited"} => MayStayOpen(current, explicit)
      /\ Edit(s, [x EXCEPT !.candidates[i] = Reviewed(c, outcome, current, explicit)])

AddHandAdded(s, p, explicit) ==
  /\ MayStayOpen(p, explicit)
  /\ Edit(s, [sessions[s] EXCEPT
                !.hand = Append(@, [proposition |-> p, explicit |-> explicit])])

DeleteHandAdded(s, id) ==
  Edit(s, [sessions[s] EXCEPT !.hand = Filtered(@, LAMBDA h : h.proposition.id # id)])

AddLearning(s) == Edit(s, [sessions[s] EXCEPT !.learnings = @ + 1])

KeptUnassisted(x, segment) ==            \* broken: looks where the candidate is now
  \A i \in DOMAIN x.candidates :
    Meets(x.candidates[i].proposition.at, segment) => x.candidates[i].outcome = "unreviewed"

\* The segment is to be annotated unassisted: nothing in it was settled yet.
Unassisted(x, segment) ==
  \A i \in DOMAIN x.candidates :
    Meets(x.candidates[i].original.at, segment) => x.candidates[i].outcome = "unreviewed"

SetBlindSegment(s, segment) ==
  /\ sessions[s].job \in jobs            \* else there is no text to be in
  /\ 0 <= segment[1] /\ segment[1] < segment[2] /\ segment[2] <= TextLength
  /\ sessions[s].blind = NoSegment
  /\ Unassisted(sessions[s], segment)
  /\ Edit(s, [sessions[s] EXCEPT !.blind = segment])

Reveal(s) ==
  /\ sessions[s].blind # NoSegment /\ ~sessions[s].revealed
  /\ Edit(s, [sessions[s] EXCEPT !.revealed = TRUE, !.report = Report(sessions[s])])

RecordCoverage(s) ==
  /\ ~sessions[s].covered
  /\ Edit(s, [sessions[s] EXCEPT !.covered = TRUE])

-----------------------------------------------------------------------------
MayExport(x) ==
  /\ x.blind = NoSegment \/ x.revealed
  /\ \A i \in DOMAIN x.candidates : x.candidates[i].outcome # "unreviewed"
  /\ x.job \in jobs

\* Validations have a name given; the record has to be there.
Target(x, slug) ==
  IF x.validationOf = NoSlug THEN slug \in Slugs
  ELSE /\ slug = ValidatedSlug[x.validationOf]
       /\ manifest.readable
       /\ \E e \in Records : e.slug = x.validationOf

KeptOfOthers(entry) ==                   \* broken: an entry of the name stays
  {e \in manifest.opinions : e.session # entry.session} \cup {entry}

\* An unreadable manifest is started anew.
Listed(entry) ==
  (IF manifest.readable
   THEN {e \in manifest.opinions : e.session # entry.session /\ e.slug # entry.slug}
   ELSE {})
  \cup {entry}

\* The writes in their order; after the first `done' of them the export breaks
\* off, if not all five were.  The session's own file comes last.
Export(s, slug, done) ==
  LET x     == sessions[s]
      entry == Entry(s, slug, x)
  IN  /\ Request
      /\ IF done < 5 THEN Fault ELSE UNCHANGED faults
      /\ MayExport(x) /\ Target(x, slug)
      /\ jsonl' = IF done >= 1 THEN [jsonl EXCEPT ![slug] = File(Rows(x))] ELSE jsonl
      /\ ann' = IF done >= 2 THEN [ann EXCEPT ![slug] = File(WithPlace(Kept(x)))] ELSE ann
      /\ manifest' = IF done >= 3 THEN [readable |-> TRUE, opinions |-> Listed(entry)]
                     ELSE manifest
      /\ bundles' = IF done >= 4
                    THEN [bundles EXCEPT ![s] = [there |-> TRUE, jsonl |-> jsonl'[slug].holds,
                                                 ann |-> ann'[slug].holds, entry |-> entry]]
                    ELSE bundles
      /\ sessions' = IF done = 5 THEN [sessions EXCEPT ![s].exported = TRUE, ![s].slug = slug]
                     ELSE sessions
      /\ torn' = IF done \in {1, 2} THEN torn \cup {slug}
                 ELSE IF done >= 3 THEN torn \ {slug} ELSE torn
      /\ UNCHANGED jobs

\* A merge or an edit by hand leaves the manifest unreadable.
Spoil ==
  /\ Fault
  /\ manifest.readable
  /\ manifest' = [readable |-> FALSE, opinions |-> {}]
  /\ UNCHANGED <<jobs, sessions, jsonl, ann, bundles, torn, requests>>

-----------------------------------------------------------------------------
NeededByValidations ==                   \* broken: looks at validations only
  Protected \cup {sessions[s].job : s \in {t \in Open : sessions[t].validationOf # NoSlug}}

\* The job store's cleanup_expired: of the old jobs go those of no demo and of
\* no session still open.
Needed == Protected \cup {sessions[s].job : s \in Open}

CleanUp(old) ==
  /\ jobs' = jobs \ (old \ Needed)
  /\ UNCHANGED <<sessions, files, requests, faults>>

SessionRequest(s) ==
  \/ \E i \in DOMAIN sessions[s].candidates :
       \E outcome \in {"accepted", "edited", "deleted", "unreviewed"},
          current \in {sessions[s].candidates[i].proposition} \cup Payloads :
         \E explicit \in {FALSE, current.open} : RecordOutcome(s, i, outcome, current, explicit)
  \/ \E p \in Payloads : \E explicit \in {FALSE, p.open} : AddHandAdded(s, p, explicit)
  \/ \E p \in Payloads : DeleteHandAdded(s, p.id)
  \/ AddLearning(s)
  \/ \E segment \in Segments : SetBlindSegment(s, segment)
  \/ Reveal(s)
  \/ RecordCoverage(s)
  \/ \E slug \in Slugs, done \in 1..5 : Export(s, slug, done)

GoldNext ==
  \/ \E s \in SessionIds, job \in Jobs, baseline \in BOOLEAN : CreateSession(s, job, baseline)
  \/ \E g \in Slugs : CreateValidation(g)
  \/ \E s \in Made : SessionRequest(s)
  \/ Spoil
  \/ \E old \in SUBSET Jobs : CleanUp(old)

GoldSpec == GoldInit /\ [][GoldNext]_gold_vars

-----------------------------------------------------------------------------
\* Properties
KnownPropositions ==
  Payloads
  \cup (UNION {Range(Extracted[j]) \cup Range(Lexicon[j]) : j \in Jobs})
  \cup (UNION {Range(GoldOf(CommittedRows[g])) : g \in Committed})

ASSUME PropositionsAssumption == \A p \in KnownPropositions : p.open \in BOOLEAN

CandidateOK(c) ==
  /\ c.proposition \in KnownPropositions /\ c.original \in KnownPropositions
  /\ c.outcome \in {"accepted", "edited", "deleted", "unreviewed"}
  /\ c.explicit \in BOOLEAN
  /\ c.edit \in {"field", "boundary", "both", "none"}
  /\ c.edit # "none" => c.outcome = "edited"
  /\ Settled(c) => MayStayOpen(c.proposition, c.explicit)

SessionOK(x) ==
  /\ x.job \in Jobs /\ x.covered \in BOOLEAN /\ x.revealed \in BOOLEAN
  /\ \A i \in DOMAIN x.candidates : CandidateOK(x.candidates[i])
  /\ \A i \in DOMAIN x.hand : /\ x.hand[i].proposition \in Payloads
                              /\ MayStayOpen(x.hand[i].proposition, x.hand[i].explicit)
  /\ x.revealed => x.blind # NoSegment /\ x.report # <<>>
  /\ x.exported <=> x.slug # NoSlug
  /\ x.validationOf \in Slugs \cup {NoSlug}

\* A session holds what its handlers put there: the kind of an edit belongs to
\* an edited candidate, an open disposition in the gold was confirmed, a
\* revealed segment has its report, an exported session the name it has.
GoldTypeOK ==
  /\ jobs \subseteq Jobs /\ torn \subseteq Slugs
  /\ \A s \in Made : SessionOK(sessions[s])
  /\ \A e \in manifest.opinions : e.slug \in Slugs

\* The tool's candidates under a blind segment are settled by nobody before it
\* is revealed, whatever was done before the segment was named and by whichever
\* id a candidate goes: what the reviewer adds there is unassisted.
\* (record_candidate_outcome, set_blind_segment)
BlindUntouched ==
  \A s \in Made : \A i \in DOMAIN sessions[s].candidates :
    Hidden(sessions[s], sessions[s].candidates[i])
      => sessions[s].candidates[i].outcome = "unreviewed"

\* A record has one open validation session at a time, and an item approved in
\* one is as the tool had classified it, after any edits and changes of mind.
\* (create_validation_session, record_candidate_outcome)
ValidationIsSound ==
  /\ \A s, t \in Open : (sessions[s].validationOf # NoSlug
                         /\ sessions[s].validationOf = sessions[t].validationOf) => s = t
  /\ \A s \in Made : \A i \in DOMAIN sessions[s].candidates :
       LET c == sessions[s].candidates[i]
       IN  (sessions[s].validationOf # NoSlug /\ c.outcome = "accepted")
             => c.proposition = c.original

\* The job of a session that was not exported yet outlives every clean-up of
\* the job store, so the session can be exported.  (cleanup_expired, export)
OpenSessionHasJob == \A s \in Open : sessions[s].job \in jobs

Agree(entry, rows, placed) ==
  RowCounts(rows) = entry.counts /\ WithPlace(GoldOf(rows)) = placed

\* What an entry of the manifest lists is on disk and is what it counts, and its
\* brat file has the propositions of its rows that have a place, however often and
\* under whichever names sessions are exported and exports break off, unless the
\* last export of that name broke off before the manifest; and every exported
\* session has a bundle to retrieve, of one and the same export.
\* (export, bundle)
ExportsAgree ==
  /\ GoldTypeOK
  /\ \A e \in manifest.opinions : e.slug \notin torn =>
       /\ jsonl[e.slug].there /\ ann[e.slug].there
       /\ Agree(e, jsonl[e.slug].holds, ann[e.slug].holds)
  /\ \A s \in SessionIds : bundles[s].there =>
       /\ bundles[s].entry.session = s
       /\ Agree(bundles[s].entry, bundles[s].jsonl, bundles[s].ann)
  /\ \A s \in Made : sessions[s].exported => bundles[s].there
=============================================================================
