--------------------------- MODULE ConceptRanking ---------------------------
(* How one concept gets its place in the ontology: candidates are searched    *)
(* for in two ways and ranked, the best is resolved to, others are its        *)
(* runners-up, and the stages that follow blend the confidence with what the  *)
(* context says.                                                              *)
(*                                                                            *)
(* Simplifications: scores and confidences are whole percents, rounded down;  *)
(* the match of a hint with a branch is equality; what the two libraries      *)
(* score is an input; the two sides of a union are left out, as is the cache  *)
(* of resolutions, which has what the first concept of a text and branch got; *)
(* the library and the search answer (when the search raises, the single      *)
(* concept comes from the labels alone and there is none of several).         *)
(* A definition marked "broken" is a defect that no specification uses.       *)
EXTENDS Integers, FiniteSets, SequencesExt, Orders

CONSTANTS Entries, NoEntry,              \* concepts, by their IRI
          BranchOf, ParentOf,            \* [Entries -> ...]
          Branchless, ExcludedBranches,  \* the ontology names no branch; EXCLUDED_BRANCHES
          Vetoed,                        \* by the gates, for the text of this concept
          Met,                           \* in which order the search comes upon them
          Askings,                       \* the inputs
          MaxCandidates, Percents

ASSUME RankingAssumption ==
  /\ NoEntry \notin Entries /\ IsFiniteSet(Entries) /\ MaxCandidates \in Nat
  /\ Met \in [Entries -> Nat] /\ \A i, j \in Entries : Met[i] = Met[j] => i = j
  /\ Percents \subseteq Nat
  /\ \A a \in Askings :
       /\ a.given \in Nat
       /\ DOMAIN a.raw \subseteq Entries /\ \A i \in DOMAIN a.raw : a.raw[i] \in Nat
       /\ a.library \in Seq([iri : Entries, score : Nat])
       /\ \A i, j \in DOMAIN a.library : a.library[i].iri = a.library[j].iri => i = j

VARIABLES asked,                         \* what is known before, and the settings
          stage, primary, backups

ranking_vars == <<asked, stage, primary, backups>>

Unplaced == [iri |-> NoEntry, branch |-> Branchless, conf |-> 0]

RankInit ==
  /\ asked \in Askings
  /\ stage = "resolve" /\ primary = Unplaced /\ backups = <<>>

Lesser(a, b) == IF a < b THEN a ELSE b
Clamped(n) == IF n < 0 THEN 0 ELSE Lesser(n, 100)

-----------------------------------------------------------------------------
(* The search: raw candidates with a score, and ancestors of the good ones.   *)
Up(i) == IF i = NoEntry THEN NoEntry ELSE ParentOf[i]
Ancestor(i, depth) == CASE depth = 1 -> Up(i) [] depth = 2 -> Up(Up(i)) [] OTHER -> Up(Up(Up(i)))
Decayed(score, depth) ==
  CASE depth = 1 -> (score * 85) \div 100
    [] depth = 2 -> (score * 7225) \div 10000
    [] OTHER -> (score * 61412) \div 100000

ScoresOf(raw, i) ==
  IF i \in DOMAIN raw THEN {raw[i]}
  ELSE {Decayed(raw[d[1]], d[2]) :
          d \in {e \in (DOMAIN raw) \X (1..3) : raw[e[1]] >= 50 /\ Ancestor(e[1], e[2]) = i}}

\* Below the threshold nothing is found.
Candidates(raw) ==
  {c \in {[iri |-> i, score |-> Max({0} \cup ScoresOf(raw, i))] : i \in Entries} : c.score >= 30}

Passes(i) == BranchOf[i] \notin ExcludedBranches /\ i \notin Vetoed

\* The sort is stable, and ancestors are added last.
Better(raw, c, d) ==
  \/ c.score > d.score
  \/ /\ c.score = d.score
     /\ IF (c.iri \in DOMAIN raw) = (d.iri \in DOMAIN raw) THEN Met[c.iri] < Met[d.iri]
        ELSE c.iri \in DOMAIN raw

FirstOf(n, list) == SubSeq(list, 1, Lesser(n, Len(list)))

\* multi_strategy_search: the best first, and no more than asked for
Searched(raw, n) ==
  LET passed == {c \in Candidates(raw) : Passes(c.iri)}
  IN  FirstOf(n, Ranked(passed, {p \in passed \X passed : Better(raw, p[1], p[2])}))

\* Where the list has concepts of the branch that is hinted at.
Hinted(list, hint) ==
  {i \in DOMAIN list : hint # Branchless /\ BranchOf[list[i].iri] = hint}

\* What the hint names comes first, in the order it had.
HintFirst(list, hint) ==
  Picked(list, Hinted(list, hint)) \o Picked(list, DOMAIN list \ Hinted(list, hint))

\* _library_resolve_all: what the label resolver says, less what the gates veto
FromLibrary(a) ==
  HintFirst(Picked(a.library, {i \in DOMAIN a.library : Passes(a.library[i].iri)}), a.hint)

BestOfSearch(list, hint) == Head(list)   \* broken: the search has no use for the hint

Best(list, hint) ==
  IF Hinted(list, hint) # {} THEN Head(Picked(list, Hinted(list, hint))) ELSE Head(list)

\* _multi_strategy_resolve: the search is only asked if the library has nothing.
Single(a) ==
  LET list == IF FromLibrary(a) # <<>> THEN FromLibrary(a) ELSE Searched(a.raw, 5)
  IN  IF list = <<>> THEN [iri |-> NoEntry, score |-> 0] ELSE Best(list, a.hint)

\* _multi_strategy_resolve_all, resolve_multi: both, each concept once
Several(a) ==
  LET library  == FromLibrary(a)
      searched == HintFirst(Searched(a.raw, MaxCandidates), a.hint)
      new      == {i \in DOMAIN searched :
                     \A j \in DOMAIN library : library[j].iri # searched[i].iri}
  IN  FirstOf(MaxCandidates, library \o Picked(searched, new))

-----------------------------------------------------------------------------
Blend(score, given) == IF score > 0 /\ given > 0 THEN (score * 6 + given * 4) \div 10
                       ELSE IF score > 0 THEN score ELSE given

\* What the ontology has no branch for keeps the one it was given.
Placement(i) == IF BranchOf[i] # Branchless THEN BranchOf[i] ELSE asked.hint

\* The IRI a source knows is trusted, with its confidence.  Nothing found, or what
\* is found is excluded: the concept is dropped.
ResolveBest ==
  LET known == asked.iri # NoEntry
      found == IF known THEN [iri |-> asked.iri, score |-> asked.given] ELSE Single(asked)
  IN  /\ stage = "resolve"
      /\ IF found.iri = NoEntry \/ Placement(found.iri) \in ExcludedBranches
         THEN stage' = "dropped" /\ UNCHANGED primary
         ELSE /\ primary' = [iri    |-> found.iri, branch |-> Placement(found.iri),
                             conf   |-> IF known THEN asked.given
                                        ELSE Blend(found.score, asked.given)]
              /\ stage' = "attach"
      /\ UNCHANGED <<asked, backups>>

Capped(conf, top) == Lesser(conf, top)

RunnerUp(c) == [iri |-> c.iri, branch |-> Placement(c.iri), conf |-> Capped(c.score, primary.conf)]

\* The IRI that is looked at is the resolved one.
Skipped == asked.skip /\ primary.iri # NoEntry

WithPrimary(list) == list                \* broken: the primary is its own runner-up

Others(list) ==
  Picked(list, {i \in DOMAIN list : /\ list[i].iri # primary.iri
                                /\ Placement(list[i].iri) \notin ExcludedBranches})

AttachBackups ==
  /\ stage = "attach" /\ stage' = "context"
  /\ backups' = IF Skipped \/ MaxCandidates <= 1 THEN <<>>
                ELSE LET list == Others(Several(asked)) IN [i \in DOMAIN list |-> RunnerUp(list[i])]
  /\ UNCHANGED <<asked, primary>>

Nearer(likes, i, j) == likes[i] > likes[j] \/ (likes[i] = likes[j] /\ i < j)

\* Sentence against definition: 60 to 40 for the primary, if it has a definition;
\* runners-up must be near enough, with a bonus for its branch, and are ranked anew.
ContextScores ==
  /\ stage = "context" /\ stage' = "rerank"
  /\ \E conf \in {primary.conf} \cup {(primary.conf * 6 + like * 4) \div 10 : like \in Percents},
        likes \in [DOMAIN backups -> Percents] :
       LET near == {i \in DOMAIN backups : likes[i] + (IF backups[i].branch = primary.branch
                                                       THEN 12 ELSE 0) >= 45}
           order == Ranked(near, {p \in near \X near : Nearer(likes, p[1], p[2])})
       IN  /\ primary' = [primary EXCEPT !.conf = conf]
           /\ backups' = IF ~asked.filter THEN backups
                         ELSE [k \in DOMAIN order |-> [backups[order[k]] EXCEPT
                                                         !.conf = Capped(likes[order[k]], conf)]]
  /\ UNCHANGED asked

\* Without vectors, or when they fail, both stay as they are.
NoContext == stage = "context" /\ stage' = "rerank" /\ UNCHANGED <<asked, primary, backups>>

\* The LLM's score counts half; a concept it does not mention stays.
Rerank ==
  /\ stage = "rerank" /\ stage' = "judge"
  /\ \/ \E score \in Percents :
          primary' = [primary EXCEPT !.conf = (@ * 5 + score * 5) \div 10]
     \/ UNCHANGED primary
  /\ UNCHANGED <<asked, backups>>

\* A concept without a branch is judged, and its part of speech adds or takes a
\* little; an answer that is no record is passed over.
JudgeBranch ==
  /\ stage = "judge" /\ stage' = "shown"
  /\ \/ UNCHANGED primary
     \/ /\ primary.branch = Branchless
        /\ \E sure \in Percents, given \in {BranchOf[i] : i \in Entries}, affinity \in {-5, 0, 5} :
             LET judged == Lesser((primary.conf * 7 + sure * 3) \div 10, 100)
             IN  primary' = [primary EXCEPT !.branch = given, !.conf =
                               IF given = Branchless THEN judged ELSE Clamped(judged + affinity)]
  /\ UNCHANGED <<asked, backups>>

RankNext == ResolveBest \/ AttachBackups \/ ContextScores \/ NoContext \/ Rerank \/ JudgeBranch

RankSpec == RankInit /\ [][RankNext]_ranking_vars

-----------------------------------------------------------------------------
Placed == stage \in {"attach", "context", "rerank", "judge", "shown"}

\* The concept a text is resolved to heads the list its runners-up are taken from,
\* although the two are computed apart.  (_multi_strategy_resolve,
\* _multi_strategy_resolve_all)
SingleIsFirst ==
  (Placed /\ asked.iri = NoEntry) => Several(asked) # <<>> /\ Several(asked)[1].iri = primary.iri

\* "Backups are runner-ups": other concepts than the primary, each once, none of an
\* excluded branch; and as the stage ends none is more confident than the primary,
\* unless vectors change only the primary's confidence.  (ResolutionStage)
BackupsAreRunnersUp ==
  /\ \A i, j \in DOMAIN backups : backups[i].iri = backups[j].iri => i = j
  /\ \A i \in DOMAIN backups :
       /\ backups[i].iri # primary.iri /\ backups[i].branch \notin ExcludedBranches
       /\ (stage = "context" \/ (stage = "rerank" /\ asked.filter)) => backups[i].conf <= primary.conf

\* "never display one as more confident than the chosen primary": fails, see README
ShownBelowPrimary ==
  stage = "shown" => \A i \in DOMAIN backups : backups[i].conf <= primary.conf

\* "Backups are still computed for genuinely ambiguous concepts (those resolved via
\* fuzzy search, i.e. no exact IRI)" (config.py): fails, since every concept that is
\* resolved has an IRI by then.  (_attach_backup_candidates)
AmbiguousHaveBackups ==
  (stage = "context" /\ asked.iri = NoEntry /\ Len(Several(asked)) > 1) => backups # <<>>
=============================================================================
