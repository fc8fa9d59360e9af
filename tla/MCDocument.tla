----------------------------- MODULE MCDocument -----------------------------
(* What becomes of one document: its stages are given a language model, it is *)
(* enriched, a concept of it gets its place and its runners-up, and the       *)
(* enriched one is annotated in gold sessions.  Each behaviour is of one of   *)
(* the four, which share no state.                                            *)
EXTENDS MCEnrichment, MCGold, MCRouting, MCRanking

VARIABLE part

all == <<job_vars, gold_vars, routing_vars, ranking_vars, part>>

NoSettings == [provider |-> "google", model |-> "", keys |-> [p \in Keyed |-> ""],
               tasks |-> [t \in Tasks |-> [provider |-> "", model |-> ""]]]
NothingAsked == CHOOSE a \in Askings : a.iri = NoEntry

\* What stands still has one initial state.
MCInit ==
  /\ part \in {"pipeline", "gold", "routing", "ranking"}
  /\ part # "pipeline" => doc = Nested
  /\ part # "gold" => jobs = Jobs
  /\ part # "routing" => byok = TRUE /\ settings = NoSettings
  /\ part # "ranking" => asked = NothingAsked
  /\ JobInit /\ GoldInit /\ RoutingInit /\ RankInit

\* No action looks at the answer: one after each update is enough.
Asked == \/ routed = NotAsked /\ RoutingNext
         \/ routed # NotAsked /\ \E update \in Updates : PutSettings(update, TRUE)

Enriching  == part = "pipeline" /\ JobNext /\ UNCHANGED <<gold_vars, routing_vars, ranking_vars, part>>
Annotating == part = "gold" /\ GoldNext /\ UNCHANGED <<job_vars, routing_vars, ranking_vars, part>>
Routing    == part = "routing" /\ Asked /\ UNCHANGED <<job_vars, gold_vars, ranking_vars, part>>
Ranking    == part = "ranking" /\ RankNext /\ UNCHANGED <<job_vars, gold_vars, routing_vars, part>>

MCSpec == MCInit /\ [][Enriching \/ Annotating \/ Routing \/ Ranking]_all
=============================================================================
