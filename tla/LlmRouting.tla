----------------------------- MODULE LlmRouting -----------------------------
(* Which language model the stages of a job talk to, and with whose key: the  *)
(* settings all visitors share, the overrides of the tasks, what a request    *)
(* brings along, and what the settings and health routes say about it.        *)
(*                                                                            *)
(* Simplifications: URLs are left out, a provider is where its text goes; a   *)
(* model is its name or which default it is; a client that cannot be          *)
(* constructed is as one without a key.                                       *)
(* A definition marked "broken" is a defect that no specification uses.       *)
CONSTANTS Tasks, Keyed, Local,     \* providers that need a key or need none
          Spelled,                 \* the providers other spellings stand for
          Updates, Requests        \* what is put and what is asked

\* Keys are told apart by who has given them: the server, an admin, a visitor.
ASSUME RoutingAssumption ==
  /\ Keyed \cap Local = {} /\ "ollama" \in Local /\ "" \notin Keyed \cup Local
  /\ DOMAIN Spelled \cap (Keyed \cup Local) = {}
  /\ "lm_studio" \in DOMAIN Spelled => Spelled["lm_studio"] \in Local
  /\ \A r \in Requests : r.key \in {"", "user"}
  /\ \A u \in Updates : \A p \in DOMAIN u.keys : u.keys[p] \in {"", "put"}

VARIABLES byok, settings, routed

routing_vars == <<byok, settings, routed>>

Providers == Keyed \cup Local
NoLlm == [provider |-> "", key |-> "", model |-> ""]

\* Names are normalized before they are looked up, a hyphen and the old name of one
\* provider, but not for case.
Normalized(name) == IF name \in DOMAIN Spelled THEN Spelled[name] ELSE name

IsOllamaName(name) == name \in {"ollama", "Ollama"}

TierOf(task) ==
  CASE task \in {"document_type", "area_of_law"} -> "simple"
    [] task \in {"classifier", "extractor", "individual", "property", "proposition"} -> "complex"
    [] OTHER -> "medium"

DefaultModel(p) == IF p \in Keyed THEN "default" ELSE ""

NotAsked == [req |-> [provider |-> "", model |-> "", key |-> ""], to |-> "", fallback |-> NoLlm,
             llms |-> [t \in Tasks |-> NoLlm]]

RoutingInit ==
  /\ byok \in BOOLEAN
  /\ settings \in [provider : {"google"} \cap Providers, model : {"", "m"},
                   keys : [Keyed -> {"", "server"}],
                   tasks : {[t \in Tasks |-> [provider |-> "", model |-> ""]]}]
  /\ routed = NotAsked

-----------------------------------------------------------------------------
\* _get_api_key_for_provider: the one given, and else the server's if it may be used
KeyFor(p, given) ==
  IF given # "" THEN given
  ELSE IF byok \/ p \notin Keyed THEN "" ELSE settings.keys[p]

\* get_provider: the default model of the provider; a placeholder where none is needed
Provided(p, key, model) ==
  [provider |-> p, key |-> IF key = "" /\ p \in Local THEN "placeholder" ELSE key,
   model |-> IF model = "" THEN DefaultModel(p) ELSE model]

\* None when the name is unknown or a key that is needed is missing
Client(name, given, model) ==
  LET p == Normalized(name)
  IN  IF p \notin Providers \/ (p \in Keyed /\ KeyFor(p, given) = "") THEN NoLlm
      ELSE Provided(p, KeyFor(p, given), model)

Or(a, b) == IF a # "" THEN a ELSE b

\* What is given replaces what there was.
Over(given, there) ==
  [x \in DOMAIN given \cup DOMAIN there |-> IF x \in DOMAIN given THEN given[x] ELSE there[x]]

ForRequest(req) ==
  Client(Or(req.provider, settings.provider), req.key, Or(req.model, settings.model))

TierByFallback(name, model, fallback) ==  \* broken: no fallback is enough
  model = "" /\ (fallback = NoLlm \/ fallback.provider = "ollama")

\* The models of Ollama's tiers are used only if it is what is effective.
TierApplies(name, model, fallback) ==
  IsOllamaName(name) /\ model = "" /\ (fallback = NoLlm \/ fallback.provider = "ollama")

\* The task's own provider, or the tier's model, or what the request has
ForTask(task, fallback, name, model) ==
  LET own  == settings.tasks[task]
      made == IF own.provider # "" THEN Client(own.provider, "", own.model)
              ELSE IF TierApplies(name, model, fallback)
              THEN Client("ollama", "", TierOf(task)) ELSE NoLlm
  IN  IF made # NoLlm THEN made ELSE fallback

-----------------------------------------------------------------------------
\* Between the first look at the settings and the last a request does not wait.
Enrich(req) ==
  LET name  == Or(req.provider, settings.provider)
      model == Or(req.model, settings.model)
      fallback == ForRequest(req)
  IN  /\ routed' = [req |-> req, to |-> name, fallback |-> fallback,
                    llms |-> [t \in Tasks |-> ForTask(t, fallback, name, model)]]
      /\ UNCHANGED <<byok, settings>>

\* A document is generated by the task's provider or the server's, with the
\* request's key if it has one.
Synthesize(req) ==
  LET own == settings.tasks["synthetic"]
      choice == IF own.provider # "" THEN own
                ELSE [provider |-> settings.provider, model |-> settings.model]
  IN  /\ routed' = [NotAsked EXCEPT !.req = req, !.to = choice.provider,
                      !.fallback = Client(choice.provider, req.key, choice.model)]
      /\ UNCHANGED <<byok, settings>>

\* The connection is tested with a key if one is needed; models are listed
\* without one too, and known ones are the answer when that fails.
TryProvider(req, listing) ==
  /\ req.provider \in Providers
  /\ routed' = [NotAsked EXCEPT !.req = req, !.to = req.provider, !.fallback =
       IF listing THEN Provided(req.provider, KeyFor(req.provider, req.key), "")
       ELSE Client(req.provider, req.key, req.model)]
  /\ UNCHANGED <<byok, settings>>

KeysAnyway(keys) == Over(keys, settings.keys)  \* broken: visitors' keys are kept

StoredKeys(keys) == IF byok THEN settings.keys ELSE Over(keys, settings.keys)

\* What the update does not name stays; without the admin's token nothing changes.
\* The last answer is forgotten, since it was made with the settings before.
PutSettings(update, admin) ==
  /\ settings' = IF admin
       THEN [Over(update.top, settings) EXCEPT
               !.keys = StoredKeys(update.keys), !.tasks = Over(update.tasks, settings.tasks)]
       ELSE settings
  /\ routed' = IF admin THEN NotAsked ELSE routed
  /\ UNCHANGED byok

RoutingNext ==
  \/ \E req \in Requests : Enrich(req) \/ TryProvider(req, TRUE) \/ TryProvider(req, FALSE)
  \/ \E req \in Requests : "synthetic" \in Tasks /\ Synthesize(req)
  \/ \E update \in Updates, admin \in BOOLEAN : PutSettings(update, admin)

RoutingSpec == RoutingInit /\ [][RoutingNext]_routing_vars

-----------------------------------------------------------------------------
\* What the settings, the list of providers and the health route say
KeySet(p) == settings.keys[p] # "" /\ ~byok
Offered(p) == KeyFor(p, "") # ""

\* The health route looks up the name as it is, in tables of its own.
Healthy ==
  \/ settings.provider \in Local \cup ({"lm_studio"} \cap DOMAIN Spelled)
  \/ /\ ~byok /\ settings.provider \in Keyed
     /\ settings.keys[settings.provider] # ""

-----------------------------------------------------------------------------
Routed == {routed.fallback} \cup {routed.llms[t] : t \in Tasks}

\* What the three routes say of keys is what a request without one meets: the
\* rule is written down four times.  Health alone does not normalize the name: what
\* it calls configured works, but what works it may call without a key if the name
\* is spelled with a hyphen; see README.  (get_settings, list_providers, _check_llm)
ShownKeysWork ==
  /\ \A p \in Keyed : /\ KeySet(p) <=> Client(p, "", "") # NoLlm
                      /\ Offered(p) <=> Client(p, "", "") # NoLlm
  /\ Healthy => Client(settings.provider, "", settings.model) # NoLlm
  /\ settings.provider \in Providers /\ Client(settings.provider, "", settings.model) # NoLlm
       => Healthy

\* Where visitors bring their own keys the server's never leaves with a visitor's
\* request and a visitor's is never kept; and everywhere a visitor's key goes to
\* the provider the request is for and to no override's; and what is shown of keys is so.
\* (_get_api_key_for_provider, update_settings)
KeysStayApart ==
  /\ byok => /\ \A llm \in Routed : llm.key \in {"", "user", "placeholder"}
             /\ \A p \in Keyed : settings.keys[p] # "put"
  /\ \A llm \in Routed : llm.key = "user" => llm.provider = Normalized(routed.to)
  /\ ShownKeysWork

\* The text of a document goes to the provider the request names, or the server's
\* if it names none, or to a task's override; never, for want of a key or a model,
\* to any other.  (_try_get_task_llm)
ProviderChoiceStands ==
  \A t \in Tasks : routed.llms[t] # NoLlm =>
    \/ routed.llms[t].provider \in {Normalized(routed.to), Normalized(settings.tasks[t].provider)}
    \/ IsOllamaName(routed.to) /\ routed.llms[t].provider = "ollama"
=============================================================================
