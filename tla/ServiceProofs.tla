---------------------------- MODULE ServiceProofs ----------------------------
(* The services a job leans on, for any number of callers, models, tasks and  *)
(* providers: what a stop of the local model server leaves, where texts and   *)
(* keys go, how many ontologies stay in memory, of which tables a ruler is.   *)
EXTENDS OntologyRegistry, OllamaServer, LlmRouting, FiniteSetTheorems, TLAPS

-----------------------------------------------------------------------------
(* The model server.  As long as no process was spawned beside another, the   *)
(* one that lives is the one the handle is of.                                *)
HandleInv ==
  /\ calls = [c \in Callers |-> calls[c]]
  /\ spawned \in Nat /\ handle \in 0..spawned /\ alive \in SUBSET (1..spawned)
  /\ ~beside => alive \subseteq {handle}

(* Most steps of a call change nothing but the call.                          *)
LEMMA QuietSteps ==
  ASSUME NEW c \in Callers,
         \/ FindBinary(c) \/ Reach(c) \/ LookAgain(c) \/ FindServer(c) \/ PollServer(c)
         \/ \E ok \in BOOLEAN : Started(c, ok) \/ InstallOllama(c, ok)
         \/ \E outcome \in {"pulled", "raises", "ends"} : PullModel(c, outcome)
         \/ Complete(c) \/ EndCall(c)
         \/ \E kind \in CallKinds : Call(c, kind)
  PROVE  /\ calls[c].pc # "stop" /\ \E call : Becomes(c, call)
         /\ UNCHANGED <<alive, handle, spawned, beside>>
<1>1. CASE FindBinary(c)  BY <1>1 DEF FindBinary, Stands
<1>2. CASE Reach(c)       BY <1>2 DEF Reach, Stands
<1>3. CASE LookAgain(c)   BY <1>3 DEF LookAgain, Leads, Stands
<1>4. CASE FindServer(c)  BY <1>4 DEF FindServer, Leads, Stands
<1>5. CASE PollServer(c)        BY <1>5 DEF PollServer, Stands
<1>6. CASE \E ok \in BOOLEAN : Started(c, ok) \/ InstallOllama(c, ok)
  BY <1>6 DEF Started, InstallOllama, Leads, Stands
<1>7. CASE \E outcome \in {"pulled", "raises", "ends"} : PullModel(c, outcome)
  BY <1>7 DEF PullModel, Stands
<1>8. CASE Complete(c) \/ EndCall(c)  BY <1>8 DEF Complete, EndCall, Leads, Stands
<1>9. CASE \E kind \in CallKinds : Call(c, kind)  BY <1>9 DEF Call, Stands
<1>10. QED  BY <1>1, <1>2, <1>3, <1>4, <1>5, <1>6, <1>7, <1>8, <1>9

(* Only the step of a call changes where it is.                               *)
LEMMA OthersStay ==
  ASSUME HandleInv, NEW c \in Callers, NEW call, Becomes(c, call)
  PROVE  /\ \A d \in Callers : d # c => calls'[d] = calls[d]
         /\ calls' = [d \in Callers |-> calls'[d]]
BY DEF HandleInv, Becomes

LEMMA SpawnKeeps ==
  ASSUME HandleInv, NEW c \in Callers, Spawn(c)
  PROVE  HandleInv' /\ calls[c].pc # "stop" /\ \E call : Becomes(c, call)
<1>1. calls[c].pc # "stop" /\ \E call : Becomes(c, call)  BY DEF Spawn, Stands, Leads
<1>2. \/ UNCHANGED <<alive, handle, spawned, beside>>
      \/ /\ spawned' = spawned + 1 /\ handle' = spawned + 1
         /\ alive' = alive \cup {spawned + 1} /\ beside' = (beside \/ alive # {})
  BY DEF Spawn
<1>3. spawned' \in Nat /\ handle' \in 0..spawned' /\ alive' \in SUBSET (1..spawned')
  BY <1>2 DEF HandleInv
<1>4. ~beside' => alive' \subseteq {handle'}  BY <1>2 DEF HandleInv
<1>5. QED  BY <1>1, <1>3, <1>4, OthersStay DEF HandleInv

LEMMA StopKeeps ==
  ASSUME HandleInv, NEW c \in Callers, Stop(c)
  PROVE  /\ HandleInv' /\ \E call : Becomes(c, call)
         /\ beside \/ alive' = {}
         /\ serving = Users => serving' = Users
<1>1. /\ alive' = alive \ {handle} /\ handle' = 0 /\ UNCHANGED <<spawned, beside>>
      /\ serving' = IF serving # Nobody /\ serving \in {handle} THEN Nobody ELSE serving
      /\ \E call : Becomes(c, call)
  BY DEF Stop, Ended, Nobody, Leads
<1>2. beside \/ alive' = {}  BY <1>1 DEF HandleInv
<1>3. serving = Users => serving' = Users
  <2>1. handle # Users  BY DEF HandleInv, Users
  <2>2. QED  BY <1>1, <2>1
<1>4. handle' \in 0..spawned' /\ alive' \in SUBSET (1..spawned')  BY <1>1 DEF HandleInv
<1>5. QED  BY <1>1, <1>2, <1>3, <1>4, OthersStay DEF HandleInv

LEMMA ServerKeeps ==
  ASSUME HandleInv, UsersServer \/ \E p \in alive : Serve(p) \/ Exit(p)
  PROVE  HandleInv' /\ calls' = calls
BY DEF HandleInv, Serve, Exit, UsersServer

(* A step keeps the invariant, and one that ends a stop is that stop's.       *)
LEMMA OllamaStep ==
  ASSUME HandleInv, [OllamaNext]_ollama_vars
  PROVE  /\ HandleInv'
         /\ \A c \in Callers : (calls[c].pc = "stop" /\ calls'[c].pc # "stop")
              => (beside \/ alive' = {}) /\ (serving = Users => serving' = Users)
<1>1. CASE UNCHANGED ollama_vars  BY <1>1 DEF ollama_vars, HandleInv
<1>2. CASE UsersServer \/ \E p \in alive : Serve(p) \/ Exit(p)  BY <1>2, ServerKeeps
<1>3. ASSUME NEW c \in Callers,
             CallStep(c) \/ Downloads(c) \/ \E kind \in CallKinds : Call(c, kind)
      PROVE  /\ HandleInv'
             /\ \A d \in Callers : (calls[d].pc = "stop" /\ calls'[d].pc # "stop")
                  => (beside \/ alive' = {}) /\ (serving = Users => serving' = Users)
  <2>1. CASE Stop(c)
    <3>1. \A d \in Callers : d # c => calls'[d] = calls[d]  BY <2>1, StopKeeps, OthersStay
    <3>2. QED  BY <2>1, <3>1, StopKeeps
  <2>2. CASE Spawn(c)
    <3>1. \A d \in Callers : d # c => calls'[d] = calls[d]  BY <2>2, SpawnKeeps, OthersStay
    <3>2. QED  BY <2>2, <3>1, SpawnKeeps
  <2>3. CASE ~Stop(c) /\ ~Spawn(c)
    <3>1. /\ calls[c].pc # "stop" /\ \E call : Becomes(c, call)
          /\ UNCHANGED <<alive, handle, spawned, beside>>
      BY <1>3, <2>3, QuietSteps DEF CallStep, Downloads
    <3>2. /\ \A d \in Callers : d # c => calls'[d] = calls[d]
          /\ calls' = [d \in Callers |-> calls'[d]]
      BY <3>1, OthersStay
    <3>3. QED  BY <3>1, <3>2 DEF HandleInv
  <2>4. QED  BY <2>1, <2>2, <2>3
<1>4. QED  BY <1>1, <1>2, <1>3 DEF OllamaNext

(* A stop leaves no process of ours and the users' server untouched, unless   *)
(* one was spawned beside another.  (OllamaManager.stop)                      *)
THEOREM StopsEndOurs == OllamaSpec => StopEndsOurs
<1>1. OllamaInit => HandleInv  BY DEF OllamaInit, HandleInv, Nobody
<1>2. HandleInv /\ [OllamaNext]_ollama_vars => HandleInv'  BY OllamaStep
<1>3. HandleInv /\ [OllamaNext]_ollama_vars
        => [\A c \in Callers : (calls[c].pc = "stop" /\ calls'[c].pc # "stop")
              => /\ beside \/ alive' = {}
                 /\ serving = Users => serving' = Users]_ollama_vars
  BY OllamaStep
<1>4. QED  BY <1>1, <1>2, <1>3, PTL DEF OllamaSpec, StopEndsOurs

-----------------------------------------------------------------------------
(* Keys and providers.  What is stored is the server's or an admin's; what    *)
(* was routed is as the settings are that it was routed by.                   *)
Stored ==
  /\ byok \in BOOLEAN
  /\ settings = [f \in DOMAIN settings |-> settings[f]]
  /\ {"provider", "model", "keys", "tasks"} \subseteq DOMAIN settings
  /\ Keyed \subseteq DOMAIN settings.keys
  /\ \A p \in Keyed : settings.keys[p] # "user" /\ (byok => settings.keys[p] # "put")

KeysApart ==
  /\ byok => \A llm \in Routed : llm.key \in {"", "user", "placeholder"}
  /\ \A llm \in Routed : llm.key = "user" => llm.provider = Normalized(routed.to)

RoutingInv == Stored /\ KeysApart /\ ProviderChoiceStands

LEMMA ClientIs ==
  ASSUME NEW name, NEW given, NEW model, Client(name, given, model) # NoLlm
  PROVE  /\ Normalized(name) \in Providers
         /\ Client(name, given, model).provider = Normalized(name)
         /\ Client(name, given, model).key \in {KeyFor(Normalized(name), given), "placeholder"}
BY DEF Client, Provided

LEMMA NoKey == NoLlm.key = "" /\ NoLlm.key # "user"
BY DEF NoLlm

LEMMA KeysGiven ==
  ASSUME Stored, NEW name, NEW given \in {"", "user"}
  PROVE  /\ byok => KeyFor(name, given) \in {"", "user"}
         /\ given = "" => KeyFor(name, given) # "user"
BY DEF Stored, KeyFor

LEMMA ClientKeys ==
  ASSUME Stored, NEW name, NEW given \in {"", "user"}, NEW model
  PROVE  LET llm == Client(name, given, model)
         IN  /\ byok => llm.key \in {"", "user", "placeholder"}
             /\ llm.key = "user" => llm.provider = Normalized(name) /\ given = "user"
<1> DEFINE llm == Client(name, given, model)
           p == Normalized(name)
<1>1. CASE llm = NoLlm
  <2>1. llm.key = ""  BY <1>1, NoKey
  <2>2. QED  BY <2>1
<1>2. CASE llm # NoLlm
  <2>1. llm.provider = p /\ llm.key \in {KeyFor(p, given), "placeholder"}  BY <1>2, ClientIs
  <2>2. \A n : byok => KeyFor(n, given) \in {"", "user"}  BY KeysGiven
  <2>3. \A n : KeyFor(n, given) = "user" => given = "user"  BY KeysGiven
  <2> SUFFICES /\ byok => llm.key \in {"", "user", "placeholder"}
               /\ llm.key = "user" => llm.provider = p /\ given = "user"
    OBVIOUS
  <2> HIDE DEF p, llm
  <2>4. QED  BY <2>1, <2>2, <2>3
<1>3. QED  BY <1>1, <1>2

(* What the routes show of keys is what a request without one meets.          *)
LEMMA ShownIsSo == Stored => ShownKeysWork
<1> SUFFICES ASSUME Stored PROVE ShownKeysWork  OBVIOUS
<1>1. \A p \in Providers : \A given, model :
        Client(p, given, model) # NoLlm <=> ~(p \in Keyed /\ KeyFor(p, given) = "")
  <2>1. SUFFICES ASSUME NEW p \in Providers, NEW given, NEW model
                 PROVE  Client(p, given, model) # NoLlm <=> ~(p \in Keyed /\ KeyFor(p, given) = "")
    OBVIOUS
  <2>2. Normalized(p) = p  BY RoutingAssumption DEF Normalized, Providers
  <2>3. p # ""  BY RoutingAssumption DEF Providers
  <2>4. Client(p, given, model) = IF p \in Keyed /\ KeyFor(p, given) = "" THEN NoLlm
                                  ELSE Provided(p, KeyFor(p, given), model)
    BY <2>1, <2>2 DEF Client
  <2>5. Provided(p, KeyFor(p, given), model) # NoLlm  BY <2>3 DEF Provided, NoLlm
  <2>6. QED  BY <2>4, <2>5
<1>2. ASSUME NEW p \in Keyed
      PROVE  /\ KeySet(p) <=> Client(p, "", "") # NoLlm
             /\ Offered(p) <=> Client(p, "", "") # NoLlm
  BY <1>1, <1>2 DEF KeySet, Offered, KeyFor, Providers
<1>3. /\ Healthy => Client(settings.provider, "", settings.model) # NoLlm
      /\ settings.provider \in Providers /\ Client(settings.provider, "", settings.model) # NoLlm
           => Healthy
  <2> DEFINE name == settings.provider
             llm == Client(name, "", settings.model)
  <2>1. CASE name \in Providers
    <3>1. "lm_studio" \in DOMAIN Spelled => name # "lm_studio"
      BY <2>1, RoutingAssumption DEF Providers
    <3>2. Healthy <=> ~(name \in Keyed /\ KeyFor(name, "") = "")
      BY <2>1, <3>1, RoutingAssumption DEF Healthy, KeyFor, Providers
    <3>3. QED  BY <1>1, <2>1, <3>2
  <2>2. CASE name \notin Providers
    <3>1. ASSUME Healthy  PROVE llm # NoLlm
      <4>1. name = "lm_studio" /\ name \in DOMAIN Spelled  BY <2>2, <3>1 DEF Healthy, Providers
      <4>2. Normalized(name) = Spelled[name] /\ Spelled[name] \in Local
        BY <4>1, RoutingAssumption DEF Normalized
      <4>3. Normalized(name) # "" /\ Normalized(name) \in Providers /\ Normalized(name) \notin Keyed
        BY <4>2, RoutingAssumption DEF Providers
      <4>4. llm = Provided(Normalized(name), KeyFor(Normalized(name), ""), settings.model)
        BY <4>3 DEF Client
      <4>5. llm.provider = Normalized(name)
        <5> HIDE DEF llm, name
        <5>1. QED  BY <4>4 DEF Provided
      <4>6. NoLlm.provider = ""  BY DEF NoLlm
      <4> HIDE DEF llm, name
      <4>7. QED  BY <4>3, <4>5, <4>6
    <3>2. QED  BY <2>2, <3>1
  <2>3. QED  BY <2>1, <2>2
<1>4. QED  BY <1>2, <1>3 DEF ShownKeysWork

LEMMA InvSuffices == RoutingInv => KeysStayApart
BY ShownIsSo DEF RoutingInv, Stored, KeysApart, KeysStayApart

(* Where the text of a task goes, and with which key.                         *)
LEMMA ForTaskIs ==
  ASSUME Stored, NEW task \in Tasks, NEW fallback, NEW name, NEW model
  PROVE  LET llm == ForTask(task, fallback, name, model)
         IN  \/ llm = fallback
             \/ /\ llm = Client(settings.tasks[task].provider, "", settings.tasks[task].model)
                /\ llm.provider = Normalized(settings.tasks[task].provider)
             \/ /\ llm = Client("ollama", "", TierOf(task))
                /\ IsOllamaName(name) /\ llm.provider = "ollama"
<1> DEFINE own == settings.tasks[task]
           llm == ForTask(task, fallback, name, model)
<1>1. CASE own.provider # ""
  <2> DEFINE mine == Client(own.provider, "", own.model)
  <2>1. llm = IF mine # NoLlm THEN mine ELSE fallback  BY <1>1 DEF ForTask
  <2>2. mine # NoLlm => mine.provider = Normalized(own.provider)
    <3>1. \A n, mo : Client(n, "", mo) # NoLlm => Client(n, "", mo).provider = Normalized(n)
      BY ClientIs
    <3>2. QED  BY <3>1
  <2> HIDE DEF mine, llm
  <2>3. llm = fallback \/ (llm = mine /\ llm.provider = Normalized(own.provider))  BY <2>1, <2>2
  <2>4. QED  BY <2>3 DEF mine, llm
<1>2. CASE own.provider = "" /\ TierApplies(name, model, fallback)
  <2> DEFINE mine == Client("ollama", "", TierOf(task))
  <2>1. llm = IF mine # NoLlm THEN mine ELSE fallback  BY <1>2 DEF ForTask
  <2>2. mine # NoLlm => mine.provider = "ollama"
    <3>1. Normalized("ollama") = "ollama"  BY RoutingAssumption DEF Normalized
    <3>2. QED  BY <3>1, ClientIs
  <2>3. IsOllamaName(name)  BY <1>2 DEF TierApplies
  <2> HIDE DEF mine, llm
  <2>4. llm = fallback \/ (llm = mine /\ llm.provider = "ollama")  BY <2>1, <2>2
  <2>5. QED  BY <2>3, <2>4 DEF mine, llm
<1>3. CASE own.provider = "" /\ ~TierApplies(name, model, fallback)
  <2>1. llm = IF NoLlm # NoLlm THEN NoLlm ELSE fallback  BY <1>3 DEF ForTask
  <2>2. QED  BY <2>1
<1>4. QED  BY <1>1, <1>2, <1>3

LEMMA EnrichKeeps ==
  ASSUME RoutingInv, NEW req \in Requests, Enrich(req)
  PROVE  RoutingInv'
<1> DEFINE name  == Or(req.provider, settings.provider)
           model == Or(req.model, settings.model)
           fallback == ForRequest(req)
<1>1. /\ routed'.to = name /\ routed'.fallback = fallback
      /\ \A t \in Tasks : routed'.llms[t] = ForTask(t, fallback, name, model)
      /\ byok' = byok /\ settings' = settings
  BY DEF Enrich
<1>2. req.key \in {"", "user"} /\ Stored  BY RoutingAssumption DEF RoutingInv
<1>3. /\ byok => fallback.key \in {"", "user", "placeholder"}
      /\ fallback.key = "user" => fallback.provider = Normalized(name)
      /\ fallback # NoLlm => fallback.provider = Normalized(name)
  <2>1. fallback = Client(name, req.key, model)  BY DEF ForRequest
  <2> HIDE DEF fallback, name, model
  <2>2. fallback # NoLlm => fallback.provider = Normalized(name)  BY <2>1, ClientIs
  <2>3. /\ byok => fallback.key \in {"", "user", "placeholder"}
        /\ fallback.key = "user" => fallback.provider = Normalized(name)
    BY <1>2, <2>1, ClientKeys
  <2>4. QED  BY <2>2, <2>3
<1> HIDE DEF fallback, name, model
<1>4. ASSUME NEW t \in Tasks
      PROVE  LET llm == routed'.llms[t]
             IN  /\ byok => llm.key \in {"", "user", "placeholder"}
                 /\ llm.key = "user" => llm.provider = Normalized(name)
                 /\ \/ llm = NoLlm
                    \/ llm.provider \in {Normalized(name), Normalized(settings.tasks[t].provider)}
                    \/ IsOllamaName(name) /\ llm.provider = "ollama"
  <2> DEFINE own == settings.tasks[t]
             llm == ForTask(t, fallback, name, model)
  <2>1. \/ llm = fallback
        \/ llm = Client(own.provider, "", own.model) /\ llm.provider = Normalized(own.provider)
        \/ /\ llm = Client("ollama", "", TierOf(t))
           /\ IsOllamaName(name) /\ llm.provider = "ollama"
    BY <1>2, ForTaskIs
  <2>2. ASSUME NEW p, NEW mo, llm = Client(p, "", mo)
        PROVE  /\ byok => llm.key \in {"", "user", "placeholder"}
               /\ llm.key # "user"
    <3>1. LET l == Client(p, "", mo)
          IN  /\ byok => l.key \in {"", "user", "placeholder"}
              /\ l.key = "user" => l.provider = Normalized(p) /\ "" = "user"
      BY <1>2, ClientKeys
    <3> HIDE DEF llm
    <3>2. QED  BY <2>2, <3>1
  <2>3. routed'.llms[t] = llm  BY <1>1
  <2> HIDE DEF llm
  <2>4. CASE llm = fallback  BY <1>3, <2>3, <2>4
  <2>5. CASE llm = Client(own.provider, "", own.model) /\ llm.provider = Normalized(own.provider)
    BY <2>2, <2>3, <2>5
  <2>6. CASE /\ llm = Client("ollama", "", TierOf(t))
             /\ IsOllamaName(name) /\ llm.provider = "ollama"
    BY <2>2, <2>3, <2>6
  <2>7. QED  BY <2>1, <2>4, <2>5, <2>6
<1>5. Stored'  BY <1>1, <1>2 DEF Stored
<1>6. KeysApart'  BY <1>1, <1>3, <1>4 DEF KeysApart, Routed
<1>7. ProviderChoiceStands'  BY <1>1, <1>4 DEF ProviderChoiceStands
<1>8. QED  BY <1>5, <1>6, <1>7 DEF RoutingInv

(* A request that has one answer, of no task.                                 *)
LEMMA OneAnswer ==
  ASSUME RoutingInv, NEW req, NEW to, NEW llm,
         routed' = [NotAsked EXCEPT !.req = req, !.to = to, !.fallback = llm],
         UNCHANGED <<byok, settings>>,
         byok => llm.key \in {"", "user", "placeholder"},
         llm.key = "user" => llm.provider = Normalized(to)
  PROVE  RoutingInv'
<1>1. /\ routed'.to = to /\ routed'.fallback = llm
      /\ \A t \in Tasks : routed'.llms[t] = NoLlm
  BY DEF NotAsked
<1>2. Stored'  BY DEF RoutingInv, Stored
<1>3. KeysApart'
  <2>1. \A l \in Routed' : l = llm \/ l = NoLlm  BY <1>1 DEF Routed
  <2>2. byok' => \A l \in Routed' : l.key \in {"", "user", "placeholder"}  BY <2>1, NoKey
  <2>3. \A l \in Routed' : l.key = "user" => l.provider = Normalized(routed'.to)  BY <1>1, <2>1, NoKey
  <2>4. Normalized(routed.to)' = Normalized(routed'.to)  BY DEF Normalized
  <2>5. QED  BY <2>2, <2>3, <2>4, Zenon DEF KeysApart
<1>4. ProviderChoiceStands'  BY <1>1 DEF ProviderChoiceStands
<1>5. QED  BY <1>2, <1>3, <1>4 DEF RoutingInv

LEMMA SynthesizeKeeps ==
  ASSUME RoutingInv, NEW req \in Requests, Synthesize(req)
  PROVE  RoutingInv'
<1>1. PICK choice : /\ routed' = [NotAsked EXCEPT !.req = req, !.to = choice.provider,
                         !.fallback = Client(choice.provider, req.key, choice.model)]
                    /\ UNCHANGED <<byok, settings>>
  BY DEF Synthesize
<1>2. req.key \in {"", "user"} /\ Stored  BY RoutingAssumption DEF RoutingInv
<1>3. PICK llm : llm = Client(choice.provider, req.key, choice.model)  OBVIOUS
<1>4. /\ byok => llm.key \in {"", "user", "placeholder"}
      /\ llm.key = "user" => llm.provider = Normalized(choice.provider)
  BY <1>2, <1>3, ClientKeys
<1>5. routed' = [NotAsked EXCEPT !.req = req, !.to = choice.provider, !.fallback = llm]
  BY <1>1, <1>3
<1>6. QED  BY <1>1, <1>4, <1>5, OneAnswer

LEMMA TryKeeps ==
  ASSUME RoutingInv, NEW req \in Requests, NEW listing, TryProvider(req, listing)
  PROVE  RoutingInv'
<1> DEFINE llm == IF listing THEN Provided(req.provider, KeyFor(req.provider, req.key), "")
                  ELSE Client(req.provider, req.key, req.model)
<1>1. /\ routed' = [NotAsked EXCEPT !.req = req, !.to = req.provider, !.fallback = llm]
      /\ UNCHANGED <<byok, settings>>
  BY DEF TryProvider
<1>2. req.key \in {"", "user"} /\ Stored  BY RoutingAssumption DEF RoutingInv
<1>3. /\ byok => llm.key \in {"", "user", "placeholder"}
      /\ llm.key = "user" => llm.provider = Normalized(req.provider)
  <2>0. Normalized(req.provider) = req.provider
    BY RoutingAssumption DEF Normalized, Providers, TryProvider
  <2>1. CASE listing  BY <1>2, <2>0, <2>1, KeysGiven DEF Provided
  <2>2. CASE ~listing  BY <1>2, <2>2, ClientKeys
  <2>3. QED  BY <2>1, <2>2
<1> HIDE DEF llm
<1>4. QED  BY <1>1, <1>3, OneAnswer

LEMMA PutKeeps ==
  ASSUME RoutingInv, NEW update \in Updates, NEW admin \in BOOLEAN, PutSettings(update, admin)
  PROVE  RoutingInv'
<1>1. CASE ~admin
  BY <1>1 DEF PutSettings, RoutingInv, Stored, KeysApart, ProviderChoiceStands, Routed
<1>2. CASE admin
  <2> DEFINE top  == Over(update.top, settings)
             keys == StoredKeys(update.keys)
  <2>1. /\ settings' = [top EXCEPT !.keys = keys, !.tasks = Over(update.tasks, settings.tasks)]
        /\ routed' = NotAsked /\ byok' = byok
    BY <1>2 DEF PutSettings
  <2>2. {"provider", "model", "keys", "tasks"} \subseteq DOMAIN top
    BY DEF Over, RoutingInv, Stored
  <2> HIDE DEF top
  <2>3. /\ settings'.keys = keys /\ DOMAIN settings' = DOMAIN top
        /\ settings' = [f \in DOMAIN settings' |-> settings'[f]]
    BY <2>1, <2>2
  <2>4. /\ Keyed \subseteq DOMAIN keys
        /\ \A p \in Keyed : keys[p] # "user" /\ (byok => keys[p] # "put")
    BY RoutingAssumption DEF StoredKeys, Over, RoutingInv, Stored
  <2> HIDE DEF keys
  <2>5. Stored'  BY <2>1, <2>2, <2>3, <2>4 DEF Stored, RoutingInv
  <2>6. KeysApart'
    <3>1. \A l \in Routed' : l = NoLlm  BY <2>1 DEF Routed, NotAsked
    <3>2. QED  BY <3>1, NoKey DEF KeysApart
  <2>7. ProviderChoiceStands'  BY <2>1 DEF ProviderChoiceStands, NotAsked
  <2>8. QED  BY <2>5, <2>6, <2>7 DEF RoutingInv
<1>3. QED  BY <1>1, <1>2

THEOREM RoutingInvariant == RoutingSpec => []RoutingInv
<1>1. RoutingInit => RoutingInv
  <2> SUFFICES ASSUME RoutingInit PROVE RoutingInv  OBVIOUS
  <2>1. Stored  BY DEF RoutingInit, Stored
  <2>2. KeysApart
    <3>1. \A l \in Routed : l = NoLlm  BY DEF RoutingInit, Routed, NotAsked
    <3>2. QED  BY <3>1, NoKey DEF KeysApart
  <2>3. ProviderChoiceStands  BY DEF RoutingInit, ProviderChoiceStands, NotAsked
  <2>4. QED  BY <2>1, <2>2, <2>3 DEF RoutingInv
<1>2. RoutingInv /\ [RoutingNext]_routing_vars => RoutingInv'
  <2> SUFFICES ASSUME RoutingInv, [RoutingNext]_routing_vars PROVE RoutingInv'  OBVIOUS
  <2>1. CASE UNCHANGED routing_vars
    BY <2>1 DEF routing_vars, RoutingInv, Stored, KeysApart, ProviderChoiceStands, Routed
  <2>2. CASE RoutingNext
    BY <2>2, EnrichKeeps, SynthesizeKeeps, TryKeeps, PutKeeps DEF RoutingNext
  <2>3. QED  BY <2>1, <2>2
<1>3. QED  BY <1>1, <1>2, PTL DEF RoutingSpec

(* The server's key serves no visitor where they bring their own, a visitor's *)
(* goes nowhere but where the request is for, and what is shown of keys is    *)
(* so.  (_get_api_key_for_provider, update_settings)                          *)
THEOREM KeysAlwaysApart == RoutingSpec => []KeysStayApart
BY InvSuffices, RoutingInvariant, PTL

(* No text goes to a provider that neither the request, nor the server, nor   *)
(* a task's override names.  (_try_get_task_llm)                              *)
THEOREM ChosenProvidersOnly == RoutingSpec => []ProviderChoiceStands
<1>1. RoutingInv => ProviderChoiceStands  BY DEF RoutingInv
<1>2. QED  BY <1>1, RoutingInvariant, PTL

-----------------------------------------------------------------------------
(* The ontologies in memory.  A thread that has not looked at the ceiling yet *)
(* owes a look; each table it has read was the default's since it was asked,  *)
(* as what is in a field now has been seen by whoever waits for what is made  *)
(* of it; and what it hands out of a cache is equal to what it has read.      *)
Places == {"idle", "look", "lock", "build", "touch", "evict", "find", "await", "encode",
           "table", "take", "graph", "store", "ruler", "check", "gather", "weave", "forget", "done"}

ThreadShape == [pc : Places, kind : Kinds \cup {"service"}, on : Ontologies, own : BOOLEAN,
                graph : Nat, read : Seq(Nat)]

UnionShape == [of : Nat \X Nat, labels : Nat, ruler : Seq(Nat)]

OwesALook(r) == r.own => r.pc \in {"touch", "evict"}

\* Which requests are where, and how many tables they have there
Placed(r) ==
  /\ r.pc = "idle" => r.kind = "service"
  /\ r.pc = "await" => r.kind = "index"
  /\ r.pc = "forget" => r.kind = "translations"
  /\ r.pc \in {"check", "weave", "gather"} => r.kind = "union"
  /\ r.pc \in {"table", "take", "graph", "store"} => r.kind # "union" \/ r.on = Default
  /\ r.pc = "gather" => r.on # Default
  /\ r.pc \in {"ruler", "check"} => Len(r.read) = 2
  /\ r.pc = "weave" => Len(r.read) = 3
  /\ r.kind = "union" /\ r.on # Default => Len(r.read) = 3
  /\ r.pc = "done" => /\ r.kind = "ruler" => Len(r.read) = 2
                      /\ r.kind = "union" => Len(r.read) = 3

FieldsOf(i) == IF i = 1 THEN {"labels"} ELSE IF i = 2 THEN {"multi"} ELSE {"multi", "union"}

Owned(r, s) ==
  Asks(r) => \A i \in DOMAIN r.read : \E f \in FieldsOf(i) : <<f, r.read[i]>> \in s

ThreadOK(r) == r \in ThreadShape /\ OwesALook(r) /\ Placed(r)

FieldsOK == /\ tables \in [Fields -> Nat] /\ versions \in Nat /\ rebind \in Seq(Fields)
            /\ union \in UnionShape

UnderCeiling == (\A t \in Threads : ~threads[t].own) => Cardinality(Resident) <= Ceiling

SeenOK == \A t \in Threads : /\ Owned(threads[t], seen[t])
                             /\ Asks(threads[t]) => Held \subseteq seen[t]

RegistryInv ==
  /\ RegistryTypeOK /\ built \in Nat /\ clock \in Nat
  /\ FieldsOK /\ UnderCeiling /\ SeenOK
  /\ threads = [t \in Threads |-> threads[t]]
  /\ \A t \in Threads : ThreadOK(threads[t])


(* Before the steps: what the pieces of the invariant say of one of them.     *)
LEMMA ThreadIs ==
  ASSUME RegistryInv, NEW t \in Threads
  PROVE  /\ ThreadOK(threads[t]) /\ threads[t] \in ThreadShape /\ threads[t].on \in Ontologies
         /\ threads[t].read \in Seq(Nat) /\ threads[t].own \in BOOLEAN
         /\ Owned(threads[t], seen[t])
         /\ Asks(threads[t]) => Held \subseteq seen[t]
BY DEF RegistryInv, ThreadOK, ThreadShape, SeenOK

(* A step of a thread leaves the others where they are.                       *)
LEMMA OneThread ==
  ASSUME RegistryInv, NEW t \in Threads, NEW r, threads' = [threads EXCEPT ![t] = r]
  PROVE  /\ threads'[t] = r
         /\ \A u \in Threads : u # t => threads'[u] = threads[u]
         /\ threads' = [u \in Threads |-> threads'[u]]
BY DEF RegistryInv

(* Whoever waits goes on with all that was seen, and with what is there now.  *)
LEMMA Watched ==
  ASSUME Watch, NEW t \in Threads
  PROVE  /\ Asks(threads'[t]) => seen[t] \subseteq seen'[t] /\ Held' \subseteq seen'[t]
BY DEF Watch

LEMMA StillOwned ==
  ASSUME Watch, NEW t \in Threads, NEW r, ThreadOK(r), Owned(r, seen[t]), threads'[t] = r
  PROVE  Owned(r, seen'[t])
BY Watched DEF Owned

LEMMA ThreadsKeep ==
  ASSUME RegistryInv, Watch, NEW t \in Threads, NEW r, threads' = [threads EXCEPT ![t] = r],
         ThreadOK(r), Owned(r, seen'[t])
  PROVE  /\ threads' = [u \in Threads |-> threads'[u]]
         /\ \A u \in Threads : ThreadOK(threads'[u])
         /\ SeenOK'
<1>1. \A u \in Threads : ThreadOK(threads'[u])
  BY OneThread DEF RegistryInv
<1>2. ASSUME NEW u \in Threads
      PROVE  /\ Owned(threads'[u], seen'[u])
             /\ Asks(threads'[u]) => Held' \subseteq seen'[u]
  <2>1. CASE u = t  BY <2>1, OneThread, Watched
  <2>2. CASE u # t
    <3>1. threads'[u] = threads[u]  BY <2>2, OneThread
    <3>2. QED  BY <3>1, ThreadIs, StillOwned, Watched
  <2>3. QED  BY <2>1, <2>2
<1>3. SeenOK'  BY <1>2 DEF SeenOK, Owned, Asks
<1>4. QED  BY <1>1, <1>3, OneThread

(* What is left of a step when its thread is as it should be                  *)
LEMMA StepKeeps ==
  ASSUME RegistryInv, Watch, NEW t \in Threads, NEW r, threads' = [threads EXCEPT ![t] = r],
         ThreadOK(r), Owned(r, seen'[t]),
         RegistryTypeOK', built' \in Nat, clock' \in Nat, FieldsOK', UnderCeiling'
  PROVE  RegistryInv'
<1>1. \A u \in Threads : ThreadOK(threads[u])' <=> ThreadOK(threads'[u])
  BY DEF ThreadOK, OwesALook, Placed
<1>2. QED  BY <1>1, ThreadsKeep DEF RegistryInv

(* Where nothing comes or goes, the ceiling holds as it did: the thread owes  *)
(* what it owed.                                                              *)
LEMMA StillUnder ==
  ASSUME RegistryInv, NEW t \in Threads, NEW r, threads' = [threads EXCEPT ![t] = r],
         r.own = threads[t].own, UNCHANGED <<services, indexes>>
  PROVE  UnderCeiling'
<1>1. Resident' = Resident  BY DEF Resident
<1>2. \A u \in Threads : threads'[u].own = threads[u].own  BY OneThread
<1>3. Cardinality(Resident)' = Cardinality(Resident)  BY <1>1
<1>4. QED  BY <1>2, <1>3 DEF UnderCeiling, RegistryInv

LEMMA FieldsStep ==
  ASSUME RegistryInv, Watch, NEW t \in Threads, NEW r, threads' = [threads EXCEPT ![t] = r],
         ThreadOK(r), Owned(r, seen'[t]), r.own = threads[t].own, FieldsOK',
         locks' \in [Ontologies -> Threads \cup {NoThread}],
         UNCHANGED <<services, indexes, accessed, clock, built>>
  PROVE  RegistryInv'
<1>1. UnderCeiling'  BY StillUnder
<1>2. RegistryTypeOK' /\ built' \in Nat /\ clock' \in Nat
  BY DEF RegistryInv, RegistryTypeOK
<1>3. QED  BY <1>1, <1>2, StepKeeps

LEMMA FieldsStay ==
  ASSUME RegistryInv, UNCHANGED <<derived, union>>  PROVE  FieldsOK'
BY DEF RegistryInv, FieldsOK, derived

(* A step that only moves its thread                                          *)
LEMMA QuietKeeps ==
  ASSUME RegistryInv, Watch, NEW t \in Threads, NEW r, threads' = [threads EXCEPT ![t] = r],
         ThreadOK(r), Owned(r, seen[t]), r.own = threads[t].own,
         locks' \in [Ontologies -> Threads \cup {NoThread}],
         UNCHANGED <<resident, usage, derived, compiled>>
  PROVE  RegistryInv'
<1>1. Owned(r, seen'[t])  BY OneThread, StillOwned
<1>2. FieldsOK'  BY FieldsStay DEF compiled
<1>3. UNCHANGED <<services, indexes, accessed, clock, built>>  BY DEF resident, usage
<1>4. QED  BY <1>1, <1>2, <1>3, FieldsStep

LEMMA LocksStay ==
  ASSUME RegistryInv, UNCHANGED locks  PROVE  locks' \in [Ontologies -> Threads \cup {NoThread}]
BY DEF RegistryInv, RegistryTypeOK

(* A thread that goes on with what it had is as it should be where it goes,   *)
(* unless something is asked of it there.                                     *)
LEMMA Moved ==
  ASSUME NEW x, ThreadOK(x), NEW s, Owned(x, s), ~x.own,
         NEW pc \in {"look", "lock", "build", "touch", "evict", "find", "encode"}
  PROVE  LET r == [x EXCEPT !.pc = pc]
         IN  ThreadOK(r) /\ Owned(r, s) /\ r.own = x.own
BY DEF ThreadOK, ThreadShape, Places, OwesALook, Placed, Owned, Asks

(* The steps of a request on its way to the service                           *)
LEMMA LookKeeps ==
  ASSUME RegistryInv, Watch, NEW t \in Threads, Look(t)
  PROVE  RegistryInv'
<1> DEFINE x == threads[t]
<1>1. ThreadOK(x) /\ Owned(x, seen[t]) /\ ~x.own
  BY ThreadIs DEF Look, ThreadOK, OwesALook, ThreadShape
<1>2. PICK pc \in {"touch", "lock"} : Goto(t, pc)  BY DEF Look
<1> DEFINE r == [x EXCEPT !.pc = pc]
<1>3. threads' = [threads EXCEPT ![t] = r]  BY <1>2 DEF Goto
<1>4. ThreadOK(r) /\ Owned(r, seen[t]) /\ r.own = x.own  BY <1>1, <1>2, Moved
<1> HIDE DEF r
<1>5. QED  BY <1>3, <1>4, LocksStay, QuietKeeps DEF Look

LEMMA LockKeeps ==
  ASSUME RegistryInv, Watch, NEW t \in Threads, Lock(t)
  PROVE  RegistryInv'
<1> DEFINE x == threads[t]
           r == [x EXCEPT !.pc = "build"]
<1>1. ThreadOK(x) /\ Owned(x, seen[t]) /\ ~x.own
  BY ThreadIs DEF Lock, ThreadOK, OwesALook, ThreadShape
<1>2. threads' = [threads EXCEPT ![t] = r]  BY DEF Lock, Goto
<1>3. ThreadOK(r) /\ Owned(r, seen[t]) /\ r.own = x.own  BY <1>1, Moved
<1>4. locks' \in [Ontologies -> Threads \cup {NoThread}]
  BY DEF Lock, RegistryInv, RegistryTypeOK
<1> HIDE DEF r
<1>5. QED  BY <1>2, <1>3, <1>4, QuietKeeps DEF Lock

LEMMA RequestKeepsThreads ==
  ASSUME RegistryInv, Watch, NEW t \in Threads, NEW kind \in Kinds, NEW o \in Ontologies,
         kind = "union" => o = Default, Request(t, kind, o)
  PROVE  RegistryInv'
<1> DEFINE x == threads[t]
           pc == IF kind = "index" THEN "find" ELSE "look"
           r == [Idle EXCEPT !.pc = pc, !.kind = kind, !.on = o]
<1>1. threads' = [threads EXCEPT ![t] = r] /\ x.pc = "idle"  BY DEF Request
<1>2. pc \in {"find", "look"}  OBVIOUS
<1> HIDE DEF pc
<1>3. /\ r.pc = pc /\ r.kind = kind /\ r.on = o /\ r.own = FALSE
      /\ r.graph = 0 /\ r.read = <<>>
  BY DEF Idle
<1>4. r \in ThreadShape
  <2>1. pc \in Places  BY <1>2 DEF Places
  <2>2. <<>> \in Seq(Nat)  OBVIOUS
  <2>3. QED  BY <2>1, <2>2, RegistryAssumption DEF ThreadShape, Idle
<1> HIDE DEF r
<1>5. ThreadOK(r) /\ Owned(r, seen[t])
  BY <1>2, <1>3, <1>4 DEF ThreadOK, OwesALook, Placed, Owned
<1>6. r.own = x.own
  BY <1>1, <1>3, ThreadIs DEF ThreadOK, ThreadShape, OwesALook
<1>7. QED  BY <1>1, <1>5, <1>6, LocksStay, QuietKeeps DEF Request

LEMMA IdleIsOK == ThreadOK(Idle) /\ Idle.own = FALSE /\ \A s : Owned(Idle, s)
<1>1. <<>> \in Seq(Nat) /\ "idle" \in Places  BY DEF Places
<1>2. QED
  BY <1>1, RegistryAssumption
  DEF Idle, ThreadOK, ThreadShape, OwesALook, Placed, Owned, Asks

LEMMA FinishKeeps ==
  ASSUME RegistryInv, Watch, NEW t \in Threads, Finish(t)  PROVE  RegistryInv'
<1>1. threads' = [threads EXCEPT ![t] = Idle] /\ threads[t].pc = "done"  BY DEF Finish
<1>2. Idle.own = threads[t].own
  BY <1>1, ThreadIs, IdleIsOK DEF ThreadOK, ThreadShape, OwesALook
<1>3. QED  BY <1>1, <1>2, IdleIsOK, LocksStay, QuietKeeps DEF Finish

(* With an index that is there, a request is one for the service.             *)
LEMMA IndexIsThere ==
  ASSUME RegistryInv, NEW t \in Threads, ~threads[t].own
  PROVE  LET r == [threads[t] EXCEPT !.pc = "touch", !.kind = "service"]
         IN  /\ HasIndex(t) = [threads EXCEPT ![t] = r]
             /\ ThreadOK(r) /\ Owned(r, seen[t]) /\ r.own = threads[t].own
<1> DEFINE r == [threads[t] EXCEPT !.pc = "touch", !.kind = "service"]
<1>1. HasIndex(t) = [threads EXCEPT ![t] = r]  BY DEF HasIndex
<1>2. r \in ThreadShape /\ r.pc = "touch" /\ r.kind = "service" /\ r.own = threads[t].own
  BY ThreadIs DEF ThreadShape, Places
<1> HIDE DEF r
<1>3. ThreadOK(r) /\ Owned(r, seen[t])
  BY <1>2 DEF ThreadOK, OwesALook, Placed, Owned, Asks
<1>4. QED  BY <1>1, <1>2, <1>3 DEF r

LEMMA FindKeeps ==
  ASSUME RegistryInv, Watch, NEW t \in Threads, Find(t)  PROVE  RegistryInv'
<1> DEFINE x == threads[t]
<1>1. ThreadOK(x) /\ Owned(x, seen[t]) /\ ~x.own
  BY ThreadIs DEF Find, ThreadOK, OwesALook, ThreadShape
<1>2. CASE threads' = HasIndex(t)
  BY <1>1, <1>2, IndexIsThere, LocksStay, QuietKeeps DEF Find
<1>3. CASE Goto(t, "look")
  <2> DEFINE r == [x EXCEPT !.pc = "look"]
  <2>1. threads' = [threads EXCEPT ![t] = r]  BY <1>3 DEF Goto
  <2>2. ThreadOK(r) /\ Owned(r, seen[t]) /\ r.own = x.own  BY <1>1, Moved
  <2> HIDE DEF r
  <2>3. QED  BY <2>1, <2>2, LocksStay, QuietKeeps DEF Find
<1>4. QED  BY <1>2, <1>3 DEF Find

LEMMA AwaitKeeps ==
  ASSUME RegistryInv, Watch, NEW t \in Threads, Await(t)  PROVE  RegistryInv'
<1> DEFINE x == threads[t]
<1>1. ThreadOK(x) /\ Owned(x, seen[t]) /\ ~x.own /\ x.kind = "index"
  BY ThreadIs DEF Await, ThreadOK, OwesALook, ThreadShape, Placed
<1>2. CASE threads' = HasIndex(t) /\ UNCHANGED locks
  BY <1>1, <1>2, IndexIsThere, LocksStay, QuietKeeps DEF Await
<1>3. CASE Goto(t, "table") /\ locks' = [locks EXCEPT ![x.on] = t]
  <2> DEFINE r == [x EXCEPT !.pc = "table"]
  <2>1. threads' = [threads EXCEPT ![t] = r]  BY <1>3 DEF Goto
  <2>2. ThreadOK(r) /\ Owned(r, seen[t]) /\ r.own = x.own
    BY <1>1 DEF ThreadOK, ThreadShape, Places, OwesALook, Placed, Owned, Asks
  <2> HIDE DEF r
  <2>3. locks' \in [Ontologies -> Threads \cup {NoThread}]
    BY <1>3 DEF RegistryInv, RegistryTypeOK
  <2>4. QED  BY <2>1, <2>2, <2>3, QuietKeeps DEF Await
<1>4. QED  BY <1>2, <1>3 DEF Await

-----------------------------------------------------------------------------
(* With one table more, a thread goes where it should with so many.           *)
LEMMA WithTableIsOK ==
  ASSUME RegistryInv, Watch, NEW t \in Threads,
         threads[t].pc \in {"take", "store"}, NEW version \in Nat,
         threads' = WithTable(t, version),
         Asks(threads[t]) /\ Asks(threads'[t]) => <<Table(t), version>> \in seen'[t]
  PROVE  \E r : /\ threads' = [threads EXCEPT ![t] = r]
                /\ ThreadOK(r) /\ Owned(r, seen'[t]) /\ r.own = threads[t].own
<1> DEFINE x == threads[t]
           n == Len(x.read)
           read == Append(x.read, version)
           pc == IF x.kind = "index" THEN "encode" ELSE IF n = 0 THEN "table"
                 ELSE IF n = 1 THEN "ruler" ELSE "look"
           on == IF x.kind = "union" /\ n = 2 THEN Partner ELSE x.on
           r == [x EXCEPT !.read = read, !.graph = 0, !.pc = pc, !.on = on]
<1>1. /\ ThreadOK(x) /\ ~x.own /\ x \in ThreadShape /\ Owned(x, seen[t])
      /\ x.read \in Seq(Nat) /\ n \in Nat
  <2>1. ThreadOK(x) /\ x \in ThreadShape /\ Owned(x, seen[t]) /\ x.read \in Seq(Nat)
    BY ThreadIs
  <2>2. ~x.own  BY <2>1 DEF ThreadOK, ThreadShape, OwesALook
  <2>3. QED  BY <2>1, <2>2
<1>2. threads' = [threads EXCEPT ![t] = r]  BY DEF WithTable
<1>3. /\ read \in Seq(Nat) /\ Len(read) = n + 1 /\ DOMAIN read = 1..(n + 1)
      /\ read[n + 1] = version /\ \A i \in 1..n : read[i] = x.read[i]
      /\ DOMAIN x.read = 1..n
  BY <1>1
<1>4. n = 0 <=> x.read = <<>>  BY <1>1
<1> HIDE DEF n, read
<1>5. /\ pc \in {"encode", "table", "ruler", "look"}
      /\ pc = "ruler" => n = 1 /\ x.kind # "index"
      /\ pc = "table" => n = 0 /\ x.kind # "index"
  OBVIOUS
<1>6. on \in Ontologies  BY <1>1, RegistryAssumption DEF ThreadShape
<1>7. x.kind = "union" => x.on = Default  BY <1>1 DEF ThreadOK, Placed
<1>8. x.kind = "union" /\ on # Default => n = 2  BY <1>7
<1>9. x.kind = "union" /\ pc = "table" => on = Default  BY <1>5, <1>7
<1>10. Asks(x) \/ x.kind \notin {"ruler", "union"} \/ (x.kind = "ruler" /\ on # Default)
  BY DEF Asks
<1> HIDE DEF pc, on
<1>11. /\ r.pc = pc /\ r.kind = x.kind /\ r.on = on /\ r.own = x.own /\ r.read = read
       /\ r \in ThreadShape
  BY <1>1, <1>3, <1>5, <1>6 DEF ThreadShape, Places
<1> HIDE DEF r
<1>12. ThreadOK(r)
  <2>1. Placed(r)  BY <1>3, <1>5, <1>8, <1>9, <1>11 DEF Placed
  <2>2. OwesALook(r)  BY <1>1, <1>11 DEF OwesALook
  <2>3. QED  BY <1>11, <2>1, <2>2 DEF ThreadOK
<1>13. Owned(r, seen'[t])
  <2>1. SUFFICES ASSUME Asks(r), NEW i \in 1..(n + 1)
                 PROVE  \E f \in FieldsOf(i) : <<f, read[i]>> \in seen'[t]
    BY <1>3, <1>11 DEF Owned
  <2>2. Asks(x)  BY <1>10, <1>11, <2>1 DEF Asks
  <2>3. threads'[t] = r /\ Asks(threads'[t])  BY <1>2, <2>1, OneThread
  <2>4. CASE i = n + 1
    <3>1. Table(t) \in FieldsOf(i)  BY <1>4, <1>1, <2>4 DEF Table, FieldsOf
    <3>2. QED  BY <1>3, <2>2, <2>3, <2>4, <3>1
  <2>5. CASE i \in 1..n
    <3>1. \E f \in FieldsOf(i) : <<f, x.read[i]>> \in seen[t]
      BY <1>1, <1>3, <2>2, <2>5 DEF Owned
    <3>2. QED  BY <1>3, <2>3, <2>5, <3>1, Watched
  <2>6. n \in Nat  BY <1>1
  <2>7. i = n + 1 \/ i \in 1..n  BY <2>1, <2>6
  <2>8. QED  BY <2>4, <2>5, <2>7
<1>14. QED  BY <1>2, <1>11, <1>12, <1>13

LEMMA FindTableKeeps ==
  ASSUME RegistryInv, Watch, NEW t \in Threads, FindTable(t)  PROVE  RegistryInv'
<1> DEFINE x == threads[t]
<1>1. ThreadOK(x) /\ Owned(x, seen[t]) /\ ~x.own /\ x.pc = "table"
  BY ThreadIs DEF FindTable, ThreadOK, OwesALook, ThreadShape
<1>2. PICK pc \in {"take", "graph"} : Goto(t, pc)  BY DEF FindTable
<1> DEFINE r == [x EXCEPT !.pc = pc]
<1>3. threads' = [threads EXCEPT ![t] = r]  BY <1>2 DEF Goto
<1>4. ThreadOK(r) /\ Owned(r, seen[t]) /\ r.own = x.own
  BY <1>1, <1>2 DEF ThreadOK, ThreadShape, Places, OwesALook, Placed, Owned, Asks
<1> HIDE DEF r
<1>5. QED  BY <1>3, <1>4, LocksStay, QuietKeeps DEF FindTable

LEMMA TakeTableKeeps ==
  ASSUME RegistryInv, Watch, NEW t \in Threads, TakeTable(t)  PROVE  RegistryInv'
<1> DEFINE x == threads[t]
           there == There(t)
<1>1. /\ ThreadOK(x) /\ Owned(x, seen[t]) /\ ~x.own /\ x.own \in BOOLEAN /\ x.pc = "take"
      /\ there \in Nat /\ Table(t) \in {"labels", "multi"}
  BY ThreadIs
  DEF TakeTable, There, ThreadOK, OwesALook, ThreadShape, RegistryInv, FieldsOK, Fields, Table
<1>2. FieldsOK' /\ UNCHANGED <<services, indexes, accessed, clock, built>>
  BY FieldsStay DEF TakeTable, resident, usage, compiled
<1>3. locks' \in [Ontologies -> Threads \cup {NoThread}]  BY LocksStay DEF TakeTable
<1>4. CASE threads' = WithTable(t, there)
  <2>1. Asks(x) /\ Asks(threads'[t]) => <<Table(t), there>> \in seen'[t]
    <3>1. SUFFICES ASSUME Asks(x), Asks(threads'[t])
                   PROVE  <<Table(t), there>> \in seen'[t]
      OBVIOUS
    <3>2. x.on = Default  BY <1>1, <3>1 DEF Asks, ThreadOK, Placed
    <3>3. <<Table(t), there>> \in Held  BY <1>1, <3>2 DEF Held, There
    <3>4. QED  BY <1>1, <3>1, <3>3, ThreadIs, Watched
  <2> HIDE DEF there
  <2>2. PICK r : /\ threads' = [threads EXCEPT ![t] = r]
                 /\ ThreadOK(r) /\ Owned(r, seen'[t]) /\ r.own = x.own
    BY <1>1, <1>4, <2>1, WithTableIsOK
  <2>3. QED  BY <1>2, <1>3, <2>2, FieldsStep
<1>5. CASE Goto(t, "encode")
  <2> DEFINE r == [x EXCEPT !.pc = "encode"]
  <2>1. threads' = [threads EXCEPT ![t] = r]  BY <1>5 DEF Goto
  <2>2. ThreadOK(r) /\ Owned(r, seen[t]) /\ r.own = x.own  BY <1>1, Moved
  <2> HIDE DEF r
  <2>3. QED  BY <1>3, <2>1, <2>2, QuietKeeps DEF TakeTable
<1>6. CASE threads' = [threads EXCEPT ![t] = Idle]
  <2>1. Idle.own = x.own  BY <1>1, IdleIsOK
  <2>2. QED  BY <1>3, <1>6, <2>1, IdleIsOK, QuietKeeps DEF TakeTable
<1>7. QED  BY <1>4, <1>5, <1>6 DEF TakeTable

LEMMA ReadGraphKeeps ==
  ASSUME RegistryInv, Watch, NEW t \in Threads, ReadGraph(t)  PROVE  RegistryInv'
<1> DEFINE x == threads[t]
           r == [x EXCEPT !.pc = "store", !.graph = tables["graph"]]
<1>1. ThreadOK(x) /\ Owned(x, seen[t]) /\ ~x.own /\ x.pc = "graph" /\ tables["graph"] \in Nat
  BY ThreadIs DEF ReadGraph, ThreadOK, OwesALook, ThreadShape, RegistryInv, FieldsOK, Fields
<1>2. threads' = [threads EXCEPT ![t] = r]  BY DEF ReadGraph
<1>3. ThreadOK(r) /\ Owned(r, seen[t]) /\ r.own = x.own
  BY <1>1 DEF ThreadOK, ThreadShape, Places, OwesALook, Placed, Owned, Asks
<1> HIDE DEF r
<1>4. QED  BY <1>2, <1>3, LocksStay, QuietKeeps DEF ReadGraph

LEMMA StoreTableKeeps ==
  ASSUME RegistryInv, Watch, NEW t \in Threads, StoreTable(t)  PROVE  RegistryInv'
<1> DEFINE x == threads[t]
           f == Table(t)
<1>1. x.pc = "store" /\ x.graph \in Nat /\ threads' = WithTable(t, x.graph)
  BY ThreadIs DEF StoreTable, ThreadShape
<1>2. f \in Fields /\ f \in {"labels", "multi"}  BY DEF Table, Fields
<1>3. tables' = [tables EXCEPT ![f] = x.graph] /\ tables'[f] = x.graph
  BY <1>2 DEF StoreTable, RegistryInv, FieldsOK
<1>4. Asks(threads'[t]) => <<f, x.graph>> \in seen'[t]
  <2>1. <<f, x.graph>> \in Held'  BY <1>2, <1>3 DEF Held
  <2>2. QED  BY <2>1, Watched
<1>5. FieldsOK'  BY <1>1, <1>3, <1>2 DEF StoreTable, compiled, RegistryInv, FieldsOK
<1>6. UNCHANGED <<services, indexes, accessed, clock, built>>
  BY DEF StoreTable, resident, usage
<1>7. PICK r : /\ threads' = [threads EXCEPT ![t] = r]
               /\ ThreadOK(r) /\ Owned(r, seen'[t]) /\ r.own = x.own
  BY <1>1, <1>4, WithTableIsOK
<1>8. locks' \in [Ontologies -> Threads \cup {NoThread}]  BY LocksStay DEF StoreTable
<1>9. QED  BY <1>5, <1>6, <1>7, <1>8, FieldsStep

LEMMA ForgetKeeps ==
  ASSUME RegistryInv, Watch, NEW t \in Threads, Forget(t)  PROVE  RegistryInv'
<1> DEFINE x == threads[t]
           read == Append(x.read, 0)
           pc == IF x.read = <<>> THEN "forget" ELSE "done"
           r == [x EXCEPT !.read = read, !.pc = pc]
<1>1. ThreadOK(x) /\ ~x.own /\ x.kind = "translations" /\ read \in Seq(Nat)
  BY ThreadIs DEF Forget, ThreadOK, ThreadShape, OwesALook, Placed
<1>2. threads' = [threads EXCEPT ![t] = r]  BY DEF Forget
<1>3. pc \in {"forget", "done"}  OBVIOUS
<1> HIDE DEF read, pc
<1>4. ThreadOK(r) /\ Owned(r, seen[t]) /\ r.own = x.own
  BY <1>1, <1>3 DEF ThreadOK, ThreadShape, Places, OwesALook, Placed, Owned, Asks
<1> HIDE DEF r
<1>5. Owned(r, seen'[t])  BY <1>2, <1>4, OneThread, StillOwned
<1>6. FieldsOK'
  <2>1. Table(t) \in Fields  BY DEF Table, Fields
  <2>2. QED  BY <2>1 DEF Forget, compiled, RegistryInv, FieldsOK
<1>7. UNCHANGED <<services, indexes, accessed, clock, built>>  BY DEF Forget, resident, usage
<1>8. locks' \in [Ontologies -> Threads \cup {NoThread}]  BY LocksStay DEF Forget
<1>9. QED  BY <1>2, <1>4, <1>5, <1>6, <1>7, <1>8, FieldsStep

(* The steps of a reload move no thread.                                      *)
LEMMA ReloadKeeps ==
  ASSUME RegistryInv, Watch, Reload \/ Rebind  PROVE  RegistryInv'
<1>1. UNCHANGED <<services, indexes, accessed, clock, locks, threads, built, union>>
  BY DEF Reload, Rebind, resident, usage, compiled
<1>2. FieldsOK'
  <2>1. CASE Reload
    <3>1. <<"labels", "multi", "graph">> \in Seq(Fields)  BY DEF Fields
    <3>2. QED  BY <1>1, <2>1, <3>1 DEF Reload, RegistryInv, FieldsOK
  <2>2. CASE Rebind
    <3>1. rebind \in Seq(Fields) /\ rebind # <<>>  BY <2>2 DEF Rebind, RegistryInv, FieldsOK
    <3>2. Head(rebind) \in Fields /\ Tail(rebind) \in Seq(Fields)  BY <3>1
    <3>3. QED  BY <1>1, <2>2, <3>2 DEF Rebind, RegistryInv, FieldsOK
  <2>3. QED  BY <2>1, <2>2
<1>3. ASSUME NEW u \in Threads
      PROVE  /\ ThreadOK(threads[u])' /\ Owned(threads'[u], seen'[u])
             /\ Asks(threads'[u]) => Held' \subseteq seen'[u]
  BY <1>1, ThreadIs, StillOwned, Watched DEF ThreadOK, OwesALook, Placed
<1>4. SeenOK'  BY <1>3 DEF SeenOK, Owned, Asks
<1>5. UnderCeiling'  BY <1>1 DEF RegistryInv, UnderCeiling, Resident
<1>6. RegistryTypeOK'  BY <1>1 DEF RegistryInv, RegistryTypeOK
<1>7. QED  BY <1>1, <1>2, <1>3, <1>4, <1>5, <1>6 DEF RegistryInv

-----------------------------------------------------------------------------
(* What is cached is handed out if it is what was read.                       *)
LEMMA Fitted == \A ruler, read : Fitting(ruler, read) = read
BY DEF Fitting, Fits

LEMMA CompileKeeps ==
  ASSUME RegistryInv, Watch, NEW t \in Threads, Compile(t)  PROVE  RegistryInv'
<1> DEFINE x == threads[t]
           pc == IF x.kind = "union" THEN "check" ELSE "done"
           r == [x EXCEPT !.read = x.read, !.pc = pc]
<1>1. ThreadOK(x) /\ Owned(x, seen[t]) /\ ~x.own /\ x.pc = "ruler"
  BY ThreadIs DEF ThreadOK, ThreadShape, OwesALook, Compile
<1>2. threads' = [threads EXCEPT ![t] = r]  BY Fitted DEF Compile
<1>3. pc \in {"check", "done"} /\ (pc = "check" <=> x.kind = "union")  OBVIOUS
<1> HIDE DEF pc
<1>4. ThreadOK(r) /\ Owned(r, seen[t]) /\ r.own = x.own
  BY <1>1, <1>3 DEF ThreadOK, ThreadShape, Places, OwesALook, Placed, Owned, Asks
<1> HIDE DEF r
<1>5. Owned(r, seen'[t])  BY <1>2, <1>4, OneThread, StillOwned
<1>6. FieldsOK' /\ UNCHANGED <<services, indexes, accessed, clock, built>>
  BY FieldsStay DEF Compile, resident, usage
<1>7. locks' \in [Ontologies -> Threads \cup {NoThread}]  BY LocksStay DEF Compile
<1>8. QED  BY <1>2, <1>4, <1>5, <1>6, <1>7, FieldsStep

LEMMA Appended ==
  ASSUME NEW s \in Seq(Nat), NEW v \in Nat
  PROVE  LET read == Append(s, v)
         IN  /\ read \in Seq(Nat) /\ Len(read) = Len(s) + 1
             /\ read[Len(s) + 1] = v /\ \A i \in 1..Len(s) : read[i] = s[i]
OBVIOUS

(* The union's labels are in one of the fields that everybody watches.        *)
LEMMA CheckKeeps ==
  ASSUME RegistryInv, Watch, NEW t \in Threads, CheckUnion(t)  PROVE  RegistryInv'
<1> DEFINE x == threads[t]
           read == Append(x.read, union.labels)
<1>1. /\ ThreadOK(x) /\ Owned(x, seen[t]) /\ ~x.own /\ x.kind = "union" /\ x.pc = "check"
      /\ x.read \in Seq(Nat) /\ Len(x.read) = 2
  BY ThreadIs DEF ThreadOK, ThreadShape, OwesALook, Placed, CheckUnion
<1>2. CASE threads' = [threads EXCEPT ![t] = [x EXCEPT !.pc = "weave", !.read = read]]
  <2> DEFINE r == [x EXCEPT !.pc = "weave", !.read = read]
  <2>1. /\ read \in Seq(Nat) /\ Len(read) = 3 /\ DOMAIN read = 1..3 /\ read[3] = union.labels
        /\ \A i \in 1..2 : read[i] = x.read[i]
    <3>1. union.labels \in Nat  BY DEF RegistryInv, FieldsOK, UnionShape
    <3>2. LET n == Len(x.read)
          IN  /\ read \in Seq(Nat) /\ Len(read) = n + 1
              /\ read[n + 1] = union.labels /\ \A i \in 1..n : read[i] = x.read[i]
      BY <1>1, <3>1, Appended
    <3> HIDE DEF x, read
    <3>3. QED  BY <1>1, <3>2
  <2> HIDE DEF read
  <2>2. /\ r \in ThreadShape /\ r.pc = "weave" /\ r.kind = x.kind /\ r.on = x.on
        /\ r.own = x.own /\ r.read = read
    BY <1>1, <2>1 DEF ThreadOK, ThreadShape, Places
  <2> HIDE DEF r
  <2>3. ThreadOK(r)  BY <1>1, <2>1, <2>2 DEF ThreadOK, OwesALook, Placed
  <2>4. Owned(r, seen[t])
    <3>1. ASSUME NEW i \in 1..3  PROVE  \E f \in FieldsOf(i) : <<f, read[i]>> \in seen[t]
      <4>1. CASE i = 3
        <5>1. <<"union", union.labels>> \in seen[t]  BY <1>1, ThreadIs DEF Held, Asks
        <5>2. "union" \in FieldsOf(3)  BY DEF FieldsOf
        <5>3. QED  BY <2>1, <4>1, <5>1, <5>2
      <4>2. CASE i \in 1..2
        <5>1. DOMAIN x.read = 1..2  BY <1>1
        <5>2. \E f \in FieldsOf(i) : <<f, x.read[i]>> \in seen[t]
          BY <1>1, <4>2, <5>1 DEF Owned, Asks
        <5>3. QED  BY <2>1, <4>2, <5>2
      <4>3. QED  BY <4>1, <4>2
    <3>2. QED  BY <2>1, <2>2, <3>1 DEF Owned
  <2>5. QED  BY <1>2, <2>2, <2>3, <2>4, LocksStay, QuietKeeps DEF CheckUnion, r
<1>3. CASE threads' = [threads EXCEPT ![t] = [x EXCEPT !.pc = "look"]]
  <2>1. LET r == [x EXCEPT !.pc = "look"]
        IN  ThreadOK(r) /\ Owned(r, seen[t]) /\ r.own = x.own
    BY <1>1, Moved
  <2>2. QED  BY <1>3, <2>1, LocksStay, QuietKeeps DEF CheckUnion
<1>4. QED  BY <1>2, <1>3 DEF CheckUnion, Goto

LEMMA GatherKeeps ==
  ASSUME RegistryInv, Watch, NEW t \in Threads, Gather(t)  PROVE  RegistryInv'
<1> DEFINE x == threads[t]
           r == [x EXCEPT !.pc = "weave"]
<1>1. /\ ThreadOK(x) /\ Owned(x, seen[t]) /\ ~x.own /\ x.kind = "union"
      /\ x.read \in Seq(Nat) /\ Len(x.read) = 3
  BY ThreadIs DEF ThreadOK, ThreadShape, OwesALook, Placed, Gather
<1>2. threads' = [threads EXCEPT ![t] = r]  BY DEF Gather, Goto
<1>3. ThreadOK(r) /\ Owned(r, seen[t]) /\ r.own = x.own
  BY <1>1 DEF ThreadOK, ThreadShape, Places, OwesALook, Placed, Owned, Asks
<1> HIDE DEF r
<1>4. Owned(r, seen'[t])  BY <1>2, <1>3, OneThread, StillOwned
<1>5. FieldsOK'
  <2>1. x.read[3] \in Nat  BY <1>1
  <2>2. Both \in Nat \X Nat
    BY RegistryAssumption DEF Both, RegistryInv, RegistryTypeOK
  <2>3. union' = union \/ union' = [union EXCEPT !.of = Both, !.labels = x.read[3]]
    BY DEF Gather
  <2> HIDE DEF x
  <2>4. union' \in UnionShape  BY <2>1, <2>2, <2>3 DEF RegistryInv, FieldsOK, UnionShape
  <2>5. QED  BY <2>4 DEF Gather, derived, RegistryInv, FieldsOK
<1>6. UNCHANGED <<services, indexes, accessed, clock, built>>  BY DEF Gather, resident, usage
<1>7. locks' \in [Ontologies -> Threads \cup {NoThread}]  BY LocksStay DEF Gather
<1>8. QED  BY <1>2, <1>3, <1>4, <1>5, <1>6, <1>7, FieldsStep

LEMMA WeaveKeeps ==
  ASSUME RegistryInv, Watch, NEW t \in Threads, Weave(t)  PROVE  RegistryInv'
<1> DEFINE x == threads[t]
           r == [x EXCEPT !.pc = "done", !.read = x.read]
<1>1. ThreadOK(x) /\ Owned(x, seen[t]) /\ ~x.own /\ x.pc = "weave" /\ x.read \in Seq(Nat)
  BY ThreadIs DEF ThreadOK, ThreadShape, OwesALook, Weave
<1>2. threads' = [threads EXCEPT ![t] = r] /\ union' = [union EXCEPT !.ruler = x.read]
  BY Fitted DEF Weave
<1>3. ThreadOK(r) /\ Owned(r, seen[t]) /\ r.own = x.own
  BY <1>1 DEF ThreadOK, ThreadShape, Places, OwesALook, Placed, Owned, Asks
<1> HIDE DEF r
<1>4. Owned(r, seen'[t])  BY <1>2, <1>3, OneThread, StillOwned
<1>5. FieldsOK'
  BY <1>1, <1>2 DEF Weave, derived, RegistryInv, FieldsOK, UnionShape
<1>6. UNCHANGED <<services, indexes, accessed, clock, built>>  BY DEF Weave, resident, usage
<1>7. locks' \in [Ontologies -> Threads \cup {NoThread}]  BY LocksStay DEF Weave
<1>8. QED  BY <1>2, <1>3, <1>4, <1>5, <1>6, <1>7, FieldsStep

-----------------------------------------------------------------------------
(* Services and indexes come and go.  Where one that has its service goes.    *)
LEMMA GoesOn ==
  ASSUME RegistryInv, NEW t \in Threads, threads[t].pc \in {"touch", "evict"},
         NEW own \in BOOLEAN, NEW pc, pc = Served(t) \/ pc = "evict", own => pc = "evict"
  PROVE  LET r == [threads[t] EXCEPT !.pc = pc, !.own = own]
         IN  ThreadOK(r) /\ Owned(r, seen[t]) /\ r.own = own
<1> DEFINE x == threads[t]
<1>1. ThreadOK(x) /\ Owned(x, seen[t])  BY ThreadIs
<1>2. /\ pc \in {"await", "table", "gather", "forget", "idle", "evict"}
      /\ pc = "await" => x.kind = "index"
      /\ pc = "table" => x.kind # "union" \/ x.on = Default
      /\ pc = "gather" => x.kind = "union" /\ x.on # Default
      /\ pc = "forget" => x.kind = "translations"
  BY DEF Served
<1>3. pc = "idle" => x.kind = "service"
  BY <1>1 DEF Served, ThreadOK, ThreadShape, Kinds
<1> DEFINE r == [x EXCEPT !.pc = pc, !.own = own]
<1>4. /\ r.pc = pc /\ r.own = own /\ r.kind = x.kind /\ r.on = x.on /\ r.read = x.read
      /\ r \in ThreadShape
  BY <1>1, <1>2 DEF ThreadOK, ThreadShape, Places
<1>5. Owned(r, seen[t])  BY <1>1, <1>4 DEF Owned, Asks
<1>6. x.kind = "union" /\ x.on # Default => Len(x.read) = 3  BY <1>1 DEF ThreadOK, Placed
<1>7. Placed(r)
  <2> HIDE DEF r, x
  <2>1. QED  BY <1>2, <1>3, <1>4, <1>6 DEF Placed
<1>8. OwesALook(r)  BY <1>4 DEF OwesALook
<1>9. QED  BY <1>4, <1>5, <1>7, <1>8 DEF ThreadOK

LEMMA TouchKeeps ==
  ASSUME RegistryInv, Watch, NEW t \in Threads, Touch(t)  PROVE  RegistryInv'
<1> DEFINE x == threads[t]
           pc == IF x.own THEN "evict" ELSE Served(t)
           r == [x EXCEPT !.pc = pc, !.own = x.own]
<1>1. threads' = [threads EXCEPT ![t] = r]
  <2>1. r = [x EXCEPT !.pc = pc]  BY ThreadIs DEF ThreadShape
  <2>2. QED  BY <2>1 DEF Touch, Goto
<1>2. ThreadOK(r) /\ Owned(r, seen[t]) /\ r.own = x.own
  <2>1. x.own \in BOOLEAN /\ x.pc = "touch"  BY ThreadIs DEF Touch
  <2>2. QED  BY <2>1, GoesOn
<1> HIDE DEF pc, r
<1>3. Owned(r, seen'[t])  BY <1>1, <1>2, OneThread, StillOwned
<1>4. /\ \/ UNCHANGED <<clock, accessed>>
         \/ clock' = clock + 1 /\ accessed' = [accessed EXCEPT ![x.on] = clock + 1]
      /\ UNCHANGED <<services, indexes, locks, built, derived, union>>
  BY DEF Touch, resident, compiled, usage
<1>5. UnderCeiling'  BY <1>1, <1>2, <1>4, StillUnder
<1>6. clock' \in Nat /\ accessed' \in [Ontologies -> 0..clock']
  <2>1. clock \in Nat /\ accessed \in [Ontologies -> 0..clock] /\ x.on \in Ontologies
    BY ThreadIs DEF RegistryInv, RegistryTypeOK
  <2>2. CASE UNCHANGED <<clock, accessed>>  BY <2>1, <2>2
  <2>3. CASE clock' = clock + 1 /\ accessed' = [accessed EXCEPT ![x.on] = clock + 1]
    BY <2>1, <2>3
  <2>4. QED  BY <1>4, <2>2, <2>3
<1>7. RegistryTypeOK' /\ built' \in Nat  BY <1>4, <1>6 DEF RegistryInv, RegistryTypeOK
<1>8. FieldsOK'  BY <1>4, FieldsStay
<1>9. QED  BY <1>1, <1>2, <1>3, <1>5, <1>6, <1>7, <1>8, StepKeeps

(* A thread that has stored what it has built owes a look at the ceiling; one *)
(* that has found the thing there has added nothing.                          *)
LEMMA StoreKeeps ==
  ASSUME RegistryInv, NEW t \in Threads, NEW r, threads' = [threads EXCEPT ![t] = r],
         threads[t].own = FALSE, r.own \/ (r.own = FALSE /\ UNCHANGED <<services, indexes>>)
  PROVE  UnderCeiling'
<1>1. CASE r.own
  <2>1. threads'[t] = r  BY OneThread
  <2>2. ~(\A u \in Threads : ~threads'[u].own)  BY <1>1, <2>1
  <2>3. QED  BY <2>2 DEF UnderCeiling
<1>2. CASE r.own = FALSE /\ UNCHANGED <<services, indexes>>  BY <1>2, StillUnder
<1>3. QED  BY <1>1, <1>2

LEMMA BuildKeeps ==
  ASSUME RegistryInv, Watch, NEW t \in Threads, Build(t)  PROVE  RegistryInv'
<1> DEFINE x == threads[t]
           r == [x EXCEPT !.pc = "touch", !.own = services[x.on] = 0]
<1>1. threads' = [threads EXCEPT ![t] = r] /\ x.pc = "build"  BY DEF Build
<1>2. ThreadOK(x) /\ Owned(x, seen[t]) /\ x.own = FALSE
  BY <1>1, ThreadIs DEF ThreadOK, ThreadShape, OwesALook
<1>3. r.own = (services[x.on] = 0)  BY <1>2 DEF ThreadOK, ThreadShape
<1>4. ThreadOK(r) /\ Owned(r, seen[t])
  BY <1>2 DEF ThreadOK, ThreadShape, Places, OwesALook, Placed, Owned, Asks
<1> HIDE DEF r
<1>5. Owned(r, seen'[t])  BY <1>1, <1>4, OneThread, StillOwned
<1>6. /\ built' \in Nat /\ services' \in [Ontologies -> 0..built']
      /\ services[x.on] = 0 \/ UNCHANGED services
      /\ UNCHANGED <<indexes, accessed, clock, derived, union>>
  <2>1. services \in [Ontologies -> 0..built] /\ built \in Nat
    BY DEF RegistryInv, RegistryTypeOK
  <2>2. CASE services[x.on] = 0
    <3>1. built' = built + 1 /\ services' = [services EXCEPT ![x.on] = built + 1]
      BY <2>2 DEF Build
    <3>2. built' \in Nat /\ services' \in [Ontologies -> 0..built']
      BY <2>1, <3>1, ThreadIs
    <3>3. QED  BY <2>2, <3>2 DEF Build, usage, compiled
  <2>3. CASE services[x.on] # 0
    <3>1. UNCHANGED <<built, services>>  BY <2>3 DEF Build
    <3>2. QED  BY <2>1, <3>1 DEF Build, usage, compiled
  <2>4. QED  BY <2>2, <2>3
<1>7. locks' \in [Ontologies -> Threads \cup {NoThread}]
  BY ThreadIs DEF Build, Released, RegistryInv, RegistryTypeOK
<1>8. UnderCeiling'  BY <1>1, <1>2, <1>3, <1>6, StoreKeeps
<1>9. RegistryTypeOK' /\ clock' \in Nat  BY <1>6, <1>7 DEF RegistryInv, RegistryTypeOK
<1>10. FieldsOK'  BY <1>6, FieldsStay
<1>11. QED  BY <1>1, <1>4, <1>5, <1>6, <1>8, <1>9, <1>10, StepKeeps

LEMMA IndexKeeps ==
  ASSUME RegistryInv, Watch, NEW t \in Threads, NEW ok \in BOOLEAN, IndexBuild(t, ok)
  PROVE  RegistryInv'
<1> DEFINE x == threads[t]
           r == [Idle EXCEPT !.pc = "touch", !.on = x.on, !.own = TRUE]
<1>1. threads' = [threads EXCEPT ![t] = r] /\ x.pc = "encode"  BY DEF IndexBuild
<1>2. x.own = FALSE /\ x.on \in Ontologies
  BY <1>1, ThreadIs DEF ThreadOK, ThreadShape, OwesALook
<1>3. r.own  BY DEF Idle
<1>4. ThreadOK(r) /\ Owned(r, seen[t])
  <2>1. <<>> \in Seq(Nat) /\ "touch" \in Places  BY DEF Places
  <2>2. QED  BY <1>2, <2>1 DEF Idle, ThreadOK, ThreadShape, OwesALook, Placed, Owned, Asks
<1> HIDE DEF r
<1>5. Owned(r, seen'[t])  BY <1>1, <1>4, OneThread, StillOwned
<1>6. /\ indexes' \in [Ontologies -> {"none", "built", "empty"}]
      /\ UNCHANGED <<services, accessed, clock, built, derived, union>>
  BY ThreadIs DEF IndexBuild, RegistryInv, RegistryTypeOK, usage, compiled
<1>7. locks' \in [Ontologies -> Threads \cup {NoThread}]
  BY ThreadIs DEF IndexBuild, Released, RegistryInv, RegistryTypeOK
<1>8. UnderCeiling'  BY <1>1, <1>2, <1>3, StoreKeeps
<1>9. RegistryTypeOK' /\ built' \in Nat /\ clock' \in Nat
  BY <1>6, <1>7 DEF RegistryInv, RegistryTypeOK
<1>10. FieldsOK'  BY <1>6, FieldsStay
<1>11. QED  BY <1>1, <1>4, <1>5, <1>8, <1>9, <1>10, StepKeeps

(* Whoever looks leaves no more than the ceiling allows.                      *)
LEMMA EvictKeeps ==
  ASSUME RegistryInv, Watch, NEW t \in Threads, Evict(t)  PROVE  RegistryInv'
<1> DEFINE x == threads[t]
           r == [x EXCEPT !.pc = Served(t), !.own = FALSE]
<1>1. threads' = [threads EXCEPT ![t] = r] /\ x.pc = "evict"  BY DEF Evict
<1>2. ThreadOK(r) /\ Owned(r, seen[t])  BY <1>1, GoesOn
<1> HIDE DEF r
<1>3. Owned(r, seen'[t])  BY <1>1, <1>2, OneThread, StillOwned
<1>4. PICK gone \in Victims :
        /\ services' = [o \in Ontologies |-> IF o \in gone THEN 0 ELSE services[o]]
        /\ indexes' = [o \in Ontologies |-> IF o \in gone THEN "none" ELSE indexes[o]]
        /\ accessed' = [o \in Ontologies |-> IF o \in gone THEN 0 ELSE accessed[o]]
  BY DEF Evict
<1>5. UNCHANGED <<clock, locks, built, derived, union>>  BY DEF Evict, compiled
<1>6. Cardinality(Resident') <= Ceiling
  <2>1. Resident' = Resident \ gone  BY <1>4 DEF Resident, RegistryInv, RegistryTypeOK
  <2>2. IsFiniteSet(Ontologies \ {Default}) /\ Resident \subseteq Ontologies \ {Default}
    BY RegistryAssumption, FS_RemoveElement DEF Resident
  <2>3. Cardinality(Resident) \in Nat  BY <2>2, FS_Subset, FS_CardinalityType
  <2>4. Cardinality(Resident \ gone) = (IF Cardinality(Resident) > Ceiling THEN Ceiling
                                        ELSE Cardinality(Resident))
    BY <1>4 DEF Victims
  <2>5. QED  BY <2>1, <2>3, <2>4, RegistryAssumption
<1>7. UnderCeiling'  BY <1>6 DEF UnderCeiling
<1>8. RegistryTypeOK' /\ built' \in Nat /\ clock' \in Nat
  BY <1>4, <1>5 DEF RegistryInv, RegistryTypeOK
<1>9. FieldsOK'  BY <1>5, FieldsStay
<1>10. QED  BY <1>1, <1>2, <1>3, <1>7, <1>8, <1>9, StepKeeps

-----------------------------------------------------------------------------
LEMMA RegistryStarts == Init => RegistryInv
<1> SUFFICES ASSUME Init  PROVE RegistryInv  OBVIOUS
<1>1. RegistryTypeOK /\ built \in Nat /\ clock \in Nat  BY DEF Init, RegistryTypeOK
<1>2. FieldsOK
  <2>1. <<>> \in Seq(Nat) /\ <<>> \in Seq(Fields)  OBVIOUS
  <2>2. QED  BY <2>1 DEF Init, FieldsOK, NoUnion, UnionShape
<1>3. UnderCeiling
  <2>1. Resident = {}  BY DEF Init, Resident
  <2>2. QED  BY <2>1, FS_EmptySet, RegistryAssumption DEF UnderCeiling
<1>4. SeenOK
  <2>1. \A t \in Threads : threads[t] = Idle  BY DEF Init
  <2>2. ~Asks(Idle)  BY DEF Idle, Asks
  <2>3. QED  BY <2>1, <2>2, IdleIsOK DEF SeenOK
<1>5. QED  BY <1>1, <1>2, <1>3, <1>4, IdleIsOK DEF RegistryInv, Init

LEMMA RegistryStep == RegistryInv /\ [Next]_vars => RegistryInv'
<1> SUFFICES ASSUME RegistryInv, [Next]_vars  PROVE RegistryInv'  OBVIOUS
<1>1. ASSUME NEW t \in Threads, Step(t)  PROVE RegistryInv'
  BY <1>1, LookKeeps, LockKeeps, BuildKeeps, TouchKeeps, EvictKeeps, FindKeeps, AwaitKeeps,
     IndexKeeps, FindTableKeeps, TakeTableKeeps, ReadGraphKeeps, StoreTableKeeps, ForgetKeeps,
     CompileKeeps, CheckKeeps, GatherKeeps, WeaveKeeps, FinishKeeps
  DEF Step, Move
<1>2. ASSUME NEW t \in Threads, NEW o \in Ontologies, NEW kind \in {"index", "ruler"},
             Request(t, kind, o), Watch
      PROVE  RegistryInv'
  BY <1>2, RequestKeepsThreads DEF Kinds
<1>3. ASSUME NEW t \in Threads, NEW kind \in {"union", "translations"},
             Request(t, kind, Default), Watch
      PROVE  RegistryInv'
  BY <1>3, RequestKeepsThreads, RegistryAssumption DEF Kinds
<1>4. CASE (Reload \/ Rebind) /\ Watch  BY <1>4, ReloadKeeps
<1>5. CASE UNCHANGED vars
  BY <1>5 DEF vars, resident, usage, derived, compiled, RegistryInv, RegistryTypeOK, FieldsOK,
     UnderCeiling, Resident, SeenOK, Owned, Asks, Held, ThreadOK, OwesALook, Placed
<1>6. QED  BY <1>1, <1>2, <1>3, <1>4, <1>5 DEF Next

(* The invariant that the two theorems read off                               *)
THEOREM RegistryInvariant == Spec => []RegistryInv
BY RegistryStarts, RegistryStep, PTL DEF Spec

(* Whenever no thread has stored what it has built and not looked at the      *)
(* ceiling yet, no more ontologies are resident beside the default than the   *)
(* ceiling allows, for any number of threads and ontologies.                  *)
(* (_evict_if_needed)                                                         *)
THEOREM CeilingIsKept == Spec => []CeilingHolds
<1>1. RegistryInv => CeilingHolds
  BY DEF RegistryInv, UnderCeiling, CeilingHolds, Resident
<1>2. QED  BY <1>1, RegistryInvariant, PTL

(* The caches of rulers add no age of their own: the tables a ruler that is   *)
(* handed out was compiled of were the default's at some moment since it was  *)
(* asked for, and the union's its own or such a table, for any number of      *)
(* threads, reloads, changes of the setting and tables stored late.           *)
(* (_get_ruler_bundle, _get_union_ruler_bundle)                               *)
THEOREM RulersNeverStale == Spec => []RulerNotStale
<1>1. RegistryInv => RulerNotStale
  <2>1. SUFFICES ASSUME RegistryInv, NEW t \in Threads, threads[t].pc = "done",
                        Asks(threads[t])
                 PROVE  /\ Len(threads[t].read) >= 2
                        /\ <<"labels", threads[t].read[1]>> \in seen[t]
                        /\ <<"multi", threads[t].read[2]>> \in seen[t]
                        /\ threads[t].kind = "union" =>
                             \E f \in {"multi", "union"} : <<f, threads[t].read[3]>> \in seen[t]
    BY DEF RulerNotStale, Asks
  <2> DEFINE x == threads[t]
  <2>2. /\ x.read \in Seq(Nat) /\ Owned(x, seen[t])
        /\ Len(x.read) \in {2, 3}
    BY <2>1, ThreadIs DEF ThreadOK, Placed, Asks
  <2>3. x.kind = "union" => Len(x.read) = 3  BY <2>1, ThreadIs DEF ThreadOK, Placed
  <2>4. \A i \in DOMAIN x.read : \E f \in FieldsOf(i) : <<f, x.read[i]>> \in seen[t]
    BY <2>1, <2>2 DEF Owned
  <2>5. 1 \in DOMAIN x.read /\ 2 \in DOMAIN x.read /\ (x.kind = "union" => 3 \in DOMAIN x.read)
    BY <2>2, <2>3
  <2>6. FieldsOf(1) = {"labels"} /\ FieldsOf(2) = {"multi"} /\ FieldsOf(3) = {"multi", "union"}
    BY DEF FieldsOf
  <2>7. <<"labels", x.read[1]>> \in seen[t] /\ <<"multi", x.read[2]>> \in seen[t]
    BY <2>4, <2>5, <2>6
  <2>8. x.kind = "union" => \E f \in {"multi", "union"} : <<f, x.read[3]>> \in seen[t]
    BY <2>4, <2>5, <2>6
  <2>9. QED  BY <2>2, <2>7, <2>8
<1>2. QED  BY <1>1, RegistryInvariant, PTL
=============================================================================
