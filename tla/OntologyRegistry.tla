-------------------------- MODULE OntologyRegistry --------------------------
(* The ontologies in memory, shared by the worker threads of all jobs: built  *)
(* on demand behind a lock of each, evicted by least recent use, and what is  *)
(* derived from their graphs and cached: the tables of labels, the rulers     *)
(* compiled from them, and the labels and the ruler of the union of two.      *)
(*                                                                            *)
(* A thread can be suspended between any two accesses to what it shares, so   *)
(* each access is a step; what a thread does while it holds a lock and only   *)
(* the lock's holders can see is one with the release.                        *)
(*                                                                            *)
(* Simplifications: a table of labels is the version of the graph it was      *)
(* taken from, and a service comes with its graph; only the default's graph   *)
(* is ever replaced, so the tables of another ontology are of one version     *)
(* whoever builds them; what a reload builds on its scratch service is seen   *)
(* by nobody before it is rebound, and of the six fields it rebinds the three *)
(* that labels come from are kept.  Lemmas, properties' labels and the setting *)
(* that a table with translations depends on are not told apart, the union's  *)
(* single labels not from its multiple ones.  The locks that are held for a   *)
(* dictionary access only, the shared model, the disk cache of the vectors    *)
(* and the index of the overlap, which is built as the union's labels are,    *)
(* are left out, and so is when the default was used last, since it stays.    *)
(* A definition marked "broken" is a defect that no specification uses.       *)
EXTENDS Integers, FiniteSets, Sequences

CONSTANTS Threads, NoThread,
          Ontologies, Default, Partner,  \* the union is that of the last two
          Ceiling,                       \* max_resident_ontologies
          MaxRequests, MaxReloads        \* bounds

ASSUME RegistryAssumption ==
  /\ NoThread \notin Threads
  /\ IsFiniteSet(Ontologies)
  /\ {Default, Partner} \subseteq Ontologies /\ Default # Partner
  /\ Ceiling \in Nat

VARIABLES services,  \* the number of the resident service; 0: not resident
          indexes,   \* "none", "built" or "empty", when the build has failed
          built,     \* services built so far
          accessed,  \* _last_access: when it was used last; 0: not in the dictionary
          clock,     \* time.monotonic(), read once per access
          locks,     \* the holder of an ontology's lock
          threads,   \* what each thread is at
          tables,    \* the default's graph and its label tables; 0: not built yet
          versions,  \* graphs loaded so far
          rebind,    \* what a reload has still to rebind
          rulers,    \* the versions of the two tables a ruler was compiled from
          union,     \* the union's labels, whose they are, and its ruler
          seen,      \* history: what was in each field since a thread's request
          requests

resident == <<services, indexes, built>>
usage    == <<accessed, clock>>
derived  == <<tables, versions, rebind>>
compiled == <<rulers, union>>
vars == <<resident, usage, locks, threads, derived, compiled, seen, requests>>

-----------------------------------------------------------------------------
\* A request for the service alone is the first part of each of these; the last
\* is the setting that makes the default forget its tables.
Kinds == {"index", "ruler", "union", "translations"}

\* `own': it has stored what it built and not looked at the ceiling yet; `graph':
\* the one it builds a table from; `read': the tables it has, then those of what
\* it hands out.
Idle == [pc |-> "idle", kind |-> "service", on |-> Default, own |-> FALSE,
         graph |-> 0, read |-> <<>>]

Fields  == {"graph", "labels", "multi"}
NoUnion == [of |-> <<0, 0>>, labels |-> 0, ruler |-> <<>>]

Held == {<<"labels", tables["labels"]>>, <<"multi", tables["multi"]>>, <<"union", union.labels>>}

\* Whoever waits for labels or a ruler made of the default's tables may be given
\* what is in a field now.
Asks(r) == r.kind = "union" \/ (r.kind = "ruler" /\ r.on = Default)

Watch == seen' = [t \in Threads |-> IF Asks(threads'[t]) THEN seen[t] \cup Held' ELSE {}]

Init ==
  /\ services = [o \in Ontologies |-> 0] /\ indexes = [o \in Ontologies |-> "none"]
  /\ accessed = [o \in Ontologies |-> 0] /\ clock = 0
  /\ locks = [o \in Ontologies |-> NoThread]
  /\ threads = [t \in Threads |-> Idle]
  /\ built = 0 /\ versions = 1 /\ rebind = <<>>
  /\ tables = [f \in Fields |-> IF f = "graph" THEN 1 ELSE 0]
  /\ rulers = [o \in Ontologies |-> <<>>] /\ union = NoUnion
  /\ seen = [t \in Threads |-> {}] /\ requests = 0

Goto(t, pc) == threads' = [threads EXCEPT ![t].pc = pc]

-----------------------------------------------------------------------------
\* An index or a ruler of one ontology or the union
Request(t, kind, o) ==
  /\ threads[t].pc = "idle" /\ requests < MaxRequests
  /\ requests' = requests + 1
  /\ threads' = [threads EXCEPT ![t] =
       [Idle EXCEPT !.pc = IF kind = "index" THEN "find" ELSE "look", !.kind = kind, !.on = o]]
  /\ UNCHANGED <<resident, usage, locks, derived, compiled>>

\* get_service: without the lock first, then again with it
Look(t) ==
  /\ threads[t].pc = "look"
  /\ Goto(t, IF services[threads[t].on] # 0 THEN "touch" ELSE "lock")
  /\ UNCHANGED <<resident, usage, locks, derived, compiled, requests>>

Lock(t) ==
  /\ threads[t].pc = "lock" /\ locks[threads[t].on] = NoThread
  /\ locks' = [locks EXCEPT ![threads[t].on] = t]
  /\ Goto(t, "build")
  /\ UNCHANGED <<resident, usage, derived, compiled, requests>>

ReleasedWhen(o, ok) ==                   \* broken: a build that fails keeps the lock
  IF ok THEN [locks EXCEPT ![o] = NoThread] ELSE locks

Released(o, ok) == [locks EXCEPT ![o] = NoThread]

Build(t) ==
  LET o == threads[t].on
  IN  /\ threads[t].pc = "build"
      /\ IF services[o] = 0
         THEN /\ built' = built + 1
              /\ services' = [services EXCEPT ![o] = built + 1]
         ELSE UNCHANGED <<built, services>>
      /\ threads' = [threads EXCEPT ![t].pc = "touch", ![t].own = services[o] = 0]
      /\ locks' = Released(o, TRUE)
      /\ UNCHANGED <<indexes, usage, derived, compiled, requests>>

\* What a request does when it has its service
Served(t) ==
  CASE threads[t].kind = "index" -> "await"
    [] threads[t].kind = "ruler" -> "table"
    [] threads[t].kind = "union" -> IF threads[t].on = Default THEN "table" ELSE "gather"
    [] threads[t].kind = "translations" -> "forget"
    [] OTHER -> "idle"

Touch(t) ==
  /\ threads[t].pc = "touch"
  /\ IF threads[t].on = Default THEN UNCHANGED usage
     ELSE /\ clock' = clock + 1
          /\ accessed' = [accessed EXCEPT ![threads[t].on] = clock + 1]
  /\ Goto(t, IF threads[t].own THEN "evict" ELSE Served(t))
  /\ UNCHANGED <<resident, locks, derived, compiled, requests>>

ServicesOnly ==                          \* broken: an index alone counts as nothing
  {o \in Ontologies \ {Default} : services[o] # 0}

Resident == {o \in Ontologies \ {Default} : services[o] # 0 \/ indexes[o] # "none"}

Victims == {gone \in SUBSET Resident :
              /\ Cardinality(Resident \ gone) = (IF Cardinality(Resident) > Ceiling
                                                 THEN Ceiling ELSE Cardinality(Resident))
              /\ \A o \in gone, p \in Resident \ gone : accessed[o] <= accessed[p]}

\* Down to the ceiling; the default stays.
Evict(t) ==
  /\ threads[t].pc = "evict"
  /\ \E gone \in Victims :
       /\ services' = [o \in Ontologies |-> IF o \in gone THEN 0 ELSE services[o]]
       /\ indexes' = [o \in Ontologies |-> IF o \in gone THEN "none" ELSE indexes[o]]
       /\ accessed' = [o \in Ontologies |-> IF o \in gone THEN 0 ELSE accessed[o]]
  /\ threads' = [threads EXCEPT ![t].pc = Served(t), ![t].own = FALSE]
  /\ UNCHANGED <<clock, locks, built, derived, compiled, requests>>

-----------------------------------------------------------------------------
\* get_embedding_service: the service comes first, outside the lock
HasIndex(t) == [threads EXCEPT ![t].pc = "touch", ![t].kind = "service"]

Find(t) ==
  /\ threads[t].pc = "find"
  /\ IF indexes[threads[t].on] # "none" THEN threads' = HasIndex(t) ELSE Goto(t, "look")
  /\ UNCHANGED <<resident, usage, locks, derived, compiled, requests>>

\* Looked for again under the lock, which is let go at once if it is there now
Await(t) ==
  LET o == threads[t].on
  IN  /\ threads[t].pc = "await" /\ locks[o] = NoThread
      /\ IF indexes[o] # "none" THEN threads' = HasIndex(t) /\ UNCHANGED locks
         ELSE Goto(t, "table") /\ locks' = [locks EXCEPT ![o] = t]
      /\ UNCHANGED <<resident, usage, derived, compiled, requests>>

\* A build that fails leaves an empty index, and raises nothing.
IndexBuild(t, ok) ==
  LET o == threads[t].on
  IN  /\ threads[t].pc = "encode" /\ (ok => threads[t].read # <<>>)
      /\ indexes' = [indexes EXCEPT ![o] = IF ok THEN "built" ELSE "empty"]
      /\ threads' = [threads EXCEPT ![t] = [Idle EXCEPT !.pc = "touch", !.on = o, !.own = TRUE]]
      /\ locks' = Released(o, ok)
      /\ UNCHANGED <<services, built, usage, derived, compiled, requests>>

-----------------------------------------------------------------------------
\* get_all_labels and get_all_labels_multi: the table that is there, or one built
\* from the graph and stored, all without a lock.
Table(t) == IF threads[t].read = <<>> THEN "labels" ELSE "multi"

\* With one table more: an index takes the first, a ruler both; the union's labels
\* take the second again and go on to the partner.
WithTable(t, version) ==
  LET x   == threads[t]
      had == Len(x.read)
  IN  [threads EXCEPT ![t] = [x EXCEPT
         !.read = Append(x.read, version), !.graph = 0,
         !.pc = IF x.kind = "index" THEN "encode" ELSE IF had = 0 THEN "table"
                ELSE IF had = 1 THEN "ruler" ELSE "look",
         !.on = IF x.kind = "union" /\ had = 2 THEN Partner ELSE x.on]]

There(t) == IF threads[t].on = Default THEN tables[Table(t)] ELSE 1

FindTable(t) ==
  /\ threads[t].pc = "table"
  /\ Goto(t, IF There(t) # 0 THEN "take" ELSE "graph")
  /\ UNCHANGED <<resident, usage, locks, derived, compiled, requests>>

\* Read once more to be returned: if it has been forgotten since, there is nothing
\* to build an index from, and every other request fails.
TakeTable(t) ==
  /\ threads[t].pc = "take"
  /\ IF There(t) # 0 THEN threads' = WithTable(t, There(t))
     ELSE IF threads[t].kind = "index" THEN Goto(t, "encode")
     ELSE threads' = [threads EXCEPT ![t] = Idle]
  /\ UNCHANGED <<resident, usage, locks, derived, compiled, requests>>

ReadGraph(t) ==
  /\ threads[t].pc = "graph"
  /\ threads' = [threads EXCEPT ![t].pc = "store", ![t].graph = tables["graph"]]
  /\ UNCHANGED <<resident, usage, locks, derived, compiled, requests>>

StoreTable(t) ==
  /\ threads[t].pc = "store"
  /\ tables' = [tables EXCEPT ![Table(t)] = threads[t].graph]
  /\ threads' = WithTable(t, threads[t].graph)
  /\ UNCHANGED <<resident, usage, locks, versions, rebind, compiled, requests>>

\* The setting is changed: both tables go, one after the other.
Forget(t) ==
  /\ threads[t].pc = "forget"
  /\ tables' = [tables EXCEPT ![Table(t)] = 0]
  /\ threads' = [threads EXCEPT ![t].read = Append(@, 0),
                                ![t].pc = IF threads[t].read = <<>> THEN "forget" ELSE "done"]
  /\ UNCHANGED <<resident, usage, locks, versions, rebind, compiled, requests>>

\* A graph is loaded and its tables built aside, then rebound in this order.
Reload ==
  /\ services[Default] # 0 /\ rebind = <<>> /\ versions <= MaxReloads
  /\ versions' = versions + 1 /\ rebind' = <<"labels", "multi", "graph">>
  /\ UNCHANGED <<resident, usage, locks, threads, tables, compiled, requests>>

Rebind ==
  /\ rebind # <<>>
  /\ tables' = [tables EXCEPT ![Head(rebind)] = versions] /\ rebind' = Tail(rebind)
  /\ UNCHANGED <<resident, usage, locks, threads, versions, compiled, requests>>

-----------------------------------------------------------------------------
\* _get_ruler_bundle: what is cached is handed out if it was compiled from the
\* tables that were read.
FitsByName(ruler, read) ==               \* broken: the ontology's name is enough
  ruler # <<>>

Fits(ruler, read) == ruler = read

Fitting(ruler, read) == IF Fits(ruler, read) THEN ruler ELSE read

Compile(t) ==
  LET o == threads[t].on
      ruler == Fitting(rulers[o], threads[t].read)
  IN  /\ threads[t].pc = "ruler"
      /\ rulers' = [rulers EXCEPT ![o] = ruler]
      /\ threads' = [threads EXCEPT ![t].read = ruler,
                       ![t].pc = IF threads[t].kind = "union" THEN "check" ELSE "done"]
      /\ UNCHANGED <<resident, usage, locks, derived, union, requests>>

\* UnionService: the labels it has are good as long as both services are the ones
Both == <<services[Default], services[Partner]>>

CheckUnion(t) ==
  /\ threads[t].pc = "check"
  /\ IF 0 \notin {services[Default], services[Partner]} /\ union.of = Both
     THEN threads' = [threads EXCEPT ![t].pc = "weave", ![t].read = Append(@, union.labels)]
     ELSE Goto(t, "look")
  /\ UNCHANGED <<resident, usage, locks, derived, compiled, requests>>

\* With the labels of both: what is resident then is noted with them.
Gather(t) ==
  /\ threads[t].pc = "gather"
  /\ Goto(t, "weave")
  /\ union' = IF 0 \in {services[Default], services[Partner]} THEN union
              ELSE [union EXCEPT !.of = Both, !.labels = threads[t].read[3]]
  /\ UNCHANGED <<resident, usage, locks, derived, rulers, requests>>

\* _get_union_ruler_bundle: of the default's ruler and the union's labels
Weave(t) ==
  LET ruler == Fitting(union.ruler, threads[t].read)
  IN  /\ threads[t].pc = "weave"
      /\ union' = [union EXCEPT !.ruler = ruler]
      /\ threads' = [threads EXCEPT ![t].pc = "done", ![t].read = ruler]
      /\ UNCHANGED <<resident, usage, locks, derived, rulers, requests>>

Finish(t) ==
  /\ threads[t].pc = "done"
  /\ threads' = [threads EXCEPT ![t] = Idle]
  /\ UNCHANGED <<resident, usage, locks, derived, compiled, requests>>

-----------------------------------------------------------------------------
Move(t) ==
  \/ Look(t) \/ Lock(t) \/ Build(t) \/ Touch(t) \/ Evict(t)
  \/ Find(t) \/ Await(t) \/ \E ok \in BOOLEAN : IndexBuild(t, ok)
  \/ FindTable(t) \/ TakeTable(t) \/ ReadGraph(t) \/ StoreTable(t) \/ Forget(t)
  \/ Compile(t) \/ CheckUnion(t) \/ Gather(t) \/ Weave(t) \/ Finish(t)

Step(t) == Move(t) /\ Watch

Next ==
  \/ \E t \in Threads : Step(t)
  \/ \E t \in Threads, o \in Ontologies, kind \in {"index", "ruler"} :
       Request(t, kind, o) /\ Watch
  \/ \E t \in Threads, kind \in {"union", "translations"} :
       Request(t, kind, Default) /\ Watch
  \/ (Reload \/ Rebind) /\ Watch

\* The operating system schedules every thread.
Fairness == \A t \in Threads : WF_vars(Step(t))

Spec == Init /\ [][Next]_vars /\ Fairness

-----------------------------------------------------------------------------
RegistryTypeOK ==
  /\ services \in [Ontologies -> 0..built]
  /\ indexes \in [Ontologies -> {"none", "built", "empty"}]
  /\ locks \in [Ontologies -> Threads \cup {NoThread}]
  /\ accessed \in [Ontologies -> 0..clock]

\* Whenever no thread is between storing what it has built and looking at the
\* ceiling, no more ontologies than the ceiling are resident beside the default,
\* those included of which only the index is left.  (_evict_if_needed)
CeilingHolds ==
  /\ RegistryTypeOK
  /\ (\A t \in Threads : ~threads[t].own) =>
      Cardinality({o \in Ontologies \ {Default} : services[o] # 0 \/ indexes[o] # "none"}) <= Ceiling

\* The caches of rulers add no age of their own: a ruler that is handed out is
\* compiled of tables each of which was the default's at some moment since the
\* request, the union's also of labels that were the union's or taken from such a
\* table, whatever is reloaded, forgotten, compiled and stored late meanwhile.
\* (The tables themselves may be of an older graph than others were: whoever
\* builds one stores it without a lock, perhaps after a reload; see README.)
\* (_get_ruler_bundle, _get_union_ruler_bundle)
RulerNotStale ==
  \A t \in Threads :
    LET r == threads[t]
    IN (r.pc = "done" /\ Asks(r))
         => /\ Len(r.read) >= 2
            /\ <<"labels", r.read[1]>> \in seen[t] /\ <<"multi", r.read[2]>> \in seen[t]
            /\ r.kind = "union" => \E f \in {"multi", "union"} : <<f, r.read[3]>> \in seen[t]

\* The union, which borrows the current services, has labels of a table that was
\* the default's since they were asked for.  It fails: a reload changes the service
\* in place; see README.  (UnionService)
UnionIsCurrent ==
  \A t \in Threads : (threads[t].kind = "union" /\ threads[t].pc = "done")
    => <<"multi", threads[t].read[3]>> \in seen[t]

\* No table is replaced by one of an older graph.  It fails: whoever reads the
\* graph before a reload may store after it; see README.  (get_all_labels)
TablesOnlyGoOn ==
  [][\A f \in Fields : tables'[f] # 0 => tables'[f] >= tables[f]]_vars

\* Every request is answered, whoever holds which lock and whatever fails or is
\* evicted meanwhile.  (get_service, get_embedding_service)
RequestsEnd == \A t \in Threads : threads[t].pc # "idle" ~> threads[t].pc = "idle"
=============================================================================
