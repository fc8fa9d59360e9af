------------------------------ MODULE Exports ------------------------------
(* What each export format says of a finished job, and the route that leaves   *)
(* out the annotations the user has dismissed.                                *)
(*                                                                            *)
(* Simplifications: an exported file is the facts it states: which concepts   *)
(* of which annotations, which classes of which individuals, which IRIs of    *)
(* the parts of which triples; names, texts, confidences, styles and the      *)
(* statistics that are plain counts are left out.  An entity is its position  *)
(* in the job's list.  IRIs and labels are model values or strings; NoIri     *)
(* stands for a concept that was not resolved.                                *)
(* A definition marked "broken" is a defect that no specification uses.       *)
EXTENDS Integers, FiniteSets, SequencesExt, Orders

CONSTANTS Jobs,      \* bound: the finished jobs
          NoIri

VARIABLES job,       \* the stored job
          answer     \* the last export, none since the job has changed

export_vars == <<job, answer>>

(* The parts of a job.  The name of an individual may differ from its mention; *)
(* the IRIs around a property are those of its domain and range; the id of a   *)
(* link is an individual's position; what a later chunk gave its place may     *)
(* start before the text or end after it.                                      *)
Concepts     == [iri : STRING, text : STRING]
States       == {"preliminary", "confirmed", "rejected"}
Annotations  == [start : Int, end : Int, state : States, concepts : Seq(Concepts)]
Individuals  == [start : Int, end : Int, classes : Seq(STRING), renamed : BOOLEAN]
Properties   == [start : Int, end : Int, iri : STRING, around : SUBSET STRING]
Links        == [type : {"concept", "individual", "property"}, id : Nat, iri : STRING]
Triples      == [subject : Seq(Links), object : Seq(Links), predicate : Seq(Links),
                 placed : BOOLEAN]
Propositions == [placed : BOOLEAN, roles : 0..2]

FinishedJobs ==
  [annotations : Seq(Annotations), individuals : Seq(Individuals), properties : Seq(Properties),
   triples : Seq(Triples), propositions : Seq(Propositions),
   chunks : Seq([start : Int, end : Int]), length : Nat, both : BOOLEAN]

Roles == {"subject", "object", "predicate"}

\* An individual that a triple links to is one of the job's.
Linking(j) ==
  \A t \in DOMAIN j.triples : \A role \in Roles : \A l \in DOMAIN j.triples[t][role] :
    j.triples[t][role][l].type = "individual"
      => j.triples[t][role][l].id \in DOMAIN j.individuals

ASSUME JobsAssumption == \A j \in Jobs : j \in FinishedJobs /\ Linking(j)

\* The annotations an export is of
Shown(j, dismissed) ==
  {a \in DOMAIN j.annotations : dismissed \/ j.annotations[a].state # "rejected"}

Copy(j, dismissed) ==
  [annotations |-> j.annotations, shown |-> Shown(j, dismissed), individuals |-> j.individuals,
   properties |-> j.properties, triples |-> j.triples, propositions |-> j.propositions,
   chunks |-> j.chunks, length |-> j.length, both |-> j.both]

\* <<annotation, concept>>, and the annotations without any
Rows(j) == UNION {{a} \X DOMAIN j.annotations[a].concepts : a \in j.shown}
Bare(j) == {a \in j.shown : j.annotations[a].concepts = <<>>}
ConceptAt(j, r) == j.annotations[r[1]].concepts[r[2]]

ClassIris(j) ==
  UNION {{i} \X (ToSet(j.individuals[i].classes) \ {NoIri}) : i \in DOMAIN j.individuals}

Linked(j) == {t \in 1..Len(j.triples) : \E role \in Roles : j.triples[t][role] # <<>>}

IrisOf(links)    == [l \in DOMAIN links |-> links[l].iri]
KnownIris(links) == Picked(IrisOf(links), {l \in DOMAIN links : links[l].iri # NoIri})

AllRefs(j) == UNION {{<<t, role, i>> : i \in ToSet(KnownIris(j.triples[t][role]))} :
                       t \in 1..Len(j.triples), role \in Roles}
FirstRefs(j) ==
  {<<x[1], x[2], KnownIris(j.triples[x[1]][x[2]])[1]>> :
     x \in {y \in (1..Len(j.triples)) \X Roles : KnownIris(j.triples[y[1]][y[2]]) # <<>>}}

Nothing == [rows |-> {}, bare |-> {}, classes |-> {}, refs |-> {}, linked |-> {},
            bridges |-> FALSE]

-----------------------------------------------------------------------------
(* The record formats                                                         *)
Json(j) == [Nothing EXCEPT !.rows = Rows(j), !.bare = Bare(j), !.classes = ClassIris(j),
                           !.refs = AllRefs(j), !.linked = Linked(j), !.bridges = j.both]

\* "unique_concepts" of the statistics
UniqueConcepts(j) == Cardinality({ConceptAt(j, r).iri : r \in Rows(j)} \ {NoIri})

Jsonl(j) == [Nothing EXCEPT !.rows = Rows(j), !.bare = Bare(j), !.classes = ClassIris(j),
                            !.linked = Linked(j), !.bridges = j.both]

Jsonld(j) == [Nothing EXCEPT !.rows = Rows(j), !.classes = ClassIris(j), !.refs = FirstRefs(j),
                             !.bridges = j.both]

XmlRefs(j) == {r \in AllRefs(j) : r[2] # "predicate"}
Xml(j) == [Nothing EXCEPT !.rows = Rows(j), !.bare = Bare(j), !.classes = ClassIris(j),
                          !.refs = XmlRefs(j), !.bridges = j.both]

\* Comma separated and spreadsheet rows name the classes of an individual only.
CsvResolvedOnly(j) ==                       \* broken: unresolved concepts are skipped
  [Nothing EXCEPT !.rows = {r \in Rows(j) : ConceptAt(j, r).iri # NoIri}, !.refs = FirstRefs(j),
                  !.linked = Linked(j), !.bridges = j.both]
Csv(j) == [Nothing EXCEPT !.rows = Rows(j), !.refs = FirstRefs(j), !.linked = Linked(j),
                          !.bridges = j.both]
ExcelSheet(j)  == [Nothing EXCEPT !.rows = Rows(j)]
ExcelSheets(j) == [ExcelSheet(j) EXCEPT !.refs = FirstRefs(j), !.linked = Linked(j),
                                        !.bridges = j.both]

Parquet(j) == [Nothing EXCEPT !.rows = Rows(j), !.classes = ClassIris(j), !.refs = FirstRefs(j),
                              !.linked = Linked(j), !.bridges = j.both]
Elasticsearch(j) == Parquet(j)

\* One proposition record; the concepts only of a job of both ontologies
PropositionRecords(j) ==
  [Nothing EXCEPT !.rows = IF j.both THEN Rows(j) ELSE {}, !.bridges = j.both]

\* A graph: a concept is its IRI, one without has no body.
Bodies(j) == {r \in Rows(j) : ConceptAt(j, r).iri # NoIri}
Rdf(j) == [Nothing EXCEPT !.rows = Bodies(j), !.bare = Bare(j), !.classes = ClassIris(j),
                          !.refs = AllRefs(j), !.bridges = j.both]

\* For retrieval: by chunk, what lies inside it
LiesIn(x, c) == c.start <= x.start /\ x.end <= c.end
InChunk(j, c) == {r \in Rows(j) : LiesIn(j.annotations[r[1]], c)}
Rag(j) == [Nothing EXCEPT !.rows = UNION {InChunk(j, c) : c \in ToSet(j.chunks)},
                          !.bridges = j.both /\ j.chunks # <<>>]

-----------------------------------------------------------------------------
(* HTML: the tags of each offset are woven into the text once, the closing    *)
(* ones first.                                                                *)
Clamp(j, x) ==
  LET Between(least, n) == IF n > j.length THEN j.length ELSE IF n < least THEN least ELSE n
      s == Between(0, x.start)
  IN [start |-> s, end |-> Between(s, x.end)]

Spans(xs) == [i \in DOMAIN xs |-> [start |-> xs[i].start, end |-> xs[i].end]]

Tags(j) ==
  LET tagged == {a \in j.shown : j.annotations[a].concepts # <<>>}
      all    == Spans(Picked(j.annotations, tagged)) \o Spans(j.individuals) \o Spans(j.properties)
  IN [i \in DOMAIN all |-> Clamp(j, all[i])]

ClosedInOrder(tags, x, y) == x < y           \* broken: by number only

ClosesFirst(tags, x, y) == \/ tags[x].start > tags[y].start
                           \/ tags[x].start = tags[y].start /\ x < y
OpensFirst(tags, x, y)  == \/ tags[x].end > tags[y].end
                           \/ tags[x].end = tags[y].end /\ x > y

WovenAt(tags, p) ==
  LET ending   == {x \in DOMAIN tags : tags[x].end = p}
      starting == {x \in DOMAIN tags : tags[x].start = p}
      closes == Ranked(ending, {xy \in ending \X ending : ClosesFirst(tags, xy[1], xy[2])})
      opens  == Ranked(starting, {xy \in starting \X starting : OpensFirst(tags, xy[1], xy[2])})
  IN [i \in DOMAIN closes |-> <<"close", closes[i]>>]
       \o [i \in DOMAIN opens |-> <<"open", opens[i]>>]

Woven(j) == FlattenSeq([p \in 1..(j.length + 1) |-> WovenAt(Tags(j), p - 1)])

Html(j) == [Nothing EXCEPT
             !.rows = IF j.length = 0 THEN {} ELSE {r \in Rows(j) : r[2] = 1},
             !.linked = IF j.length = 0 THEN {} ELSE Linked(j),
             !.bridges = j.both /\ j.length > 0]

-----------------------------------------------------------------------------
(* Neo4j: a node is <<kind, key>>, an edge two of them.                       *)
Key(c) == IF c.iri # NoIri THEN c.iri ELSE c.text

ConceptNodes(j) == {<<"concept", Key(ConceptAt(j, r))>> : r \in Rows(j)}

Nodes(j) == {<<"doc", 0>>} \cup ConceptNodes(j)
              \cup {<<"ind", i>> : i \in DOMAIN j.individuals}
              \cup {<<"prop", p>> : p \in DOMAIN j.properties}

InDocument(j) == {<<<<"doc", 0>>, n>> : n \in Nodes(j) \ {<<"doc", 0>>}}

\* INSTANCE_OF, HAS_DOMAIN and HAS_RANGE, to concepts that have a node
ClassEdges(j) == {<<<<"ind", x[1]>>, <<"concept", x[2]>>>> :
                    x \in {y \in ClassIris(j) : <<"concept", y[2]>> \in ConceptNodes(j)}}
PropertyEdges(j) ==
  UNION {{<<<<"prop", p>>, <<"concept", i>>>> :
            i \in {k \in j.properties[p].around : <<"concept", k>> \in ConceptNodes(j)}} :
            p \in DOMAIN j.properties}

\* The first link to an individual or to a concept with an IRI
Usable(link) == \/ link.type = "individual"
                \/ link.type = "concept" /\ link.iri # NoIri

EndPoint(links) ==
  LET usable == Picked(links, {l \in DOMAIN links : Usable(links[l])})
  IN IF usable = <<>> THEN <<"none", 0>>
     ELSE IF usable[1].type = "individual" THEN <<"ind", usable[1].id>>
     ELSE <<"concept", usable[1].iri>>

\* These are not looked up among the nodes.
TripleEdges(j) ==
  {e \in {<<EndPoint(t.subject), EndPoint(t.object)>> : t \in ToSet(j.triples)} :
     e[1][1] # "none" /\ e[2][1] # "none"}

Neo4j(j) == [Nothing EXCEPT !.rows = Rows(j), !.bridges = j.both]

-----------------------------------------------------------------------------
(* Brat: numbered lines for text (T), attributes (A), relations (R) and notes *)
(* (#), the last three with the numbers of the T lines they are about.        *)
Line(kind, n, about) == [kind |-> kind, n |-> n, about |-> about]

\* A text line and its attributes
AddEntity(out, attributes) ==
  [lines |-> out.lines \o <<Line("T", out.t, {})>>
               \o [k \in 1..attributes |-> Line("A", out.a + k - 1, {out.t})],
   t |-> out.t + 1, a |-> out.a + attributes, r |-> out.r]

\* Both parts and the relation of a triple
AddRelation(out) ==
  [lines |-> out.lines \o <<Line("T", out.t, {}), Line("T", out.t + 1, {}),
                            Line("R", out.r, {out.t, out.t + 1})>>,
   t |-> out.t + 2, a |-> out.a, r |-> out.r + 1]

\* What is written in turn: mentions with so many attributes, relations, and
\* nothing for what has no place in the text.
Entity(n) == [kind |-> "entity", attributes |-> n]
Relation  == [kind |-> "relation", attributes |-> 0]
Unplaced  == [kind |-> "unplaced", attributes |-> 0]

AddItem(out, item) ==
  CASE item.kind = "entity"   -> AddEntity(out, item.attributes)
    [] item.kind = "relation" -> AddRelation(out)
    [] OTHER                  -> out

\* IRI and label, and the region of a union's concept
Attributes(a, both) ==
  2 * Cardinality({c \in DOMAIN a.concepts : a.concepts[c].iri # NoIri})
    + (IF both THEN Len(a.concepts) ELSE 0)

Known(classes) == Cardinality({c \in DOMAIN classes : classes[c] # NoIri})

OfIndividual(i) == Known(i.classes) + (IF i.renamed THEN 1 ELSE 0)

Items(j) ==
  LET shown == Picked(j.annotations, j.shown)
  IN [a \in DOMAIN shown |-> Entity(Attributes(shown[a], j.both))]
       \o [i \in DOMAIN j.individuals |-> Entity(OfIndividual(j.individuals[i]))]
       \o [p \in DOMAIN j.properties |-> Entity(IF j.properties[p].iri = NoIri THEN 0 ELSE 1)]
       \o [t \in DOMAIN j.triples |-> IF j.triples[t].placed THEN Relation ELSE Unplaced]

PropositionItems(j) ==
  [p \in DOMAIN j.propositions |->
     IF j.propositions[p].placed THEN Entity(j.propositions[p].roles + 1) ELSE Unplaced]

Start == [lines |-> <<>>, t |-> 1, a |-> 1, r |-> 1]

Written(out, items) == FoldLeft(AddItem, out, items)

PropositionsAnew(j, out) ==                  \* broken: numbered from one again
  [out EXCEPT !.lines = @ \o Written(Start, PropositionItems(j)).lines]

AddPropositions(j, out) == Written(out, PropositionItems(j))

Brat(j) == AddPropositions(j, Written(Start, Items(j))).lines
             \o (IF j.both THEN <<Line("#", 1, {1})>> ELSE <<>>)

BratSays(j) == [Nothing EXCEPT !.rows = Bodies(j), !.bare = {}, !.bridges = j.both]

-----------------------------------------------------------------------------
Formats == {"json", "jsonld", "xml", "csv", "jsonl", "parquet", "elasticsearch", "neo4j",
            "rag", "rdf", "brat", "html", "excel", "propositions", "propositions-ndjson"}

Export(format, j) ==
  CASE format = "json" -> Json(j)
    [] format = "jsonl" -> Jsonl(j)
    [] format = "jsonld" -> Jsonld(j)
    [] format = "xml" -> Xml(j)
    [] format = "csv" -> Csv(j)
    [] format = "excel" -> ExcelSheets(j)
    [] format = "parquet" -> Parquet(j)
    [] format = "elasticsearch" -> Elasticsearch(j)
    [] format = "rdf" -> Rdf(j)
    [] format = "rag" -> Rag(j)
    [] format = "html" -> Html(j)
    [] format = "neo4j" -> Neo4j(j)
    [] format = "brat" -> BratSays(j)
    [] OTHER -> PropositionRecords(j)

NoAnswer == [status |-> 0, format |-> "", dismissed |-> FALSE, says |-> Nothing]

ExportInit == job \in Jobs /\ answer = NoAnswer

\* The job is read before the format is looked up.
ExportJob(format, dismissed) ==
  /\ answer' = IF format \in Formats
               THEN [status |-> 200, format |-> format, dismissed |-> dismissed,
                     says |-> Export(format, Copy(job, dismissed))]
               ELSE [NoAnswer EXCEPT !.status = 400]
  /\ UNCHANGED job

\* The user's review of an annotation, between two exports
SetState(a, state) ==
  /\ job.annotations[a].state # state
  /\ job' = [job EXCEPT !.annotations[a].state = state] /\ answer' = NoAnswer

ExportNext ==
  \/ \E f \in Formats \cup {"docx"}, dismissed \in BOOLEAN : ExportJob(f, dismissed)
  \/ \E a \in DOMAIN job.annotations, state \in {"confirmed", "rejected"} : SetState(a, state)

ExportSpec == ExportInit /\ [][ExportNext]_export_vars

-----------------------------------------------------------------------------
Exported == Copy(job, answer.dismissed)

\* Whoever reads one format is told what the reader of another is told: the same
\* concepts of the same annotations (a graph or standoff file those with an IRI,
\* a page the first of each, the chunks no others), the same triples as linked,
\* the IRIs of the first link where only one is written; the statistics count the
\* concepts of the graph; and no dismissed annotation is in a file that was not
\* asked to have them.
FormatsAgree ==
  answer.status = 200 =>
    LET says == answer.says
        json == Json(Exported)
        Iris(rows) == {ConceptAt(Exported, r).iri : r \in rows}
    IN /\ CASE answer.format \in {"rdf", "brat"} ->
                 /\ says.rows = {r \in json.rows : Iris({r}) # {NoIri}}
                 /\ Cardinality(Iris(says.rows)) = UniqueConcepts(Exported)
            [] answer.format = "html" ->
                 job.length > 0 => says.rows = {r \in json.rows : r[2] = 1}
            [] answer.format \in {"rag", "propositions", "propositions-ndjson"} ->
                 says.rows \subseteq json.rows
            [] OTHER -> says.rows = json.rows
       /\ says.refs \subseteq json.refs
       /\ says.linked # {} => says.linked = json.linked
       /\ says.bridges => job.both
       /\ \A r \in says.rows : answer.dismissed \/ job.annotations[r[1]].state # "rejected"

\* Nothing a file refers to is missing from it: a brat attribute, relation or note
\* is about text lines before it, unless it is the note of a file that has no text
\* line at all (the bridges of a job of both ontologies are noted on T1 even then),
\* and no two lines of a kind have a number; an edge of a graph to the class of an
\* individual or the domain or range of a property ends at a node, and so does a
\* triple's that ends at an individual.  (One that ends at a concept may not:
\* concepts are not looked up among the nodes.)
RefersBack ==
  LET lines == Brat(Exported)
      edges == InDocument(Exported) \cup ClassEdges(Exported) \cup PropertyEdges(Exported)
      NoText == \A l \in DOMAIN lines : lines[l].kind # "T"
  IN /\ answer.format = "brat" =>
          /\ \A k \in DOMAIN lines : \A n \in lines[k].about :
               \/ \E l \in 1..(k - 1) : lines[l].kind = "T" /\ lines[l].n = n
               \/ lines[k].kind = "#" /\ NoText
          /\ \A k, l \in DOMAIN lines :
               k # l => lines[k].kind # lines[l].kind \/ lines[k].n # lines[l].n
     /\ answer.format = "neo4j" =>
          /\ \A e \in edges : {e[1], e[2]} \subseteq Nodes(Exported)
          /\ \A e \in TripleEdges(Exported) : \A n \in {e[1], e[2]} :
               n[1] # "concept" => n \in Nodes(Exported)

Crossing(x, y) == x.start < y.start /\ y.start < x.end /\ x.end < y.end

\* Every tag is opened once and closed once, later; one that is opened inside
\* another is closed inside it.
Nested(woven, tags) ==
  LET At(kind, x) == {k \in DOMAIN woven : woven[k] = <<kind, x>>}
  IN  /\ \A x \in DOMAIN tags :
           \E o, c \in DOMAIN woven : o < c /\ At("open", x) = {o} /\ At("close", x) = {c}
      /\ \A x, y \in DOMAIN tags :
           \A o \in At("open", x), c \in At("close", x), p \in At("open", y), d \in At("close", y) :
             o < p /\ p < c => d < c

\* The tags of an HTML page nest: whatever spans of the three kinds start, end or
\* coincide at an offset, each closing tag closes the last one still open, unless
\* two spans cross or one is empty.
TagsNest ==
  answer.format = "html" =>
    LET tags == Tags(Exported)
    IN (/\ \A x, y \in DOMAIN tags : ~Crossing(tags[x], tags[y])
        /\ \A x \in DOMAIN tags : tags[x].start < tags[x].end)
       => Nested(Woven(Exported), tags)
=============================================================================
