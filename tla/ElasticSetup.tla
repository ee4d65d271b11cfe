---------------------------- MODULE ElasticSetup ----------------------------
(***************************************************************************)
(* What a starting indexer does to the cluster before it indexes anything  *)
(* (elasticProcessor.init, with the CheckAndCreate functions of client/),  *)
(* and what tools/indices-creator does.  Several of them may start at the  *)
(* same time and any of them may be killed half way.  The list of extra    *)
(* mappings that init goes over at its end is empty in this repository.    *)
(***************************************************************************)
EXTENDS Naturals, Sequences, FiniteSets

CONSTANTS
  Starters,     \* processes that set the cluster up
  IsCreator,    \* IsCreator[p]: p is the tool indices-creator
  Indexes,      \* the array indexes: a sequence of names
  Templates,    \* names with a template; withKibana has none for values and events
  Values,       \* ValuesIndex
  OpenDistroIndex, \* a template for no index of this program
  MapOrders,    \* the orders in which the tool may go over its map of templates
  MaxFailures   \* bound on the number of failed requests

IndexNames == {Indexes[i] : i \in DOMAIN Indexes}
Names == IndexNames \cup {OpenDistroIndex}

ASSUME SetupAssumption ==
  /\ IsCreator \in [Starters -> BOOLEAN]
  /\ Indexes \in Seq(IndexNames)
  /\ Templates \subseteq Names /\ Values \in IndexNames
  /\ MapOrders \subseteq Seq(Templates)
  /\ MaxFailures \in Nat

VARIABLES
  legacy,     \* templates of the legacy kind, from an older version
  templates,  \* composable index templates
  index,      \* index[x]: the index x-000001: how it was made
  alias,      \* aliases x for x-000001
  implicit,   \* indexes that a write created because it found no alias
  mapOrder,   \* the order the tool meets
  setup,      \* setup[p]: the step of p, and whether it is about to create
  failures,   \* number of failed requests
  aliasLost   \* aliases whose creation failed in indices-creator

cluster == <<legacy, templates, index, alias, implicit>>
setupVars == <<cluster, mapOrder, setup, failures, aliasLost>>

Step(kind, x) == [kind |-> kind, name |-> x]
StepsOf(kind) == [i \in DOMAIN Indexes |-> Step(kind, Indexes[i])]

createOpenDistroTemplates == <<Step("template", OpenDistroIndex)>>
createIndexTemplates == StepsOf("template")
createIndexes == StepsOf("index")
createAliases == StepsOf("alias")
indexVersion == <<Step("version", Values)>>

\* Mutant: the version is written before the aliases exist.
initVersionFirst ==
  createOpenDistroTemplates
    \o (createIndexTemplates \o createIndexes \o indexVersion \o createAliases)

init ==
  createOpenDistroTemplates
    \o (createIndexTemplates \o createIndexes \o createAliases \o indexVersion)

\* createTemplates of the tool: the steps of one index after those of another.
createTemplates ==
  [i \in 1..3 * Len(mapOrder) |->
     Step(<<"template", "index", "alias">>[((i - 1) % 3) + 1], mapOrder[((i - 1) \div 3) + 1])]

StepsFor(p) == IF IsCreator[p] THEN createTemplates ELSE init
NamesOf(p) == IF IsCreator[p] THEN {mapOrder[i] : i \in DOMAIN mapOrder} ELSE IndexNames
NotStarted == [at |-> 1, create |-> FALSE]
SetUp(p) == setup[p].at > Len(StepsFor(p))

SetupInit ==
  /\ legacy \in {{}, Templates}
  /\ templates = {}
  /\ index = [x \in Names |-> "none"]
  /\ alias = {} /\ implicit = {}
  /\ mapOrder \in MapOrders
  /\ setup = [p \in Starters |-> NotStarted]
  /\ failures = 0
  /\ aliasLost = {}
-----------------------------------------------------------------------------
\* The answer of the cluster.  templateExists asks for a legacy template.
exists(s) ==
  CASE s.kind = "template" -> s.name \in legacy
    [] s.kind = "index" -> index[s.name] # "none"
    [] s.kind = "alias" -> s.name \in alias
    [] OTHER -> FALSE

Continue(p) == setup' = [setup EXCEPT ![p] = [at |-> @.at + 1, create |-> FALSE]]

\* getTemplateByName finds no template of that name: it is skipped.
SkipsTemplate(p) ==
  LET s == StepsFor(p)[setup[p].at] IN
  ~SetUp(p) /\ s.kind = "template" /\ s.name \notin Templates

SkipTemplate(p) ==
  /\ SkipsTemplate(p)
  /\ Continue(p)
  /\ UNCHANGED <<cluster, mapOrder, failures, aliasLost>>

\* The first half of CheckAndCreateTemplate, CheckAndCreateIndex and
\* CheckAndCreateAlias.  A failed request counts as "does not exist".
CheckExists(p) ==
  LET s == StepsFor(p)[setup[p].at] IN
  /\ ~SetUp(p) /\ ~setup[p].create /\ ~SkipsTemplate(p)
  /\ \/ /\ exists(s)
        /\ Continue(p)
        /\ UNCHANGED failures
     \/ /\ ~exists(s)
        /\ setup' = [setup EXCEPT ![p].create = TRUE]
        /\ UNCHANGED failures
     \/ /\ exists(s) /\ failures < MaxFailures
        /\ failures' = failures + 1
        /\ setup' = [setup EXCEPT ![p].create = TRUE]
  /\ UNCHANGED <<cluster, mapOrder, aliasLost>>

\* PutIndexTemplate writes a composable template, over an older one too.
createIndexTemplate(x) ==
  templates' = templates \cup {x} /\ UNCHANGED <<legacy, index, alias, implicit>>

\* resource_already_exists_exception is not an error.
createIndex(x) ==
  /\ index' = [index EXCEPT ![x] =
       IF @ # "none" THEN @
       ELSE IF x \in templates \cup legacy THEN "from template" ELSE "dynamic"]
  /\ UNCHANGED <<legacy, templates, alias, implicit>>

\* invalid_alias_name_exception, when an index has the name, is not an error.
createAlias(x) ==
  /\ alias' = IF x \in implicit THEN alias ELSE alias \cup {x}
  /\ UNCHANGED <<legacy, templates, index, implicit>>

\* A bulk request: a name that is neither an alias nor an index becomes one.
WriteTo(x) ==
  /\ implicit' = IF x \in alias THEN implicit ELSE implicit \cup {x}
  /\ UNCHANGED <<legacy, templates, index, alias>>

\* The second half.  An empty version is not written.
Create(p) ==
  LET s == StepsFor(p)[setup[p].at] IN
  /\ ~SetUp(p) /\ setup[p].create
  /\ CASE s.kind = "template" -> createIndexTemplate(s.name)
       [] s.kind = "index" -> createIndex(s.name)
       [] s.kind = "alias" -> createAlias(s.name)
       [] OTHER -> WriteTo(s.name) \/ UNCHANGED cluster
  /\ Continue(p)
  /\ UNCHANGED <<mapOrder, failures, aliasLost>>

\* The tool looks at the wrong variable after CheckAndCreateAlias: it goes on.
CreateAliasFails(p) ==
  LET s == StepsFor(p)[setup[p].at] IN
  /\ ~SetUp(p) /\ setup[p].create
  /\ IsCreator[p] /\ s.kind = "alias"
  /\ failures < MaxFailures
  /\ failures' = failures + 1
  /\ aliasLost' = aliasLost \cup {s.name}
  /\ Continue(p)
  /\ UNCHANGED <<cluster, mapOrder>>

\* A request to create something failed: the program ends with the error.
CreateFails(p) ==
  LET s == StepsFor(p)[setup[p].at] IN
  /\ ~SetUp(p) /\ setup[p].create
  /\ ~(IsCreator[p] /\ s.kind = "alias")
  /\ failures < MaxFailures
  /\ failures' = failures + 1
  /\ setup' = [setup EXCEPT ![p] = NotStarted]
  /\ UNCHANGED <<cluster, mapOrder, aliasLost>>

SetupStep(p) == SkipTemplate(p) \/ CheckExists(p) \/ Create(p) \/ CreateAliasFails(p)
-----------------------------------------------------------------------------
\* What the cluster must have when p is done.
Ready(p) ==
  /\ \A x \in NamesOf(p) :
       /\ index[x] # "none"
       /\ index[x] = "dynamic" => x \notin Templates
       /\ x \in alias \/ (IsCreator[p] /\ x \in aliasLost)
  /\ implicit = {}
=============================================================================
