---------------------------- MODULE ClusterTools ----------------------------
(***************************************************************************)
(* The two tools one after the other on the same clusters: the index       *)
(* modifier while the indexer writes to the source cluster, then, with the *)
(* clusters at rest, the clusters checker.                                 *)
(***************************************************************************)
EXTENDS ClustersChecker

CONSTANT InitialClusters  \* the contents the clusters may have at first

ASSUME InitialAssumption ==
  /\ InitialClusters \subseteq [Sides -> [Ids -> Documents \cup {NoDoc}]]
  /\ MaxParallelReads > 0

VARIABLE phase   \* "alter", then "compare"

vars == <<cluster, phase, modifierVars, failures, checkerVars>>

Init ==
  /\ cluster \in InitialClusters
  /\ phase = "alter"
  /\ failures = 0
  /\ ModifierInit
  /\ CheckerInit

\* The indexer: the destination shard executes a transaction.
Execute(id) ==
  /\ phase = "alter"
  /\ cluster["source"][id] # NoDoc /\ cluster["source"][id].status = "pending"
  /\ cluster' = [cluster EXCEPT !["source"][id].status = "success"]
  /\ UNCHANGED <<phase, modifierVars, failures, checkerVars>>

Alter == phase = "alter" /\ AlterIndex /\ UNCHANGED <<phase, checkerVars>>

\* The index modifier is gone when the checker is started.
StartChecker ==
  /\ phase = "alter" /\ AlterEnded
  /\ phase' = "compare"
  /\ ReadFlags
  /\ modifier' = Idle
  /\ snapshot' = [id \in Ids |-> NoDoc]
  /\ writeTo' = "source"
  /\ UNCHANGED <<cluster, failures>>

Check(k) ==
  /\ phase = "compare"
  /\ checkClusters(k)
  /\ UNCHANGED <<cluster, phase, modifierVars>>

CheckerEnded(k) == checker[k].pc \in {"done", "failed"}

\* The tools have ended.
Stopped ==
  /\ phase = "compare" /\ \A k \in Instances : CheckerEnded(k)
  /\ UNCHANGED vars

Next ==
  \/ \E id \in Ids : Execute(id)
  \/ Alter
  \/ StartChecker
  \/ \E k \in 1..MaxParallelReads : Check(k)
  \/ Stopped

Spec == Init /\ [][Next]_vars

\* The tools do not stop before they have ended; a goroutine of a checker is
\* scheduled again and again.
FairSpec ==
  /\ Spec
  /\ WF_vars(Alter) /\ WF_vars(StartChecker)
  /\ \A k \in 1..MaxParallelReads : WF_vars(Check(k))
-----------------------------------------------------------------------------
\* The differences between the clusters of these documents.
Differences(ids) ==
  LET source == Present(cluster["source"]) \cap ids
      destination == Present(cluster["destination"]) \cap ids
  IN  NotFound("destination", source \ destination)
      \cup NotFound("source", destination \ source)
      \cup Different(source \cap destination)

\* When the checkers have all finished, what they logged is exactly what
\* differs: every document in the range of timestamps that one side lacks or
\* that is not the same, once the pages in which the two sides returned it
\* have met in the maps of checkMaps, and nothing else.  Without timestamps
\* what only the destination has is not noticed.  The counts tell which side
\* has more.
ReportExact ==
  LET finished == phase = "compare" /\ \A k \in Instances : checker[k].pc = "done"
      inRange == {id \in Ids : BlockchainStartTime <= Timestamp[id] /\ Timestamp[id] <= Now}
      number(side) == Cardinality(Present(cluster[side]))
  IN  finished =>
        CASE mode = "withTimestamp" ->
               report = IF numParallelReads = 0 THEN {} ELSE Differences(inRange)
          [] mode = "noTimestamp" ->
               report = processResponse(Present(cluster["source"]))
          [] mode = "counts" ->
               report = {[kind |-> "more", side |-> s] :
                           s \in {x \in Sides : number(x) > number(other(x))}}

\* An executed transaction never becomes pending again, although the index
\* modifier writes documents as they were when it read their page and the
\* indexer executes transactions between the two: shouldIgnoreTx leaves out
\* what is pending.
AlterKeepsExecution ==
  [][\A id \in Ids :
       /\ cluster["source"][id] # NoDoc
       /\ cluster["source"][id].status = "success"
       => cluster'["source"][id] # NoDoc /\ cluster'["source"][id].status = "success"]_vars

\* When AlterIndex returned without an error, every document that was not
\* pending at the time of the search, and could be prepared, is in the cluster
\* it wrote to, in its new form.
AlterComplete ==
  modifier.pc = "done" =>
    \A id \in Present(snapshot) :
      ~shouldIgnoreTx(snapshot[id]) /\ ~cannotPrepare(id) =>
        /\ cluster[writeTo][id] # NoDoc
        /\ cluster[writeTo][id].parsed = (id \notin FromMetachain \/ snapshot[id].parsed)

\* In the interval of k one of the clusters has documents and the other none:
\* the scroll of the empty side was cleared, yet continueReading asks for it.
OneSideEmpty(k) ==
  k \in Instances /\
  \E s \in Sides : /\ Present(cluster[s]) \cap InInterval(k) = {}
                   /\ Present(cluster[other(s)]) \cap InInterval(k) # {}

\* Every checker ends, unless a request failed or one side of its interval is
\* empty: then it asks for a scroll it has no id of, again and again, because
\* an error does not end continueReading.
ComparisonEnds ==
  \A k \in 1..MaxParallelReads :
    (phase = "compare" /\ k \in Instances)
      ~> (CheckerEnded(k) \/ failures > 0 \/ OneSideEmpty(k))
=============================================================================
