-------------------------- MODULE ScrolledClusters --------------------------
(***************************************************************************)
(* Two Elasticsearch clusters as the tools use them: documents, and the    *)
(* scroll contexts through which a tool reads an index page by page.  A    *)
(* scroll reads the state at the time of the search.                       *)
(***************************************************************************)
EXTENDS Naturals, Sequences, FiniteSets, SequencesExt

CONSTANTS
  Ids,        \* ids of documents
  Timestamp,  \* Timestamp[id]: a block's timestamp never changes
  NoDoc,      \* "no document with this id"
  PageSize    \* documents in the answer to a search or scroll request

Sides == {"source", "destination"}

\* A document: its status, and what the data field parser of this version or
\* of an older one made of its data.
Documents == [status : {"pending", "success"}, parsed : BOOLEAN]

ASSUME ClustersAssumption ==
  /\ IsFiniteSet(Ids)
  /\ PageSize \in Nat \ {0}
  /\ Timestamp \in [Ids -> Nat]
  /\ NoDoc \notin Documents

VARIABLE cluster   \* cluster[side][id]

Present(docs) == {id \in DOMAIN docs : docs[id] # NoDoc}

\* The orders in which a search may return these documents.
Unsorted(ids) == SetToSeqs(ids)
SortedByTimestamp(ids) ==
  {q \in SetToSeqs(ids) : \A i, j \in DOMAIN q : i < j => Timestamp[q[i]] >= Timestamp[q[j]]}

\* What a tool knows of a scroll: rest is what the cluster would still return,
\* open says that the context exists, held that the tool has its id, and done
\* that the tool has seen an empty page.
Scrolls == [rest : Seq(Ids), open : BOOLEAN, held : BOOLEAN, done : BOOLEAN]
NoScroll == [rest |-> <<>>, open |-> FALSE, held |-> FALSE, done |-> FALSE]

Page(q) == SubSeq(q, 1, IF Len(q) < PageSize THEN Len(q) ELSE PageSize)
Rest(q) == SubSeq(q, Len(Page(q)) + 1, Len(q))
PageIds(q) == ToSet(Page(q))
=============================================================================
