---------------------------- MODULE IndexModifier ----------------------------
(***************************************************************************)
(* tools/index-modifier: AlterIndex scrolls through an index, lets a       *)
(* modifier prepare the documents of each page again and writes them, into *)
(* the same cluster or into another one.  The indexer may be running.      *)
(***************************************************************************)
EXTENDS ScrolledClusters

CONSTANTS
  Unpreparable,  \* documents with an address that cannot be decoded
  FromMetachain, \* transactions whose sender is the metachain: left as they are
  MaxFailures    \* bound on the number of failed requests

ASSUME ModifierAssumption ==
  Unpreparable \subseteq Ids /\ FromMetachain \subseteq Ids /\ MaxFailures \in Nat

VARIABLES
  writeTo,    \* the cluster of bulkClientAddress
  modifier,   \* state of AlterIndex
  snapshot,   \* what the source held when the search was answered
  failures    \* number of failed requests of all tools

modifierVars == <<writeTo, modifier, snapshot>>

\* Mutant: transactions that wait for their execution are written too.
ignoreNothing(doc) == FALSE

shouldIgnoreTx(doc) == doc.status = "pending"

prepareTxForIndexing(id, doc) ==
  IF id \in FromMetachain THEN doc ELSE [doc EXCEPT !.parsed = TRUE]

\* prepareTxForIndexing returns an error: the document is skipped.
cannotPrepare(id) == id \in Unpreparable \ FromMetachain

\* The operations of the bulk request for a page, from the answer that was read.
Modify(page) ==
  {id \in page : ~shouldIgnoreTx(snapshot[id]) /\ ~cannotPrepare(id)}

\* The index after the operations on these documents.
Written(docs, ids) ==
  [id \in Ids |-> IF id \in ids THEN prepareTxForIndexing(id, snapshot[id]) ELSE docs[id]]

Idle == [pc |-> "search", scroll |-> NoScroll, page |-> {}]

ModifierInit ==
  /\ writeTo \in Sides
  /\ modifier = Idle
  /\ snapshot = [id \in Ids |-> NoDoc]

\* A request failed; main panics.  iterateScroll clears the scroll.
AlterFails ==
  /\ failures < MaxFailures
  /\ failures' = failures + 1
  /\ modifier' = [modifier EXCEPT !.pc = "failed", !.scroll = NoScroll, !.page = {}]
  /\ UNCHANGED <<writeTo, snapshot>>

\* Mutant: the page that comes with the search is not handled.
scrollWithoutFirstPage ==
  /\ modifier.pc = "search"
  /\ \E q \in Unsorted(Present(cluster["source"])) :
       modifier' = [pc |-> "scroll", page |-> {},
                    scroll |-> [rest |-> Rest(q), open |-> TRUE, held |-> TRUE, done |-> FALSE]]
  /\ snapshot' = cluster["source"]
  /\ UNCHANGED <<writeTo, failures, cluster>>

DoScrollRequestAllDocuments ==
  /\ modifier.pc = "search"
  /\ \/ /\ \E q \in Unsorted(Present(cluster["source"])) :
             modifier' = [pc |-> "handle", page |-> PageIds(q),
                          scroll |-> [rest |-> Rest(q), open |-> TRUE, held |-> TRUE,
                                      done |-> FALSE]]
        /\ snapshot' = cluster["source"]
        /\ UNCHANGED <<writeTo, failures>>
     \/ AlterFails
  /\ UNCHANGED cluster

\* handlerFunc: the page is modified and written with an index operation for
\* each document.  The first page is handled even when it is empty.  Of a
\* request that fails any part may have been executed.
HandlePage ==
  /\ modifier.pc = "handle"
  /\ \E ids \in SUBSET Modify(modifier.page) :
       /\ cluster' = [cluster EXCEPT ![writeTo] = Written(@, ids)]
       /\ \/ /\ ids = Modify(modifier.page)
             /\ modifier' = [modifier EXCEPT !.pc = "scroll", !.page = {}]
             /\ UNCHANGED <<writeTo, snapshot, failures>>
          \/ AlterFails

\* iterateScroll: ends with the first page that has no hits.
IterateScroll ==
  /\ modifier.pc = "scroll"
  /\ \/ /\ modifier' = IF modifier.scroll.rest = <<>>
             THEN [modifier EXCEPT !.pc = "done", !.scroll = NoScroll]
             ELSE [pc |-> "handle", page |-> PageIds(modifier.scroll.rest),
                   scroll |-> [modifier.scroll EXCEPT !.rest = Rest(@)]]
        /\ UNCHANGED <<writeTo, snapshot, failures>>
     \/ AlterFails
  /\ UNCHANGED cluster

AlterIndex == DoScrollRequestAllDocuments \/ HandlePage \/ IterateScroll

AlterEnded == modifier.pc \in {"done", "failed"}
=============================================================================
