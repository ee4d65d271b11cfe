------------------------------ MODULE Documents ------------------------------
(***************************************************************************)
(* Elasticsearch, as far as the documents that SaveTransactions writes     *)
(* depend on it (external): documents by index and id, operations of a     *)
(* bulk request that are executed one after the other, a get that sees     *)
(* every write, and a search that sees what the last refresh saw.          *)
(***************************************************************************)
EXTENDS Naturals, FiniteSets, FiniteSetsExt, SequencesExt

CONSTANT NoDoc   \* "no document with this id"; also "no such field"

\* The id of a document: a name, the nonce of an NFT and the address that holds
\* it, as far as the index has them.
Key(index, id, nonce, holder) ==
  [index |-> index, id |-> id, nonce |-> nonce, holder |-> holder]
DocKey(index, id) == Key(index, id, 0, "")

IsSeq(q) == q \in Seq(Range(q))

\* A map with one more entry.
With(map, k, v) == [x \in DOMAIN map \cup {k} |-> IF x = k THEN v ELSE map[x]]

NoDocs == [k \in {} |-> NoDoc]

DoGet(docs, k) == IF k \in DOMAIN docs THEN docs[k] ELSE NoDoc

Put(docs, k, doc) ==
  IF doc = NoDoc THEN Restrict(docs, DOMAIN docs \ {k}) ELSE With(docs, k, doc)

\* One operation of a bulk request, with the message it was made for.
Operation(k, script, params) == [key |-> k, script |-> script, params |-> params]

\* One operation for every element of a set, in some order: the code ranges
\* over a map and the documents are different ones.
ForEach(S, op(_)) == [i \in 1..Cardinality(S) |-> op(SetToSeq(S)[i])]

\* The documents of an index.
InIndex(docs, index) == Restrict(docs, {k \in DOMAIN docs : k.index = index})
=============================================================================
