------------------------ MODULE ClusterTools_proofs ------------------------
(***************************************************************************)
(* The index modifier undoes no execution and leaves no document out, and  *)
(* the clusters checker reports exactly what differs: for any documents,   *)
(* timestamps, sizes of pages, numbers of parallel reads and intervals of  *)
(* the maps.                                                               *)
(***************************************************************************)
EXTENDS ClusterTools, Integers, FiniteSetTheorems, TLAPS

(* The elements of a page of m documents, and of the rest.                 *)
CutAt(q, m, S) ==
  /\ Page(q) \in Seq(S) /\ DOMAIN Page(q) = 1..m
  /\ \A i \in 1..m : Page(q)[i] = q[i]
  /\ Rest(q) \in Seq(S) /\ DOMAIN Rest(q) = 1..(Len(q) - m)
  /\ \A i \in 1..(Len(q) - m) : Rest(q)[i] = q[m + i]

(* Every sequence is cut somewhere.                                        *)
LEMMA PageElements ==
  ASSUME NEW S, NEW q \in Seq(S)
  PROVE  \E m \in 0..Len(q) : CutAt(q, m, S)
<1> DEFINE n == Len(q)
           m == IF n < PageSize THEN n ELSE PageSize
<1>1. n \in Nat /\ m \in 0..n /\ PageSize \in Nat
  BY ClustersAssumption
<1>2. /\ Page(q) \in Seq(S) /\ Len(Page(q)) = m
      /\ \A i \in 1..m : Page(q)[i] = q[i]
  BY <1>1 DEF Page
<1> HIDE DEF m
<1>3. Rest(q) = SubSeq(q, m + 1, n)
  BY <1>2 DEF Rest
<1>4. /\ Rest(q) \in Seq(S) /\ Len(Rest(q)) = n - m
      /\ \A i \in 1..(n - m) : Rest(q)[i] = q[m + i]
  <2>1. m + 1 \in Nat /\ n \in Nat /\ m + 1 >= 1 /\ n <= Len(q)
    BY <1>1
  <2>2. /\ SubSeq(q, m + 1, n) \in Seq(S)
        /\ Len(SubSeq(q, m + 1, n)) = IF m + 1 <= n THEN n - (m + 1) + 1 ELSE 0
        /\ \A i \in 1..(n - (m + 1) + 1) : SubSeq(q, m + 1, n)[i] = q[(m + 1) + i - 1]
    BY <2>1
  <2>3. n - (m + 1) + 1 = n - m /\ (~(m + 1 <= n) => n - m = 0)
    BY <1>1
  <2>4. \A i \in 1..(n - m) : (m + 1) + i - 1 = m + i
    BY <1>1
  <2> QED
    BY <1>3, <2>2, <2>3, <2>4
<1>5. DOMAIN Page(q) = 1..m /\ DOMAIN Rest(q) = 1..(n - m)
  BY <1>2, <1>4
<1>6. CutAt(q, m, S)
  BY <1>1, <1>2, <1>4, <1>5 DEF CutAt
<1> QED
  BY <1>1, <1>6

(* No document is in the order twice.                                      *)
Distinct(q) == \A i, j \in DOMAIN q : i # j => q[i] # q[j]

(* The order of a search has the documents found, each once, and no other. *)
LEMMA Searched ==
  ASSUME NEW S, IsFiniteSet(S), NEW q \in SetToSeqs(S)
  PROVE  q \in Seq(S) /\ ToSet(q) = S /\ Distinct(q)
<1> DEFINE n == Cardinality(S)
<1>1. n \in Nat
  BY FS_CardinalityType
<1>2. q \in [1..n -> S] /\ \A i, j \in 1..n : i # j => q[i] # q[j]
  BY DEF SetToSeqs
<1>3. IsFiniteSet(1..n) /\ Cardinality(1..n) = n
  BY <1>1, FS_Interval
<1>4. q \in Injection(1..n, S)
  BY <1>2 DEF Injection, IsInjective
<1>5. q \in Surjection(1..n, S)
  BY <1>3, <1>4, FS_Injection
<1>6. \A x \in S : \E i \in 1..n : q[i] = x
  BY <1>5 DEF Surjection
<1>7. q \in Seq(S) /\ DOMAIN q = 1..n
  BY <1>1, <1>2
<1> QED
  BY <1>2, <1>6, <1>7 DEF ToSet, Distinct

(* The page and the rest of it.                                            *)
LEMMA Pages ==
  ASSUME NEW S, NEW q \in Seq(S)
  PROVE  /\ Rest(q) \in Seq(S) /\ PageIds(q) \subseteq S
         /\ ToSet(q) = PageIds(q) \cup ToSet(Rest(q))
         /\ Distinct(q) => Distinct(Rest(q)) /\ PageIds(q) \cap ToSet(Rest(q)) = {}
<1> DEFINE n == Len(q)
<1>0. PICK m \in 0..n : CutAt(q, m, S)
  BY PageElements
<1>1. /\ Page(q) \in Seq(S) /\ DOMAIN Page(q) = 1..m
      /\ \A i \in 1..m : Page(q)[i] = q[i]
      /\ Rest(q) \in Seq(S) /\ DOMAIN Rest(q) = 1..(n - m)
      /\ \A i \in 1..(n - m) : Rest(q)[i] = q[m + i]
  BY <1>0 DEF CutAt
<1>2. n \in Nat /\ DOMAIN q = 1..n
  OBVIOUS
<1>3. /\ ToSet(q) = {q[i] : i \in 1..n}
      /\ PageIds(q) = {Page(q)[i] : i \in 1..m}
      /\ ToSet(Rest(q)) = {Rest(q)[i] : i \in 1..(n - m)}
  <2>1. DOMAIN q = 1..n /\ DOMAIN Page(q) = 1..m /\ DOMAIN Rest(q) = 1..(n - m)
    BY <1>1, <1>2
  <2> QED
    BY <2>1 DEF ToSet, PageIds
<1>4. ASSUME NEW i \in 1..n
      PROVE  q[i] \in PageIds(q) \cup ToSet(Rest(q))
  <2>1. CASE i \in 1..m
    BY <1>1, <1>3, <2>1
  <2>2. CASE i \notin 1..m
    <3>1. i - m \in 1..(n - m) /\ m + (i - m) = i
      BY <1>2, <2>2
    <3>2. Rest(q)[i - m] = q[i]
      BY <1>1, <3>1
    <3> QED
      BY <1>3, <3>1, <3>2
  <2> QED
    BY <2>1, <2>2
<1>5. \A i \in 1..(n - m) : m + i \in 1..n
  BY <1>2
<1>6. PageIds(q) \subseteq ToSet(q)
  BY <1>1, <1>2, <1>3
<1>7. ToSet(Rest(q)) \subseteq ToSet(q)
  BY <1>1, <1>3, <1>5
<1>8. ToSet(q) \subseteq S
  BY <1>2, <1>3
<1>9. ASSUME Distinct(q)
      PROVE  Distinct(Rest(q)) /\ PageIds(q) \cap ToSet(Rest(q)) = {}
  <2>1. ASSUME NEW i \in 1..(n - m), NEW j \in 1..(n - m), i # j
        PROVE  Rest(q)[i] # Rest(q)[j]
    <3>1. m + i # m + j
      BY <1>2, <2>1
    <3> QED
      BY <1>1, <1>2, <1>5, <1>9, <3>1 DEF Distinct
  <2>2. ASSUME NEW i \in 1..m, NEW j \in 1..(n - m)
        PROVE  Page(q)[i] # Rest(q)[j]
    <3>1. i # m + j /\ i \in 1..n
      BY <1>2
    <3> QED
      BY <1>1, <1>2, <1>5, <1>9, <3>1 DEF Distinct
  <2> QED
    BY <1>1, <1>3, <2>1, <2>2 DEF Distinct
<1>10. ToSet(q) \subseteq PageIds(q) \cup ToSet(Rest(q))
  BY <1>3, <1>4
<1> QED
  BY <1>1, <1>6, <1>7, <1>8, <1>9, <1>10

(* Nothing is left of an empty scroll.                                     *)
LEMMA NothingLeft ==
  /\ ToSet(<<>>) = {} /\ PageIds(<<>>) = {} /\ Rest(<<>>) = <<>> /\ <<>> \in Seq(Ids)
  /\ \A q \in Seq(Ids) : ToSet(q) = {} => q = <<>>
<1>1. ToSet(<<>>) = {} /\ <<>> \in Seq(Ids)
  BY DEF ToSet
<1>2. Page(<<>>) = <<>>
  <2>1. PageSize \in Nat \ {0} /\ Len(<<>>) = 0
    BY ClustersAssumption
  <2> QED
    BY <2>1 DEF Page
<1>3. Rest(<<>>) = <<>>
  BY <1>2 DEF Rest
<1>4. ASSUME NEW q \in Seq(Ids), q # <<>>
      PROVE  ToSet(q) # {}
  <2>1. 1 \in DOMAIN q
    BY <1>4
  <2> QED
    BY <2>1 DEF ToSet
<1> QED
  BY <1>1, <1>2, <1>3, <1>4 DEF PageIds
-----------------------------------------------------------------------------
(* What the cluster written to must hold for a document of the snapshot.   *)
Altered(id) ==
  ~shouldIgnoreTx(snapshot[id]) /\ ~cannotPrepare(id) =>
    /\ cluster[writeTo][id] # NoDoc
    /\ cluster[writeTo][id].parsed = (id \notin FromMetachain \/ snapshot[id].parsed)

AlterTypes ==
  /\ cluster \in [Sides -> [Ids -> Documents \cup {NoDoc}]]
  /\ snapshot \in [Ids -> Documents \cup {NoDoc}]
  /\ writeTo \in Sides
  /\ modifier \in [pc : {"search", "handle", "scroll", "done", "failed"},
                   scroll : Scrolls, page : SUBSET Ids]

(* The invariant of AlterIndex: a document found by the search was altered *)
(* or is still in the page or in what the scroll will return.              *)
AlterInv ==
  /\ AlterTypes
  /\ modifier.page \subseteq Present(snapshot)
  /\ ToSet(modifier.scroll.rest) \subseteq Present(snapshot)
  /\ modifier.pc \in {"search", "scroll", "done"} => modifier.page = {}
  /\ modifier.pc \in {"search", "done"} => modifier.scroll.rest = <<>>
  /\ modifier.pc \in {"handle", "scroll", "done"} =>
       \A id \in Present(snapshot) :
         id \in modifier.page \cup ToSet(modifier.scroll.rest) \/ Altered(id)

(* What is written for a document has the status that was read.            *)
LEMMA Prepared ==
  ASSUME NEW id \in Ids, NEW doc \in Documents
  PROVE  /\ prepareTxForIndexing(id, doc) \in Documents
         /\ prepareTxForIndexing(id, doc).status = doc.status
         /\ prepareTxForIndexing(id, doc).parsed = (id \notin FromMetachain \/ doc.parsed)
BY DEF prepareTxForIndexing, Documents

(* A failed request ends the tool.                                         *)
LEMMA FailingKeepsInv ==
  ASSUME AlterInv, AlterFails, cluster' \in [Sides -> [Ids -> Documents \cup {NoDoc}]]
  PROVE  AlterInv'
<1>1. /\ modifier'.pc = "failed" /\ modifier'.scroll = NoScroll /\ modifier'.page = {}
      /\ modifier' \in [pc : {"search", "handle", "scroll", "done", "failed"},
                       scroll : Scrolls, page : SUBSET Ids]
      /\ UNCHANGED <<writeTo, snapshot>>
  <2>1. NoScroll \in Scrolls
    BY NothingLeft DEF NoScroll, Scrolls
  <2> QED
    BY <2>1 DEF AlterFails, AlterInv, AlterTypes
<1>2. ToSet(modifier'.scroll.rest) = {}
  BY <1>1, NothingLeft DEF NoScroll
<1> QED
  BY <1>1, <1>2 DEF AlterInv, AlterTypes

(* The search.                                                             *)
LEMMA SearchKeepsInv ==
  ASSUME AlterInv, DoScrollRequestAllDocuments
  PROVE  AlterInv'
<1> DEFINE found == Present(cluster["source"])
<1>1. UNCHANGED cluster /\ cluster["source"] \in [Ids -> Documents \cup {NoDoc}]
  BY DEF DoScrollRequestAllDocuments, AlterInv, AlterTypes, Sides
<1>2. ASSUME NEW q \in Unsorted(found),
             modifier' = [pc |-> "handle", page |-> PageIds(q),
                          scroll |-> [rest |-> Rest(q), open |-> TRUE, held |-> TRUE, done |-> FALSE]],
             snapshot' = cluster["source"], UNCHANGED <<writeTo, failures>>
      PROVE  AlterInv'
  <2>1. found \subseteq Ids /\ IsFiniteSet(found)
    BY <1>1, ClustersAssumption, FS_Subset DEF Present
  <2>2. q \in Seq(found) /\ ToSet(q) = found
    BY <2>1, <1>2, Searched DEF Unsorted
  <2>3. /\ Rest(q) \in Seq(found) /\ PageIds(q) \subseteq found
        /\ found = PageIds(q) \cup ToSet(Rest(q))
    BY <2>2, Pages
  <2>4. Rest(q) \in Seq(Ids)
    BY <2>1, <2>3
  <2>5. /\ modifier' \in [pc : {"search", "handle", "scroll", "done", "failed"},
                         scroll : Scrolls, page : SUBSET Ids]
        /\ modifier'.pc = "handle" /\ modifier'.page = PageIds(q)
        /\ modifier'.scroll.rest = Rest(q)
    BY <1>2, <2>1, <2>3, <2>4 DEF Scrolls
  <2>6. AlterTypes'
    BY <1>1, <1>2, <2>5 DEF AlterInv, AlterTypes
  <2>7. Present(snapshot)' = found
    BY <1>2 DEF Present
  <2> HIDE DEF found
  <2> QED
    BY <2>3, <2>5, <2>6, <2>7 DEF AlterInv
<1> QED
  BY <1>1, <1>2, FailingKeepsInv DEF DoScrollRequestAllDocuments, AlterInv, AlterTypes

(* The bulk request of a page: what it writes, or a part of it.            *)
LEMMA PageWritten ==
  ASSUME AlterInv, NEW ids \in SUBSET Modify(modifier.page),
         cluster' = [cluster EXCEPT ![writeTo] = Written(@, ids)], UNCHANGED <<writeTo, snapshot>>
  PROVE  /\ cluster' \in [Sides -> [Ids -> Documents \cup {NoDoc}]]
         /\ \A id \in ids :
              /\ id \in Ids /\ snapshot[id] \in Documents /\ snapshot[id].status = "success"
              /\ cluster'[writeTo][id] = prepareTxForIndexing(id, snapshot[id])
         /\ \A s \in Sides, id \in Ids :
              s # writeTo \/ id \notin ids => cluster'[s][id] = cluster[s][id]
<1>1. \A id \in ids : id \in Ids /\ snapshot[id] \in Documents /\ snapshot[id].status = "success"
  BY DEF AlterInv, AlterTypes, Modify, Present, shouldIgnoreTx, Documents
<1>2. \A id \in ids : prepareTxForIndexing(id, snapshot[id]) \in Documents
  BY <1>1, Prepared
<1>3. /\ cluster \in [Sides -> [Ids -> Documents \cup {NoDoc}]] /\ writeTo \in Sides
      /\ cluster[writeTo] \in [Ids -> Documents \cup {NoDoc}]
  BY DEF AlterInv, AlterTypes
<1> DEFINE docs == Written(cluster[writeTo], ids)
<1>4. /\ docs \in [Ids -> Documents \cup {NoDoc}]
      /\ \A id \in Ids : docs[id] = IF id \in ids THEN prepareTxForIndexing(id, snapshot[id])
                                                  ELSE cluster[writeTo][id]
  BY <1>2, <1>3 DEF Written
<1>5. cluster' = [cluster EXCEPT ![writeTo] = docs]
  OBVIOUS
<1> HIDE DEF docs
<1>6. /\ cluster' \in [Sides -> [Ids -> Documents \cup {NoDoc}]]
      /\ cluster'[writeTo] = docs
      /\ \A s \in Sides : s # writeTo => cluster'[s] = cluster[s]
  BY <1>3, <1>4, <1>5
<1> QED
  BY <1>1, <1>4, <1>6

(* A page is handled.                                                      *)
LEMMA HandleKeepsInv ==
  ASSUME AlterInv, HandlePage
  PROVE  AlterInv'
<1>1. PICK ids \in SUBSET Modify(modifier.page) :
        /\ cluster' = [cluster EXCEPT ![writeTo] = Written(@, ids)]
        /\ \/ /\ ids = Modify(modifier.page)
              /\ modifier' = [modifier EXCEPT !.pc = "scroll", !.page = {}]
              /\ UNCHANGED <<writeTo, snapshot, failures>>
           \/ AlterFails
  BY DEF HandlePage
<1>2. UNCHANGED <<writeTo, snapshot>>
  BY <1>1 DEF AlterFails
<1>3. cluster' \in [Sides -> [Ids -> Documents \cup {NoDoc}]]
  BY <1>1, <1>2, PageWritten
<1>4. CASE AlterFails
  BY <1>3, <1>4, FailingKeepsInv
<1>5. CASE ids = Modify(modifier.page) /\ modifier' = [modifier EXCEPT !.pc = "scroll", !.page = {}]
  <2>1. /\ modifier' \in [pc : {"search", "handle", "scroll", "done", "failed"},
                         scroll : Scrolls, page : SUBSET Ids]
        /\ modifier'.pc = "scroll" /\ modifier'.page = {} /\ modifier'.scroll = modifier.scroll
    BY <1>5 DEF AlterInv, AlterTypes
  <2>2. AlterTypes'
    BY <1>2, <1>3, <2>1 DEF AlterInv, AlterTypes
  <2>3. ASSUME NEW id \in Present(snapshot), id \notin ToSet(modifier.scroll.rest)
        PROVE  Altered(id)'
    <3>1. id \in Ids /\ snapshot[id] \in Documents /\ writeTo \in Sides
      BY DEF AlterInv, AlterTypes, Present
    <3>2. CASE id \in ids
      <4>1. cluster'[writeTo][id] = prepareTxForIndexing(id, snapshot[id])
        BY <1>1, <1>2, <3>2, PageWritten
      <4>2. /\ prepareTxForIndexing(id, snapshot[id]) # NoDoc
            /\ prepareTxForIndexing(id, snapshot[id]).parsed = (id \notin FromMetachain \/ snapshot[id].parsed)
        BY <3>1, Prepared, ClustersAssumption
      <4> QED
        BY <1>2, <4>1, <4>2 DEF Altered
    <3>3. CASE id \notin ids
      <4>1. cluster'[writeTo][id] = cluster[writeTo][id]
        BY <1>1, <1>2, <3>1, <3>3, PageWritten
      <4>2. CASE id \in modifier.page
        BY <1>2, <1>5, <3>3, <4>2 DEF Modify, Altered
      <4>3. CASE id \notin modifier.page
        <5>1. Altered(id)
          BY <2>3, <4>3, HandlePage DEF HandlePage, AlterInv
        <5> QED
          BY <1>2, <4>1, <5>1 DEF Altered
      <4> QED
        BY <4>2, <4>3
    <3> QED
      BY <3>2, <3>3
  <2>4. Present(snapshot)' = Present(snapshot)
    BY <1>2 DEF Present
  <2> QED
    BY <2>1, <2>2, <2>3, <2>4 DEF AlterInv
<1> QED
  BY <1>1, <1>4, <1>5
(* The next page, or none.                                                 *)
LEMMA IterateKeepsInv ==
  ASSUME AlterInv, IterateScroll
  PROVE  AlterInv'
<1> DEFINE rest == modifier.scroll.rest
<1>1. UNCHANGED cluster /\ modifier.pc = "scroll" /\ modifier.page = {}
  BY DEF IterateScroll, AlterInv
<1>2. rest \in Seq(Ids) /\ modifier.scroll \in Scrolls
  BY DEF AlterInv, AlterTypes, Scrolls
<1>3. CASE AlterFails
  BY <1>1, <1>3, FailingKeepsInv DEF AlterInv, AlterTypes
<1>4. CASE /\ rest = <<>> /\ modifier' = [modifier EXCEPT !.pc = "done", !.scroll = NoScroll]
           /\ UNCHANGED <<writeTo, snapshot>>
  <2>1. NoScroll \in Scrolls /\ ToSet(NoScroll.rest) = {} /\ ToSet(rest) = {} /\ NoScroll.rest = <<>>
    BY <1>4, NothingLeft DEF NoScroll, Scrolls
  <2>2. /\ modifier' \in [pc : {"search", "handle", "scroll", "done", "failed"},
                         scroll : Scrolls, page : SUBSET Ids]
        /\ modifier'.pc = "done" /\ modifier'.page = {} /\ modifier'.scroll = NoScroll
    BY <1>1, <1>4, <2>1 DEF AlterInv, AlterTypes
  <2>3. \A id \in Present(snapshot) : Altered(id)
    BY <1>1, <2>1 DEF AlterInv
  <2>4. \A id \in Present(snapshot) : Altered(id)'
    BY <1>1, <1>4, <2>3 DEF Altered
  <2>5. AlterTypes' /\ Present(snapshot)' = Present(snapshot)
    BY <1>1, <1>4, <2>2 DEF AlterInv, AlterTypes, Present
  <2> QED
    BY <2>1, <2>2, <2>4, <2>5 DEF AlterInv
<1>5. CASE /\ rest # <<>> /\ UNCHANGED <<writeTo, snapshot>>
           /\ modifier' = [pc |-> "handle", page |-> PageIds(rest),
                           scroll |-> [modifier.scroll EXCEPT !.rest = Rest(@)]]
  <2>1. /\ Rest(rest) \in Seq(Ids) /\ PageIds(rest) \subseteq Ids
        /\ ToSet(rest) = PageIds(rest) \cup ToSet(Rest(rest))
    BY <1>2, Pages
  <2>2. /\ modifier' \in [pc : {"search", "handle", "scroll", "done", "failed"},
                         scroll : Scrolls, page : SUBSET Ids]
        /\ modifier'.pc = "handle" /\ modifier'.page = PageIds(rest)
        /\ modifier'.scroll.rest = Rest(rest)
    BY <1>2, <1>5, <2>1 DEF Scrolls
  <2>3. \A id \in Present(snapshot) : id \in ToSet(rest) \/ Altered(id)
    BY <1>1 DEF AlterInv
  <2>4. \A id \in Present(snapshot) : id \in PageIds(rest) \cup ToSet(Rest(rest)) \/ Altered(id)'
    BY <1>1, <1>5, <2>1, <2>3 DEF Altered
  <2>5. AlterTypes' /\ Present(snapshot)' = Present(snapshot)
    BY <1>1, <1>5, <2>2 DEF AlterInv, AlterTypes, Present
  <2>6. ToSet(rest) \subseteq Present(snapshot)
    BY DEF AlterInv
  <2> QED
    BY <2>1, <2>2, <2>4, <2>5, <2>6 DEF AlterInv
<1> QED
  BY <1>3, <1>4, <1>5 DEF IterateScroll

(* The indexer executes a transaction meanwhile.                           *)
LEMMA Executed ==
  ASSUME AlterTypes, NEW id \in Ids, Execute(id)
  PROVE  /\ cluster' \in [Sides -> [Ids -> Documents \cup {NoDoc}]]
         /\ \A s \in Sides, i \in Ids :
              \/ cluster'[s][i] = cluster[s][i]
              \/ /\ cluster[s][i] \in Documents /\ cluster'[s][i] \in Documents
                 /\ cluster'[s][i].parsed = cluster[s][i].parsed
                 /\ cluster'[s][i].status = "success"
<1> DEFINE doc == [cluster["source"][id] EXCEPT !.status = "success"]
           docs == [cluster["source"] EXCEPT ![id] = doc]
<1>1. /\ cluster \in [Sides -> [Ids -> Documents \cup {NoDoc}]] /\ "source" \in Sides
      /\ cluster["source"] \in [Ids -> Documents \cup {NoDoc}]
      /\ cluster["source"][id] \in Documents
  BY DEF AlterTypes, Sides, Execute
<1>2. doc \in Documents /\ doc.parsed = cluster["source"][id].parsed /\ doc.status = "success"
  BY <1>1 DEF Documents
<1>3. cluster' = [cluster EXCEPT !["source"] = docs]
  BY <1>1 DEF Execute
<1> HIDE DEF doc
<1>4. docs \in [Ids -> Documents \cup {NoDoc}] /\ docs[id] = doc
      /\ \A i \in Ids : i # id => docs[i] = cluster["source"][i]
  BY <1>1, <1>2
<1> HIDE DEF docs
<1>5. /\ cluster' \in [Sides -> [Ids -> Documents \cup {NoDoc}]] /\ cluster'["source"] = docs
      /\ \A s \in Sides : s # "source" => cluster'[s] = cluster[s]
  BY <1>1, <1>3, <1>4
<1> QED
  BY <1>1, <1>2, <1>4, <1>5

(* Every step keeps the invariant of the index modifier.                   *)
LEMMA AlterInvStep ==
  ASSUME AlterInv, [Next]_vars
  PROVE  AlterInv'
<1>1. ASSUME UNCHANGED <<cluster, modifierVars>>
      PROVE  AlterInv'
  BY <1>1 DEF modifierVars, AlterInv, AlterTypes, Altered, Present
<1>2. ASSUME NEW id \in Ids, Execute(id)
      PROVE  AlterInv'
  <2>1. UNCHANGED modifierVars
    BY <1>2 DEF Execute
  <2>2. AlterTypes' /\ Present(snapshot)' = Present(snapshot)
    BY <1>2, <2>1, Executed DEF AlterInv, AlterTypes, modifierVars, Present
  <2>3. ASSUME NEW i \in Ids, Altered(i)
        PROVE  Altered(i)'
    <3>1. \/ cluster'[writeTo][i] = cluster[writeTo][i]
          \/ /\ cluster'[writeTo][i] \in Documents
             /\ cluster'[writeTo][i].parsed = cluster[writeTo][i].parsed
      BY <1>2, Executed DEF AlterInv, AlterTypes
    <3> QED
      BY <2>1, <2>3, <3>1, ClustersAssumption DEF Altered, modifierVars
  <2>4. Present(snapshot) \subseteq Ids
    BY DEF AlterInv, AlterTypes, Present
  <2> QED
    BY <2>1, <2>2, <2>3, <2>4 DEF AlterInv, modifierVars
<1>3. ASSUME Alter
      PROVE  AlterInv'
  BY <1>3, SearchKeepsInv, HandleKeepsInv, IterateKeepsInv DEF Alter, AlterIndex
<1>4. ASSUME StartChecker
      PROVE  AlterInv'
  <2>1. Idle \in [pc : {"search", "handle", "scroll", "done", "failed"},
                  scroll : Scrolls, page : SUBSET Ids]
    BY NothingLeft DEF Idle, NoScroll, Scrolls
  <2>2. modifier' = Idle /\ snapshot' = [id \in Ids |-> NoDoc] /\ writeTo' = "source" /\ UNCHANGED cluster
    BY <1>4 DEF StartChecker
  <2>3. AlterTypes'
    BY <2>1, <2>2 DEF AlterInv, AlterTypes, Sides
  <2>4. Idle.pc = "search" /\ Idle.page = {} /\ Idle.scroll.rest = <<>> /\ ToSet(Idle.scroll.rest) = {}
    BY NothingLeft DEF Idle, NoScroll
  <2> QED
    BY <2>2, <2>3, <2>4 DEF AlterInv
<1>5. ASSUME NEW k \in 1..MaxParallelReads, Check(k)
      PROVE  AlterInv'
  BY <1>1, <1>5 DEF Check
<1> QED
  BY <1>1, <1>2, <1>3, <1>4, <1>5 DEF Next, Stopped, vars, modifierVars

(* The invariant of the index modifier holds from the start.               *)
LEMMA AlterInvInit == Init => AlterInv
<1>1. ASSUME Init
      PROVE  AlterInv
  <2>1. Idle \in [pc : {"search", "handle", "scroll", "done", "failed"},
                  scroll : Scrolls, page : SUBSET Ids]
    BY NothingLeft DEF Idle, NoScroll, Scrolls
  <2>2. Idle.pc = "search" /\ Idle.page = {} /\ Idle.scroll.rest = <<>> /\ ToSet(Idle.scroll.rest) = {}
    BY NothingLeft DEF Idle, NoScroll
  <2>3. AlterTypes
    BY <1>1, <2>1, InitialAssumption DEF Init, ModifierInit, AlterTypes
  <2> QED
    BY <1>1, <2>2, <2>3 DEF Init, ModifierInit, AlterInv
<1> QED
  BY <1>1

(* When AlterIndex of tools/index-modifier returned without an error,      *)
(* every document that was not pending at the time of the search and could *)
(* be prepared is in the cluster it wrote to in its new form, whatever the *)
(* indexer executed meanwhile and however the scroll was paged.            *)
THEOREM AlterIsComplete == Spec => []AlterComplete
<1>1. AlterInv => AlterComplete
  <2>1. ASSUME AlterInv, modifier.pc = "done", NEW id \in Present(snapshot)
        PROVE  Altered(id)
    BY <2>1, NothingLeft DEF AlterInv
  <2> QED
    BY <2>1 DEF AlterComplete, Altered
<1>2. AlterInv /\ [Next]_vars => AlterInv'
  BY AlterInvStep
<1> QED
  BY <1>1, <1>2, AlterInvInit, PTL DEF Spec

(* The index modifier writes documents as they were when it read their     *)
(* page, while the indexer executes transactions: an executed transaction  *)
(* never becomes pending again, because shouldIgnoreTx leaves out what was *)
(* pending when it was read.                                               *)
THEOREM ExecutionIsKept == Spec => AlterKeepsExecution
<1> DEFINE Kept == \A id \in Ids :
                     /\ cluster["source"][id] # NoDoc
                     /\ cluster["source"][id].status = "success"
                     => cluster'["source"][id] # NoDoc /\ cluster'["source"][id].status = "success"
<1>1. AlterInv /\ [Next]_vars => [Kept]_vars
  <2>1. SUFFICES ASSUME AlterInv, Next, NEW id \in Ids,
                        cluster["source"][id] # NoDoc, cluster["source"][id].status = "success"
                 PROVE  cluster'["source"][id] # NoDoc /\ cluster'["source"][id].status = "success"
    OBVIOUS
  <2>2. "source" \in Sides
    BY DEF Sides
  <2>3. CASE UNCHANGED cluster
    BY <2>1, <2>3
  <2>4. ASSUME NEW i \in Ids, Execute(i)
        PROVE  cluster'["source"][id] # NoDoc /\ cluster'["source"][id].status = "success"
    <3>1. \/ cluster'["source"][id] = cluster["source"][id]
          \/ cluster'["source"][id] \in Documents /\ cluster'["source"][id].status = "success"
      BY <2>1, <2>2, <2>4, Executed DEF AlterInv
    <3> QED
      BY <2>1, <3>1, ClustersAssumption
  <2>5. ASSUME HandlePage
        PROVE  cluster'["source"][id] # NoDoc /\ cluster'["source"][id].status = "success"
    <3>1. PICK ids \in SUBSET Modify(modifier.page) :
            /\ cluster' = [cluster EXCEPT ![writeTo] = Written(@, ids)]
            /\ UNCHANGED <<writeTo, snapshot>>
      BY <2>5 DEF HandlePage, AlterFails
    <3>2. CASE writeTo # "source" \/ id \notin ids
      BY <2>1, <2>2, <3>1, <3>2, PageWritten
    <3>3. CASE writeTo = "source" /\ id \in ids
      <4>1. /\ cluster'["source"][id] = prepareTxForIndexing(id, snapshot[id])
            /\ snapshot[id] \in Documents /\ snapshot[id].status = "success"
        BY <2>1, <3>1, <3>3, PageWritten
      <4> QED
        BY <4>1, Prepared, ClustersAssumption
    <3> QED
      BY <3>2, <3>3
  <2> QED
    BY <2>1, <2>3, <2>4, <2>5 DEF Next, Alter, AlterIndex, DoScrollRequestAllDocuments,
       IterateScroll, StartChecker, Check, Stopped, vars
<1>2. AlterInv /\ [Next]_vars => AlterInv'
  BY AlterInvStep
<1>3. Spec => [][Kept]_vars
  BY <1>1, <1>2, AlterInvInit, PTL DEF Spec
<1> QED
  BY <1>3 DEF AlterKeepsExecution
-----------------------------------------------------------------------------
(* A time is between the start and the end just if an interval has it.     *)
Covered(start, end, n, t) ==
  LET intervals == computeIntervals(start, end, n)
  IN  start <= t /\ t <= end <=>
        \E k \in 1..n : intervals[k].start <= t /\ t <= intervals[k].stop

(* computeIntervals: the intervals of the parallel reads leave nothing     *)
(* out, and nothing is outside of them.                                    *)
LEMMA Intervals ==
  ASSUME NEW start \in Nat, NEW end \in Nat, start <= end, NEW n \in Nat \ {0}, NEW t \in Nat
  PROVE  Covered(start, end, n, t)
<1> DEFINE w == (end - start) \div n
           intervals == computeIntervals(start, end, n)
<1>1. w \in Nat /\ n * w <= end - start
  BY Z3
<1>2. CASE n < 2
  BY <1>2 DEF computeIntervals, Covered
<1>3. CASE n >= 2
  <2>1. \A k \in 1..n : /\ intervals[k].start = start + (k - 1) * w
                        /\ intervals[k].stop = IF k = n THEN end ELSE start + k * w
    BY <1>3 DEF computeIntervals
  <2> HIDE DEF intervals, w
  <2>2. ASSUME NEW k \in 1..n
        PROVE  /\ 0 <= (k - 1) * w /\ (k - 1) * w \in Int
               /\ 0 <= k * w /\ k * w <= n * w /\ k * w \in Int
    <3>1. k \in Int /\ k >= 1 /\ k <= n /\ w \in Int /\ w >= 0
      BY <1>1
    <3>2. 0 <= (k - 1) * w /\ (k - 1) * w \in Int
      BY <3>1
    <3>3. 0 <= k * w /\ k * w \in Int
      BY <3>1
    <3>4. k * w <= n * w
      BY <3>1
    <3> QED
      BY <3>2, <3>3, <3>4
  <2>3. ASSUME NEW k \in 1..n, intervals[k].start <= t, t <= intervals[k].stop
        PROVE  start <= t /\ t <= end
    <3>1. start + (k - 1) * w <= t /\ t <= IF k = n THEN end ELSE start + k * w
      BY <2>1, <2>3
    <3>2. PICK a \in Int, b \in Int, c \in Int : a = (k - 1) * w /\ b = k * w /\ c = n * w
      BY <1>1, <2>2
    <3>3. 0 <= a /\ b <= c /\ c <= end - start
      BY <1>1, <2>2, <3>2
    <3>4. start + a <= t /\ t <= IF k = n THEN end ELSE start + b
      BY <3>1, <3>2
    <3> QED
      BY <3>3, <3>4
  <2>4. ASSUME start <= t, t <= end
        PROVE  \E k \in 1..n : intervals[k].start <= t /\ t <= intervals[k].stop
    <3>1. CASE start + (n - 1) * w <= t
      <4>1. n \in 1..n /\ intervals[n].start <= t /\ t <= intervals[n].stop
        BY <1>3, <2>1, <2>4, <3>1
      <4> QED
        BY <4>1
    <3>2. CASE t < start + (n - 1) * w
      <4> DEFINE q == (t - start) \div w
      <4>1. w > 0
        <5>1. w = 0 => (n - 1) * w = 0
          BY <1>1
        <5> QED
          BY <1>1, <2>4, <3>2, <5>1
      <4>2. q \in Nat /\ q * w <= t - start /\ t - start <= (q + 1) * w
        BY <1>1, <2>4, <4>1
      <4> HIDE DEF q
      <4>3. q < n - 1
        <5>1. q >= n - 1 => q * w >= (n - 1) * w
          BY <1>1, <4>2
        <5>2. (n - 1) * w \in Int /\ q * w \in Int
          BY <1>1, <4>2
        <5> QED
          BY <1>1, <3>2, <4>2, <5>1, <5>2
      <4>4. q + 1 \in 1..n /\ q + 1 # n /\ (q + 1) - 1 = q
        BY <4>2, <4>3
      <4>5. intervals[q + 1].start = start + q * w /\ intervals[q + 1].stop = start + (q + 1) * w
        BY <2>1, <4>4
      <4>6. q * w \in Int /\ (q + 1) * w \in Int
        BY <1>1, <4>2
      <4>7. intervals[q + 1].start <= t /\ t <= intervals[q + 1].stop
        BY <4>2, <4>5, <4>6
      <4> QED
        BY <4>4, <4>7
    <3>3. (n - 1) * w \in Int
      BY <1>1
    <3> QED
      BY <3>1, <3>2, <3>3
  <2> QED
    BY <2>3, <2>4 DEF intervals, Covered
<1> QED
  BY <1>2, <1>3
-----------------------------------------------------------------------------
InRange == {id \in Ids : BlockchainStartTime <= Timestamp[id] /\ Timestamp[id] <= Now}

(* The intervals of the checkers make up the range.                        *)
LEMMA InstancesCover ==
  ASSUME mode = "withTimestamp", numParallelReads \in Nat \ {0}
  PROVE  InRange = UNION {InInterval(k) : k \in Instances}
<1> DEFINE intervals == computeIntervals(BlockchainStartTime, Now, numParallelReads)
<1>1. Instances = 1..numParallelReads
  BY DEF Instances
<1>2. ASSUME NEW id \in Ids
      PROVE  id \in InRange <=> \E k \in 1..numParallelReads : id \in InInterval(k)
  <2>1. Timestamp[id] \in Nat
    BY ClustersAssumption
  <2>2. \A k : id \in InInterval(k) <=>
               intervals[k].start <= Timestamp[id] /\ Timestamp[id] <= intervals[k].stop
    BY DEF InInterval
  <2>3. id \in InRange <=> BlockchainStartTime <= Timestamp[id] /\ Timestamp[id] <= Now
    BY DEF InRange
  <2>4. id \in InRange <=> \E k \in 1..numParallelReads :
               intervals[k].start <= Timestamp[id] /\ Timestamp[id] <= intervals[k].stop
    <3>1. Covered(BlockchainStartTime, Now, numParallelReads, Timestamp[id])
      BY <2>1, Intervals, CheckerAssumption
    <3> QED
      BY <2>3, <3>1 DEF Covered
  <2> HIDE DEF intervals
  <2> QED
    BY <2>2, <2>4
<1>3. InRange \subseteq Ids /\ \A k : InInterval(k) \subseteq Ids
  BY DEF InRange, InInterval
<1> QED
  BY <1>1, <1>2, <1>3

(* The two sides.                                                          *)
LEMMA TwoSides ==
  /\ Sides = {"source", "destination"}
  /\ other("source") = "destination" /\ other("destination") = "source"
  /\ \A s \in Sides : other(s) \in Sides /\ other(other(s)) = s
BY DEF Sides, other

NotFoundAt(side, id) == [kind |-> "not found", side |-> side, id |-> id]

(* A document that both sides have is reported if it has to be.            *)
Settled(id, rep) ==
  ~onlyIDs /\ ~areEqualJSON(id) => [kind |-> "different", id |-> id] \in rep

(* Which reports contain the differences between some documents.           *)
LEMMA DifferencesReported ==
  ASSUME NEW ids, NEW rep
  PROVE  Differences(ids) \subseteq rep <=>
           \A s \in Sides : \A id \in Present(cluster[s]) \cap ids :
             IF id \in Present(cluster[other(s)]) THEN Settled(id, rep)
                                                  ELSE NotFoundAt(other(s), id) \in rep
<1> DEFINE S == Present(cluster["source"]) \cap ids
           D == Present(cluster["destination"]) \cap ids
<1>1. Differences(ids) = NotFound("destination", S \ D) \cup NotFound("source", D \ S)
                           \cup Different(S \cap D)
  BY DEF Differences
<1>2. /\ NotFound("destination", S \ D) \subseteq rep <=> \A id \in S \ D : NotFoundAt("destination", id) \in rep
      /\ NotFound("source", D \ S) \subseteq rep <=> \A id \in D \ S : NotFoundAt("source", id) \in rep
      /\ Different(S \cap D) \subseteq rep <=> \A id \in S \cap D : Settled(id, rep)
  BY DEF NotFound, NotFoundAt, Different, Settled
<1>3. /\ \A id \in S : id \in Present(cluster["destination"]) <=> id \in D
      /\ \A id \in D : id \in Present(cluster["source"]) <=> id \in S
  OBVIOUS
<1>4. (\A s \in Sides : \A id \in Present(cluster[s]) \cap ids :
         IF id \in Present(cluster[other(s)]) THEN Settled(id, rep)
                                              ELSE NotFoundAt(other(s), id) \in rep)
      <=> /\ \A id \in S : IF id \in D THEN Settled(id, rep) ELSE NotFoundAt("destination", id) \in rep
          /\ \A id \in D : IF id \in S THEN Settled(id, rep) ELSE NotFoundAt("source", id) \in rep
  BY <1>3, TwoSides
<1> HIDE DEF S, D
<1> QED
  BY <1>1, <1>2, <1>4

(* What belongs to them.                                                   *)
LEMMA DifferencesContain ==
  ASSUME NEW ids
  PROVE  /\ \A s \in Sides : \A id \in (Present(cluster[s]) \cap ids) \ Present(cluster[other(s)]) :
              NotFoundAt(other(s), id) \in Differences(ids)
         /\ Different(Present(cluster["source"]) \cap Present(cluster["destination"]) \cap ids)
              \subseteq Differences(ids)
<1>1. Different(Present(cluster["source"]) \cap Present(cluster["destination"]) \cap ids)
              \subseteq Differences(ids)
  BY DEF Differences, Different
<1>2. \A s \in Sides : \A id \in (Present(cluster[s]) \cap ids) \ Present(cluster[other(s)]) :
              NotFoundAt(other(s), id) \in Differences(ids)
  BY TwoSides DEF Differences, NotFound, NotFoundAt
<1> QED
  BY <1>1, <1>2
-----------------------------------------------------------------------------
(* The documents of a side that the checker of interval k has to read, and *)
(* those that it has not compared yet or has.                              *)
InSide(s, k) == Present(cluster[s]) \cap InInterval(k)
Unread(c, s) == ToSet(c.scroll[s].rest) \cup c.page[s]
Seen(c, s, k) == InSide(s, k) \ Unread(c, s)

CheckerTypes ==
  [pc : {"source", "destination", "read", "done", "failed"}, scroll : [Sides -> Scrolls],
   page : [Sides -> SUBSET Ids], answered : SUBSET Sides, missing : [Sides -> SUBSET Ids], count : Nat]

PagesRead(c, s, k) ==
  /\ c.page[s] \cap ToSet(c.scroll[s].rest) = {}
  /\ Unread(c, s) \subseteq InSide(s, k)
  /\ Distinct(c.scroll[s].rest)

(* The maps of checkMaps: a document that only one side has returned is in *)
(* the map of that side; one that both have returned is in both maps, or   *)
(* was taken out of both and reported if it had to be.                     *)
MapsMatch(c, k, rep) ==
  \A s \in Sides :
    /\ c.missing[s] \subseteq Seen(c, s, k)
    /\ Seen(c, s, k) \ Seen(c, other(s), k) \subseteq c.missing[s]
    /\ \A id \in Seen(c, s, k) \cap Seen(c, other(s), k) :
         /\ id \in c.missing[s] => id \in c.missing[other(s)]
         /\ id \notin c.missing[s] => Settled(id, rep)

(* More in the report does no harm.                                        *)
LEMMA SettledStays ==
  ASSUME NEW id, NEW rep, NEW rep2, rep \subseteq rep2, Settled(id, rep)
  PROVE  Settled(id, rep2)
BY DEF Settled

(* What Different puts in the report settles its documents.                *)
LEMMA DifferentSettles ==
  ASSUME NEW ids, NEW rep, Different(ids) \subseteq rep, NEW id \in ids
  PROVE  Settled(id, rep)
BY DEF Different, Settled

(* compareResults of the two pages of a round.                             *)
LEMMA MapsAfterCompare ==
  ASSUME NEW k, NEW c, NEW c2, NEW rep, NEW rep2, rep \subseteq rep2,
         \A s \in Sides : PagesRead(c, s, k), MapsMatch(c, k, rep),
         Different(InBothPages(c.page)) \subseteq rep2,
         \A s \in Sides : /\ c2.page[s] = {} /\ c2.scroll[s].rest = c.scroll[s].rest
                          /\ c2.missing[s] = c.missing[s] \cup (c.page[s] \ c.page[other(s)])
  PROVE  MapsMatch(c2, k, rep2) /\ \A s \in Sides : PagesRead(c2, s, k)
<1>1. ASSUME NEW s \in Sides
      PROVE  PagesRead(c2, s, k)
  BY DEF PagesRead, Unread
<1>2. ASSUME NEW s \in Sides
      PROVE  Seen(c2, s, k) = Seen(c, s, k) \cup c.page[s] /\ Seen(c, s, k) \cap c.page[s] = {}
  BY DEF Seen, Unread, PagesRead
<1>3. ASSUME NEW s \in Sides
      PROVE  /\ c2.missing[s] \subseteq Seen(c2, s, k)
             /\ Seen(c2, s, k) \ Seen(c2, other(s), k) \subseteq c2.missing[s]
             /\ \A id \in Seen(c2, s, k) \cap Seen(c2, other(s), k) :
                  /\ id \in c2.missing[s] => id \in c2.missing[other(s)]
                  /\ id \notin c2.missing[s] => Settled(id, rep2)
  <2> DEFINE o == other(s)
  <2>1. o \in Sides /\ other(o) = s
    BY TwoSides
  <2> HIDE DEF o
  <2>2. /\ c2.missing[s] = c.missing[s] \cup (c.page[s] \ c.page[o])
        /\ c2.missing[o] = c.missing[o] \cup (c.page[o] \ c.page[s])
    BY <2>1 DEF o
  <2>3. /\ Seen(c2, s, k) = Seen(c, s, k) \cup c.page[s] /\ Seen(c, s, k) \cap c.page[s] = {}
        /\ Seen(c2, o, k) = Seen(c, o, k) \cup c.page[o] /\ Seen(c, o, k) \cap c.page[o] = {}
    BY <1>2, <2>1
  <2>4. /\ c.missing[s] \subseteq Seen(c, s, k) /\ c.missing[o] \subseteq Seen(c, o, k)
        /\ Seen(c, s, k) \ Seen(c, o, k) \subseteq c.missing[s]
        /\ Seen(c, o, k) \ Seen(c, s, k) \subseteq c.missing[o]
        /\ \A id \in Seen(c, s, k) \cap Seen(c, o, k) :
             /\ id \in c.missing[s] => id \in c.missing[o]
             /\ id \notin c.missing[s] => Settled(id, rep)
    BY <2>1 DEF MapsMatch, o
  <2>5. \A id \in c.page[s] \cap c.page[o] : Settled(id, rep2)
    <3>1. c.page[s] \cap c.page[o] = InBothPages(c.page)
      BY TwoSides DEF InBothPages, o
    <3> QED
      BY <3>1, DifferentSettles
  <2>6. \A id \in Seen(c, s, k) \cap Seen(c, o, k) : id \notin c.missing[s] => Settled(id, rep2)
    BY <2>4, SettledStays
  <2>7. ASSUME NEW id \in Seen(c2, s, k) \cap Seen(c2, o, k)
        PROVE  /\ id \in c2.missing[s] => id \in c2.missing[o]
               /\ id \notin c2.missing[s] => Settled(id, rep2)
    BY <2>2, <2>3, <2>4, <2>5, <2>6, <2>7
  <2>8. c2.missing[s] \subseteq Seen(c2, s, k) /\ Seen(c2, s, k) \ Seen(c2, o, k) \subseteq c2.missing[s]
    BY <2>2, <2>3, <2>4
  <2> QED
    BY <2>7, <2>8 DEF o
<1> QED
  BY <1>1, <1>3 DEF MapsMatch

(* checkMaps in the middle of the reading.                                 *)
LEMMA MapsAfterCheck ==
  ASSUME NEW k, NEW c, NEW c2, NEW rep, NEW rep2, rep \subseteq rep2,
         MapsMatch(c, k, rep),
         Different(c.missing["source"] \cap c.missing["destination"]) \subseteq rep2,
         \A s \in Sides : /\ c2.page[s] = c.page[s] /\ c2.scroll[s].rest = c.scroll[s].rest
                          /\ c2.missing[s] = c.missing[s] \ c.missing[other(s)]
  PROVE  MapsMatch(c2, k, rep2)
<1>1. ASSUME NEW s \in Sides
      PROVE  Seen(c2, s, k) = Seen(c, s, k)
  BY DEF Seen, Unread
<1>2. ASSUME NEW s \in Sides
      PROVE  /\ c2.missing[s] \subseteq Seen(c2, s, k)
             /\ Seen(c2, s, k) \ Seen(c2, other(s), k) \subseteq c2.missing[s]
             /\ \A id \in Seen(c2, s, k) \cap Seen(c2, other(s), k) :
                  /\ id \in c2.missing[s] => id \in c2.missing[other(s)]
                  /\ id \notin c2.missing[s] => Settled(id, rep2)
  <2> DEFINE o == other(s)
  <2>1. o \in Sides /\ other(o) = s
    BY TwoSides
  <2> HIDE DEF o
  <2>2. /\ c2.missing[s] = c.missing[s] \ c.missing[o] /\ c2.missing[o] = c.missing[o] \ c.missing[s]
        /\ Seen(c2, s, k) = Seen(c, s, k) /\ Seen(c2, o, k) = Seen(c, o, k)
    BY <1>1, <2>1 DEF o
  <2>3. /\ c.missing[s] \subseteq Seen(c, s, k) /\ c.missing[o] \subseteq Seen(c, o, k)
        /\ Seen(c, s, k) \ Seen(c, o, k) \subseteq c.missing[s]
        /\ \A id \in Seen(c, s, k) \cap Seen(c, o, k) :
             /\ id \in c.missing[s] => id \in c.missing[o]
             /\ id \notin c.missing[s] => Settled(id, rep)
    BY <2>1 DEF MapsMatch, o
  <2>4. \A id \in c.missing[s] \cap c.missing[o] : Settled(id, rep2)
    <3>1. c.missing[s] \cap c.missing[o] = c.missing["source"] \cap c.missing["destination"]
      BY TwoSides DEF o
    <3> QED
      BY <3>1, DifferentSettles
  <2>5. \A id \in Seen(c, s, k) \cap Seen(c, o, k) : id \notin c.missing[s] => Settled(id, rep2)
    BY <2>3, SettledStays
  <2> QED
    BY <2>2, <2>3, <2>4, <2>5 DEF o
<1> QED
  BY <1>2 DEF MapsMatch

(* checkMaps at the end: everything was compared, and every difference in  *)
(* the interval is in the report.                                          *)
LEMMA MapsAtTheEnd ==
  ASSUME NEW k, NEW c, NEW rep, NEW rep2, rep \subseteq rep2,
         MapsMatch(c, k, rep), \A s \in Sides : Unread(c, s) = {},
         ReportMaps(c, TRUE) \subseteq rep2
  PROVE  Differences(InInterval(k)) \subseteq rep2
<1> DEFINE both == c.missing["source"] \cap c.missing["destination"]
<1>1. /\ Different(both) \subseteq rep2
      /\ \A s \in Sides : NotFound(other(s), c.missing[s] \ both) \subseteq rep2
  BY DEF ReportMaps
<1>2. \A s \in Sides : Seen(c, s, k) = InSide(s, k)
  BY DEF Seen
<1>3. ASSUME NEW s \in Sides, NEW id \in Present(cluster[s]) \cap InInterval(k)
      PROVE  IF id \in Present(cluster[other(s)]) THEN Settled(id, rep2)
                                                  ELSE NotFoundAt(other(s), id) \in rep2
  <2> DEFINE o == other(s)
  <2>1. o \in Sides /\ both = c.missing[s] \cap c.missing[o]
    BY TwoSides
  <2>2. Seen(c, s, k) = InSide(s, k) /\ Seen(c, o, k) = InSide(o, k) /\ id \in InSide(s, k)
    BY <1>2, <2>1 DEF InSide
  <2>3. /\ c.missing[o] \subseteq InSide(o, k)
        /\ InSide(s, k) \ InSide(o, k) \subseteq c.missing[s]
        /\ \A i \in InSide(s, k) \cap InSide(o, k) :
             /\ i \in c.missing[s] => i \in c.missing[o]
             /\ i \notin c.missing[s] => Settled(i, rep)
    BY <2>1, <2>2 DEF MapsMatch
  <2> HIDE DEF o, both
  <2>4. CASE id \in Present(cluster[o])
    <3>1. id \in InSide(o, k)
      BY <2>4 DEF InSide
    <3>2. id \in both \/ Settled(id, rep)
      BY <2>1, <2>2, <2>3, <3>1
    <3> QED
      BY <1>1, <2>4, <3>2, DifferentSettles, SettledStays DEF o
  <2>5. CASE id \notin Present(cluster[o])
    <3>1. id \in c.missing[s] \ both
      BY <2>1, <2>2, <2>3, <2>5 DEF InSide
    <3>2. NotFoundAt(o, id) \in NotFound(o, c.missing[s] \ both)
      BY <3>1 DEF NotFoundAt, NotFound
    <3> QED
      BY <1>1, <2>5, <3>2 DEF o
  <2> QED
    BY <2>4, <2>5 DEF o
<1> QED
  BY <1>3, DifferencesReported
(* Nothing is reported that does not differ.                               *)
LEMMA ReportsAreTrue ==
  ASSUME mode = "withTimestamp", numParallelReads \in Nat \ {0}, NEW k \in Instances,
         NEW c, NEW rep, \A s \in Sides : PagesRead(c, s, k), MapsMatch(c, k, rep)
  PROVE  /\ Different(InBothPages(c.page)) \subseteq Differences(InRange)
         /\ ReportMaps(c, FALSE) \subseteq Differences(InRange)
         /\ (\A s \in Sides : Unread(c, s) = {}) => ReportMaps(c, TRUE) \subseteq Differences(InRange)
<1> DEFINE S == Present(cluster["source"])
           D == Present(cluster["destination"])
           both == c.missing["source"] \cap c.missing["destination"]
<1>1. InInterval(k) \subseteq InRange
  BY InstancesCover
<1>2. \A s \in Sides : InSide(s, k) \subseteq Present(cluster[s]) \cap InRange
  BY <1>1 DEF InSide
<1>3. ASSUME NEW ids, ids \subseteq InSide("source", k) \cap InSide("destination", k)
      PROVE  Different(ids) \subseteq Differences(InRange)
  <2>1. ids \subseteq S \cap D \cap InRange
    BY <1>2, <1>3, TwoSides
  <2>2. Different(ids) \subseteq Different(S \cap D \cap InRange)
    BY <2>1 DEF Different
  <2> QED
    BY <2>2, DifferencesContain
<1>4. InBothPages(c.page) \subseteq InSide("source", k) \cap InSide("destination", k)
  BY TwoSides DEF InBothPages, PagesRead, Unread
<1>5. both \subseteq InSide("source", k) \cap InSide("destination", k)
  BY TwoSides DEF MapsMatch, Seen
<1>6. ASSUME \A s \in Sides : Unread(c, s) = {}
      PROVE  \A s \in Sides : NotFound(other(s), c.missing[s] \ both) \subseteq Differences(InRange)
  <2>1. SUFFICES ASSUME NEW s \in Sides, NEW id \in c.missing[s] \ both
                 PROVE  NotFoundAt(other(s), id) \in Differences(InRange)
    BY DEF NotFound, NotFoundAt
  <2> DEFINE o == other(s)
  <2>2. o \in Sides /\ both = c.missing[s] \cap c.missing[o]
    BY TwoSides
  <2>3. Seen(c, s, k) = InSide(s, k) /\ Seen(c, o, k) = InSide(o, k)
    BY <1>6, <2>2 DEF Seen
  <2>4. id \in InSide(s, k) /\ id \notin InSide(o, k)
    BY <2>1, <2>2, <2>3 DEF MapsMatch
  <2>5. id \in (Present(cluster[s]) \cap InRange) \ Present(cluster[o])
    BY <1>2, <2>2, <2>4 DEF InSide
  <2> QED
    BY <2>5, DifferencesContain
<1>7. Different(both) \subseteq Differences(InRange)
  BY <1>3, <1>5
<1>8. Different(InBothPages(c.page)) \subseteq Differences(InRange)
  BY <1>3, <1>4
<1> QED
  BY <1>6, <1>7, <1>8 DEF ReportMaps

(* What holds of the state c of the checker of interval k, with rep in the *)
(* log.                                                                    *)
CheckerInv(c, k, rep) ==
  /\ c \in CheckerTypes
  /\ c.pc = "source" => \A s \in Sides : c.missing[s] = {} /\ c.page[s] = {}
  /\ c.pc = "destination" =>
       /\ \A s \in Sides : c.missing[s] = {}
       /\ PagesRead(c, "source", k) /\ Unread(c, "source") = InSide("source", k)
       /\ c.scroll["source"].done => Unread(c, "source") = {}
  /\ c.pc = "read" =>
       /\ MapsMatch(c, k, rep)
       /\ \A s \in Sides :
            /\ PagesRead(c, s, k)
            /\ c.scroll[s].done => c.scroll[s].rest = <<>>
            /\ s \notin c.answered => c.page[s] = {}
  /\ c.pc = "done" => Differences(InInterval(k)) \subseteq rep

(* Another checker's log lines do no harm.                                 *)
LEMMA CheckerInvStays ==
  ASSUME NEW c, NEW k, NEW rep, NEW rep2, rep \subseteq rep2, CheckerInv(c, k, rep)
  PROVE  CheckerInv(c, k, rep2)
<1>1. ASSUME MapsMatch(c, k, rep)
      PROVE  MapsMatch(c, k, rep2)
  BY <1>1, SettledStays DEF MapsMatch
<1> QED
  BY <1>1 DEF CheckerInv

(* The clusters are at rest.                                               *)
LEMMA AtRest ==
  ASSUME UNCHANGED <<cluster, options>>, NEW c, NEW k, NEW rep
  PROVE  /\ CheckerInv(c, k, rep)' <=> CheckerInv(c, k, rep)
         /\ \A ids : Differences(ids)' = Differences(ids)
<1>1. \A ids : Differences(ids)' = Differences(ids)
  BY DEF Differences, NotFound, Different, areEqualJSON, Present, options
<1>2. \A i : InInterval(i)' = InInterval(i)
  BY DEF InInterval, options
<1>3. \A s : InSide(s, k)' = InSide(s, k)
  BY <1>2 DEF InSide, Present
<1>4. \A id : Settled(id, rep)' <=> Settled(id, rep)
  BY DEF Settled, areEqualJSON, options
<1>5. \A s : Seen(c, s, k)' = Seen(c, s, k)
  BY <1>3 DEF Seen, Unread
<1>6. \A s : PagesRead(c, s, k)' <=> PagesRead(c, s, k)
  BY <1>3 DEF PagesRead, Unread
<1>7. MapsMatch(c, k, rep)' <=> MapsMatch(c, k, rep)
  BY <1>4, <1>5 DEF MapsMatch, other
<1>8. (Differences(InInterval(k)) \subseteq rep)' <=> (Differences(InInterval(k)) \subseteq rep)
  BY <1>1, <1>2
<1> QED
  BY <1>1, <1>3, <1>6, <1>7, <1>8 DEF CheckerInv, Unread

(* A search on one side.                                                   *)
LEMMA SearchedSide ==
  ASSUME cluster \in [Sides -> [Ids -> Documents \cup {NoDoc}]],
         NEW k, NEW side \in Sides, NEW q \in SortedByTimestamp(Present(cluster[side]) \cap InInterval(k))
  PROVE  /\ Rest(q) \in Seq(Ids) /\ PageIds(q) \subseteq Ids
         /\ InSide(side, k) = PageIds(q) \cup ToSet(Rest(q))
         /\ PageIds(q) \cap ToSet(Rest(q)) = {} /\ Distinct(Rest(q))
         /\ q = <<>> => Rest(q) = <<>> /\ InSide(side, k) = {}
<1> DEFINE found == InSide(side, k)
<1>1. found \subseteq Ids /\ IsFiniteSet(found) /\ q \in SetToSeqs(found)
  <2>1. found \subseteq Ids
    BY DEF InSide, Present
  <2> QED
    BY <2>1, ClustersAssumption, FS_Subset DEF SortedByTimestamp, InSide
<1>2. q \in Seq(found) /\ ToSet(q) = found /\ Distinct(q)
  BY <1>1, Searched
<1>3. /\ Rest(q) \in Seq(found) /\ PageIds(q) \subseteq found
      /\ ToSet(q) = PageIds(q) \cup ToSet(Rest(q))
      /\ Distinct(Rest(q)) /\ PageIds(q) \cap ToSet(Rest(q)) = {}
  BY <1>2, Pages
<1>4. Rest(q) \in Seq(Ids)
  BY <1>1, <1>3
<1> QED
  BY <1>1, <1>2, <1>3, <1>4, NothingLeft
-----------------------------------------------------------------------------
(* The checkers with timestamps at work.                                   *)
Comparing ==
  /\ mode = "withTimestamp" /\ numParallelReads \in Nat \ {0}
  /\ cluster \in [Sides -> [Ids -> Documents \cup {NoDoc}]]
  /\ report \subseteq Differences(InRange)

(* A step of the checker of interval k does its work well.                 *)
GoodStep(k) ==
  \E c, rep :
    /\ checker' = [checker EXCEPT ![k] = c] /\ report' = rep
    /\ report \subseteq rep /\ rep \subseteq Differences(InRange)
    /\ CheckerInv(c, k, rep)

(* The first page of the source.                                           *)
LEMMA SourceSearched ==
  ASSUME Comparing, NEW k \in Instances, CheckerInv(checker[k], k, report),
         InitializeScroll(k, "source")
  PROVE  GoodStep(k)
<1>1. PICK c : c = checker[k]
  OBVIOUS
<1>2. c \in CheckerTypes /\ c.pc = "source" /\ \A s \in Sides : c.missing[s] = {}
  BY <1>1 DEF InitializeScroll, CheckerInv
<1>3. ASSUME NEW q \in SortedByTimestamp(Present(cluster["source"]) \cap InInterval(k)), UNCHANGED report,
             checker' = [checker EXCEPT ![k] = [[c EXCEPT
               !.page["source"] = PageIds(q), !.scroll["source"] =
                 [rest |-> Rest(q), open |-> q # <<>>, held |-> TRUE, done |-> q = <<>>]]
               EXCEPT !.pc = "destination"]]
      PROVE  GoodStep(k)
  <2> DEFINE scroll == [rest |-> Rest(q), open |-> q # <<>>, held |-> TRUE, done |-> q = <<>>]
             c2 == [[c EXCEPT !.page["source"] = PageIds(q), !.scroll["source"] = scroll]
                      EXCEPT !.pc = "destination"]
  <2>1. /\ Rest(q) \in Seq(Ids) /\ PageIds(q) \subseteq Ids
        /\ InSide("source", k) = PageIds(q) \cup ToSet(Rest(q))
        /\ PageIds(q) \cap ToSet(Rest(q)) = {} /\ Distinct(Rest(q))
        /\ q = <<>> => InSide("source", k) = {}
    BY TwoSides, SearchedSide DEF Comparing
  <2>2. scroll \in Scrolls /\ scroll.rest = Rest(q) /\ scroll.done = (q = <<>>)
    BY <2>1 DEF Scrolls
  <2> HIDE DEF scroll
  <2>3. /\ c2 \in CheckerTypes /\ c2.pc = "destination" /\ c2.missing = c.missing
        /\ c2.page["source"] = PageIds(q) /\ c2.scroll["source"] = scroll
    BY <1>2, <2>1, <2>2, TwoSides DEF CheckerTypes
  <2>4. checker' = [checker EXCEPT ![k] = c2]
    BY <1>3 DEF scroll
  <2> HIDE DEF c2
  <2>5. PagesRead(c2, "source", k) /\ Unread(c2, "source") = InSide("source", k)
    BY <2>1, <2>2, <2>3 DEF PagesRead, Unread
  <2>6. CheckerInv(c2, k, report)
    BY <1>2, <2>1, <2>2, <2>3, <2>5 DEF CheckerInv
  <2> QED
    BY <1>3, <2>4, <2>6 DEF GoodStep, Comparing
<1>4. ASSUME checker' = [checker EXCEPT ![k].pc = "failed"], UNCHANGED report
      PROVE  GoodStep(k)
  <2> DEFINE c2 == [c EXCEPT !.pc = "failed"]
  <2>1. c2 \in CheckerTypes /\ c2.pc = "failed"
    BY <1>2 DEF CheckerTypes
  <2>2. checker' = [checker EXCEPT ![k] = c2]
    BY <1>1, <1>4
  <2> HIDE DEF c2
  <2>3. CheckerInv(c2, k, report)
    BY <2>1 DEF CheckerInv
  <2> QED
    BY <1>4, <2>2, <2>3 DEF GoodStep, Comparing
<1> QED
  BY <1>1, <1>3, <1>4 DEF InitializeScroll

(* The state after the search at the destination, and after the first      *)
(* comparison.                                                             *)
ReadBoth(c, q) ==
  [c EXCEPT !.page["destination"] = PageIds(q), !.scroll["destination"] =
      [rest |-> Rest(q), open |-> q # <<>>, held |-> TRUE, done |-> q = <<>>]]

NoneLeft(c) == \A s \in Sides : c.scroll[s].done

FirstCompared(read) ==
  [compareResults(read, read.page) EXCEPT
     !.pc = IF NoneLeft(read) THEN "done" ELSE "read",
     !.scroll = [s \in Sides |-> [@[s] EXCEPT !.done = NoneLeft(read)]]]

(* The first page of the destination, and the first comparison.            *)
LEMMA DestinationSearched ==
  ASSUME Comparing, NEW k \in Instances, CheckerInv(checker[k], k, report),
         InitializeScroll(k, "destination")
  PROVE  GoodStep(k)
<1>1. PICK c : c = checker[k]
  OBVIOUS
<1>2. /\ c \in CheckerTypes /\ c.pc = "destination" /\ \A s \in Sides : c.missing[s] = {}
      /\ PagesRead(c, "source", k) /\ Unread(c, "source") = InSide("source", k)
      /\ c.scroll["source"].done => InSide("source", k) = {}
  BY <1>1 DEF InitializeScroll, CheckerInv
<1>3. ASSUME NEW q \in SortedByTimestamp(Present(cluster["destination"]) \cap InInterval(k)),
             NEW read, read = ReadBoth(c, q), NEW first, first = FirstCompared(read),
             checker' = [checker EXCEPT ![k] = first],
             report' = report \cup Different(InBothPages(read.page))
      PROVE  GoodStep(k)
  <2> DEFINE scroll == [rest |-> Rest(q), open |-> q # <<>>, held |-> TRUE, done |-> q = <<>>]
  <2>1. /\ Rest(q) \in Seq(Ids) /\ PageIds(q) \subseteq Ids
        /\ InSide("destination", k) = PageIds(q) \cup ToSet(Rest(q))
        /\ PageIds(q) \cap ToSet(Rest(q)) = {} /\ Distinct(Rest(q))
        /\ q = <<>> => InSide("destination", k) = {}
    BY TwoSides, SearchedSide DEF Comparing
  <2>2. scroll \in Scrolls /\ scroll.rest = Rest(q) /\ scroll.done = (q = <<>>)
    BY <2>1 DEF Scrolls
  <2>3. /\ read \in CheckerTypes /\ read.missing = c.missing
        /\ read.page["destination"] = PageIds(q) /\ read.scroll["destination"] = scroll
        /\ read.page["source"] = c.page["source"] /\ read.scroll["source"] = c.scroll["source"]
    <3> HIDE DEF scroll
    <3> QED
      BY <1>2, <1>3, <2>1, <2>2, TwoSides DEF CheckerTypes, ReadBoth, scroll
  <2> DEFINE isDone == NoneLeft(read)
  <2> HIDE DEF scroll, isDone
  <2>4. \A s \in Sides : PagesRead(read, s, k) /\ Unread(read, s) = InSide(s, k)
    <3>1. PagesRead(read, "destination", k) /\ Unread(read, "destination") = InSide("destination", k)
      BY <2>1, <2>2, <2>3 DEF PagesRead, Unread
    <3>2. PagesRead(read, "source", k) /\ Unread(read, "source") = InSide("source", k)
      BY <1>2, <2>3 DEF PagesRead, Unread
    <3> QED
      BY <3>1, <3>2, TwoSides
  <2>5. MapsMatch(read, k, report)
    <3>1. \A s \in Sides : Seen(read, s, k) = {} /\ read.missing[s] = {}
      BY <1>2, <2>3, <2>4 DEF Seen
    <3> QED
      BY <3>1 DEF MapsMatch
  <2>6. /\ first \in CheckerTypes /\ first.pc = (IF isDone THEN "done" ELSE "read")
        /\ \A s \in Sides :
             /\ first.page[s] = {} /\ first.scroll[s].rest = read.scroll[s].rest
             /\ first.scroll[s].done = isDone
             /\ first.missing[s] = read.missing[s] \cup (read.page[s] \ read.page[other(s)])
    <3> DEFINE cmp == compareResults(read, read.page)
               scr == [s \in Sides |-> [cmp.scroll[s] EXCEPT !.done = isDone]]
    <3>1. /\ cmp \in CheckerTypes /\ cmp.scroll = read.scroll
          /\ \A s \in Sides : /\ cmp.page[s] = {}
                              /\ cmp.missing[s] = read.missing[s] \cup (read.page[s] \ read.page[other(s)])
      BY <2>3, TwoSides DEF compareResults, CheckerTypes
    <3>2. isDone \in BOOLEAN
      BY DEF isDone, NoneLeft
    <3>3. /\ scr \in [Sides -> Scrolls]
          /\ \A s \in Sides : scr[s].rest = read.scroll[s].rest /\ scr[s].done = isDone
      <4> HIDE DEF cmp
      <4>1. cmp.scroll \in [Sides -> Scrolls] /\ cmp.scroll = read.scroll
        BY <3>1 DEF CheckerTypes
      <4>2. ASSUME NEW scroll1 \in Scrolls
            PROVE  /\ [scroll1 EXCEPT !.done = isDone] \in Scrolls
                   /\ [scroll1 EXCEPT !.done = isDone].rest = scroll1.rest
                   /\ [scroll1 EXCEPT !.done = isDone].done = isDone
        BY <3>2 DEF Scrolls
      <4> QED
        BY <4>1, <4>2
    <3>4. first = [cmp EXCEPT !.pc = IF isDone THEN "done" ELSE "read", !.scroll = scr]
      BY <1>3 DEF FirstCompared, isDone
    <3> HIDE DEF cmp
    <3> HIDE DEF scr
    <3>5. /\ first \in CheckerTypes /\ first.pc = (IF isDone THEN "done" ELSE "read")
          /\ first.scroll = scr /\ first.page = cmp.page /\ first.missing = cmp.missing
      BY <3>1, <3>3, <3>4 DEF CheckerTypes
    <3> QED
      BY <3>1, <3>3, <3>5
  <2>7. PICK rep : rep = report'
    OBVIOUS
  <2>8. /\ report \subseteq rep /\ rep \subseteq Differences(InRange)
        /\ Different(InBothPages(read.page)) \subseteq rep
    BY <1>3, <2>4, <2>5, <2>7, ReportsAreTrue DEF Comparing
  <2>9. MapsMatch(first, k, rep) /\ \A s \in Sides : PagesRead(first, s, k)
    BY <2>4, <2>5, <2>6, <2>8, MapsAfterCompare
  <2>10. ASSUME isDone
         PROVE  Differences(InInterval(k)) \subseteq rep
    <3>1. \A s \in Sides : read.scroll[s].done
      BY <2>10 DEF isDone, NoneLeft
    <3>2. \A s \in Sides : InSide(s, k) = {}
      BY <1>2, <2>1, <2>2, <2>3, <3>1, TwoSides
    <3> QED
      BY <3>2, DifferencesReported DEF InSide
  <2>11. CheckerInv(first, k, rep)
    BY <2>6, <2>9, <2>10 DEF CheckerInv
  <2> QED
    BY <1>3, <2>7, <2>8, <2>11 DEF GoodStep
<1>4. ASSUME checker' = [checker EXCEPT ![k].pc = "failed"], UNCHANGED report
      PROVE  GoodStep(k)
  <2> DEFINE c2 == [c EXCEPT !.pc = "failed"]
  <2>1. c2 \in CheckerTypes /\ c2.pc = "failed"
    BY <1>2 DEF CheckerTypes
  <2>2. checker' = [checker EXCEPT ![k] = c2]
    BY <1>1, <1>4
  <2> HIDE DEF c2
  <2>3. CheckerInv(c2, k, report)
    BY <2>1 DEF CheckerInv
  <2> QED
    BY <1>4, <2>2, <2>3 DEF GoodStep, Comparing
<1>5. \/ \E q \in SortedByTimestamp(Present(cluster["destination"]) \cap InInterval(k)) :
           /\ checker' = [checker EXCEPT ![k] = FirstCompared(ReadBoth(checker[k], q))]
           /\ report' = report \cup Different(InBothPages(ReadBoth(checker[k], q).page))
      \/ checker' = [checker EXCEPT ![k].pc = "failed"] /\ UNCHANGED report
  BY Zenon DEF InitializeScroll, ReadBoth, FirstCompared, NoneLeft
<1> QED
  BY <1>1, <1>3, <1>4, <1>5
(* A request for the next page of one side.                                *)
LEMMA ScrollRequested ==
  ASSUME Comparing, NEW k \in Instances, CheckerInv(checker[k], k, report),
         NEW side \in Sides, DoScrollRequestV2(k, side)
  PROVE  GoodStep(k)
<1>1. PICK c : c = checker[k]
  OBVIOUS
<1>2. /\ c \in CheckerTypes /\ c.pc = "read" /\ side \notin c.answered /\ MapsMatch(c, k, report)
      /\ \A s \in Sides : /\ PagesRead(c, s, k)
                          /\ c.scroll[s].done => c.scroll[s].rest = <<>>
                          /\ s \notin c.answered => c.page[s] = {}
  BY <1>1 DEF DoScrollRequestV2, CheckerInv
<1>3. c.scroll[side] \in Scrolls /\ c.scroll[side].rest \in Seq(Ids)
  BY <1>2 DEF CheckerTypes, Scrolls
<1>4. UNCHANGED report
  BY DEF DoScrollRequestV2
<1>5. ASSUME NEW c2 \in CheckerTypes, checker' = [checker EXCEPT ![k] = c2],
             c2.pc = "read", c2.missing = c.missing, c2.answered = c.answered \cup {side},
             \A s \in Sides : /\ PagesRead(c2, s, k) /\ Unread(c2, s) = Unread(c, s)
                              /\ c2.scroll[s].done => c2.scroll[s].rest = <<>>
                              /\ s # side => c2.page[s] = c.page[s]
      PROVE  GoodStep(k)
  <2>1. \A s \in Sides : Seen(c2, s, k) = Seen(c, s, k)
    BY <1>5 DEF Seen
  <2>2. MapsMatch(c2, k, report)
    BY <1>2, <1>5, <2>1, TwoSides DEF MapsMatch
  <2>3. CheckerInv(c2, k, report)
    BY <1>2, <1>5, <2>2 DEF CheckerInv
  <2> QED
    BY <1>4, <1>5, <2>3 DEF GoodStep, Comparing
<1>6. ASSUME checker' = [checker EXCEPT ![k].answered = @ \cup {side}]
      PROVE  GoodStep(k)
  <2> DEFINE c2 == [c EXCEPT !.answered = @ \cup {side}]
  <2>1. /\ c2 \in CheckerTypes /\ c2.pc = "read" /\ c2.missing = c.missing /\ c2.page = c.page
        /\ c2.scroll = c.scroll /\ c2.answered = c.answered \cup {side}
    BY <1>2 DEF CheckerTypes
  <2>2. checker' = [checker EXCEPT ![k] = c2]
    BY <1>1, <1>6
  <2> HIDE DEF c2
  <2> QED
    BY <1>2, <1>5, <2>1, <2>2 DEF PagesRead, Unread
<1>7. ASSUME NEW page \in SUBSET Ids, NEW scroll \in Scrolls,
             checker' = [checker EXCEPT ![k] =
               [c EXCEPT !.answered = @ \cup {side}, !.page[side] = page, !.scroll[side] = scroll]],
             page \cap ToSet(scroll.rest) = {}, Distinct(scroll.rest),
             page \cup ToSet(scroll.rest) = Unread(c, side),
             scroll.done => scroll.rest = <<>>
      PROVE  GoodStep(k)
  <2> DEFINE c2 == [c EXCEPT !.answered = @ \cup {side}, !.page[side] = page, !.scroll[side] = scroll]
  <2>1. /\ c2 \in CheckerTypes /\ c2.pc = "read" /\ c2.missing = c.missing
        /\ c2.answered = c.answered \cup {side}
        /\ c2.page[side] = page /\ c2.scroll[side] = scroll
        /\ \A s \in Sides : s # side => c2.page[s] = c.page[s] /\ c2.scroll[s] = c.scroll[s]
    BY <1>2 DEF CheckerTypes
  <2> HIDE DEF c2
  <2>2. PagesRead(c2, side, k) /\ Unread(c2, side) = Unread(c, side)
    BY <1>2, <1>7, <2>1 DEF PagesRead, Unread
  <2>3. \A s \in Sides : s # side => PagesRead(c2, s, k) /\ Unread(c2, s) = Unread(c, s)
    BY <1>2, <2>1 DEF PagesRead, Unread
  <2>4. ASSUME NEW s \in Sides
        PROVE  /\ PagesRead(c2, s, k) /\ Unread(c2, s) = Unread(c, s)
               /\ c2.scroll[s].done => c2.scroll[s].rest = <<>>
               /\ s # side => c2.page[s] = c.page[s]
    BY <1>2, <1>7, <2>1, <2>2, <2>3
  <2>5. checker' = [checker EXCEPT ![k] = c2]
    BY <1>7 DEF c2
  <2> QED
    BY <1>5, <2>1, <2>4, <2>5
<1>8. ASSUME ~c.scroll[side].done,
             checker' = [checker EXCEPT ![k] = [c EXCEPT !.answered = @ \cup {side},
               !.page[side] = PageIds(c.scroll[side].rest), !.scroll[side] = Scrolled(@)]]
      PROVE  GoodStep(k)
  <2> DEFINE rest == c.scroll[side].rest
             scroll == Scrolled(c.scroll[side])
  <2>1. Distinct(rest) /\ Unread(c, side) = ToSet(rest)
    BY <1>2 DEF PagesRead, Unread
  <2>2. CASE rest = <<>>
    <3>1. scroll \in Scrolls /\ scroll.rest = <<>>
      BY <1>3, <2>2 DEF Scrolled, Scrolls
    <3>2. PageIds(rest) = {} /\ ToSet(<<>>) = {} /\ Distinct(<<>>)
      BY <2>1, <2>2, NothingLeft
    <3> HIDE DEF scroll
    <3> QED
      BY <1>7, <1>8, <2>1, <2>2, <3>1, <3>2 DEF scroll
  <2>3. CASE rest # <<>>
    <3>1. /\ Rest(rest) \in Seq(Ids) /\ PageIds(rest) \subseteq Ids
          /\ ToSet(rest) = PageIds(rest) \cup ToSet(Rest(rest))
          /\ Distinct(Rest(rest)) /\ PageIds(rest) \cap ToSet(Rest(rest)) = {}
      BY <1>3, <2>1, Pages
    <3>2. scroll \in Scrolls /\ scroll.rest = Rest(rest) /\ ~scroll.done
      BY <1>3, <1>8, <2>3, <3>1 DEF Scrolled, Scrolls
    <3> HIDE DEF scroll
    <3> QED
      BY <1>7, <1>8, <2>1, <3>1, <3>2 DEF scroll
  <2> QED
    BY <2>2, <2>3
<1>9. ASSUME ~c.scroll[side].done,
             checker' = [checker EXCEPT ![k] = [c EXCEPT !.answered = @ \cup {side},
               !.scroll[side].held = FALSE]]
      PROVE  GoodStep(k)
  <2> DEFINE scroll == [c.scroll[side] EXCEPT !.held = FALSE]
             c2 == [c EXCEPT !.answered = @ \cup {side}, !.scroll[side].held = FALSE]
  <2>1. scroll \in Scrolls /\ scroll.rest = c.scroll[side].rest /\ ~scroll.done
    BY <1>3, <1>9 DEF Scrolls
  <2>2. c2 = [c EXCEPT !.answered = @ \cup {side}, !.page[side] = c.page[side], !.scroll[side] = scroll]
    BY <1>2 DEF CheckerTypes
  <2>3. c.page[side] \in SUBSET Ids
    BY <1>2 DEF CheckerTypes
  <2> HIDE DEF scroll
  <2> QED
    BY <1>2, <1>7, <1>9, <2>1, <2>2, <2>3 DEF PagesRead, Unread
<1> QED
  BY <1>1, <1>6, <1>8, <1>9 DEF DoScrollRequestV2

(* The state after the pages of a round were compared, and after the maps  *)
(* were checked if it is their turn.                                       *)
Compared(c, round) == [compareResults(c, c.page) EXCEPT !.count = round]
Checked(c, round) ==
  IF round = 0 THEN checkMaps(Compared(c, round), FALSE) ELSE Compared(c, round)

(* The end of a round, and of the reading.                                 *)
LEMMA RoundEnded ==
  ASSUME Comparing, NEW k \in Instances, CheckerInv(checker[k], k, report), continueReading(k)
  PROVE  GoodStep(k)
<1>1. PICK c : c = checker[k]
  OBVIOUS
<1>2. /\ c \in CheckerTypes /\ c.pc = "read" /\ MapsMatch(c, k, report)
      /\ \A s \in Sides : /\ PagesRead(c, s, k)
                          /\ c.scroll[s].done => c.scroll[s].rest = <<>>
  BY <1>1 DEF continueReading, CheckerInv
<1>3. PICK round : round = (c.count + 1) % CheckAccumulateInterval
  OBVIOUS
<1>4. round \in Nat
  BY <1>2, <1>3, CheckerAssumption DEF CheckerTypes
<1>5. PICK compared, checked : compared = Compared(c, round) /\ checked = Checked(c, round)
  OBVIOUS
<1>6. /\ checker' = [checker EXCEPT ![k] =
           IF NoneLeft(c) THEN [checkMaps(checked, TRUE) EXCEPT !.pc = "done"] ELSE checked]
      /\ report' = report \cup Different(InBothPages(c.page))
                      \cup (IF round = 0 THEN ReportMaps(compared, FALSE) ELSE {})
                      \cup (IF NoneLeft(c) THEN ReportMaps(checked, TRUE) ELSE {})
  <2>1. /\ checker' = [checker EXCEPT ![k] =
             IF NoneLeft(c) THEN [checkMaps(Checked(c, round), TRUE) EXCEPT !.pc = "done"]
                            ELSE Checked(c, round)]
        /\ report' = report \cup Different(InBothPages(c.page))
                        \cup (IF round = 0 THEN ReportMaps(Compared(c, round), FALSE) ELSE {})
                        \cup (IF NoneLeft(c) THEN ReportMaps(Checked(c, round), TRUE) ELSE {})
    BY <1>1, <1>3, Zenon DEF continueReading, Compared, Checked, NoneLeft
  <2> QED
    BY <1>5, <2>1
<1> DEFINE rep1 == report \cup Different(InBothPages(c.page))
           rep2 == rep1 \cup (IF round = 0 THEN ReportMaps(compared, FALSE) ELSE {})
<1>7. /\ compared \in CheckerTypes /\ compared.pc = "read" /\ compared.answered = {}
      /\ \A s \in Sides :
           /\ compared.page[s] = {} /\ compared.scroll[s] = c.scroll[s]
           /\ compared.missing[s] = c.missing[s] \cup (c.page[s] \ c.page[other(s)])
  <2> DEFINE cmp == compareResults(c, c.page)
  <2>1. /\ cmp \in CheckerTypes /\ cmp.scroll = c.scroll /\ cmp.pc = "read" /\ cmp.answered = {}
        /\ \A s \in Sides : /\ cmp.page[s] = {}
                            /\ cmp.missing[s] = c.missing[s] \cup (c.page[s] \ c.page[other(s)])
    BY <1>2, TwoSides DEF compareResults, CheckerTypes
  <2> HIDE DEF cmp
  <2>2. compared = [cmp EXCEPT !.count = round]
    BY <1>5 DEF Compared, cmp
  <2>3. /\ compared \in CheckerTypes /\ compared.pc = cmp.pc /\ compared.answered = cmp.answered
        /\ compared.page = cmp.page /\ compared.scroll = cmp.scroll /\ compared.missing = cmp.missing
    BY <1>4, <2>1, <2>2 DEF CheckerTypes
  <2> QED
    BY <2>1, <2>3
<1>8. PICK r1 : r1 = rep1
  OBVIOUS
<1>9. MapsMatch(compared, k, r1) /\ \A s \in Sides : PagesRead(compared, s, k)
  <2>1. report \subseteq r1 /\ Different(InBothPages(c.page)) \subseteq r1
    BY <1>8
  <2> HIDE DEF rep1, rep2
  <2> QED
    BY <1>2, <1>7, <2>1, MapsAfterCompare
<1>10. PICK r2 : r2 = rep2
  OBVIOUS
<1>11. /\ checked \in CheckerTypes /\ checked.pc = "read" /\ checked.answered = {}
       /\ \A s \in Sides :
            /\ checked.page[s] = {} /\ checked.scroll[s] = c.scroll[s]
            /\ checked.missing[s] = IF round = 0 THEN compared.missing[s] \ compared.missing[other(s)]
                                                ELSE compared.missing[s]
  <2>1. CASE round # 0
    BY <1>5, <1>7, <2>1 DEF Checked
  <2>2. CASE round = 0
    <3>1. checked = [compared EXCEPT !.missing =
            [s \in Sides |-> compared.missing[s] \ compared.missing[other(s)]]]
      BY <1>5, <2>2 DEF Checked, checkMaps
    <3> QED
      BY <1>7, <2>2, <3>1, TwoSides DEF CheckerTypes
  <2> QED
    BY <2>1, <2>2
<1>12. MapsMatch(checked, k, r2)
  <2>1. CASE round # 0
    <3>1. r2 = r1 /\ checked = compared
      BY <1>5, <1>8, <1>10, <2>1 DEF Checked
    <3> QED
      BY <1>9, <3>1
  <2>2. CASE round = 0
    <3>1. r1 \subseteq r2 /\ Different(compared.missing["source"] \cap compared.missing["destination"]) \subseteq r2
      BY <1>8, <1>10, <2>2 DEF ReportMaps
    <3> HIDE DEF rep1, rep2
    <3>2. \A s \in Sides : /\ checked.page[s] = compared.page[s]
                           /\ checked.scroll[s].rest = compared.scroll[s].rest
                           /\ checked.missing[s] = compared.missing[s] \ compared.missing[other(s)]
      BY <1>7, <1>11, <2>2
    <3> QED
      BY <1>9, <3>1, <3>2, MapsAfterCheck
  <2> QED
    BY <2>1, <2>2
<1>13. \A s \in Sides : PagesRead(checked, s, k)
  BY <1>7, <1>9, <1>11 DEF PagesRead, Unread
<1>14. report \subseteq r2 /\ r2 \subseteq Differences(InRange)
  <2>1. Different(InBothPages(c.page)) \subseteq Differences(InRange)
    BY <1>2, ReportsAreTrue DEF Comparing
  <2>2. ReportMaps(compared, FALSE) \subseteq Differences(InRange)
    BY <1>9, ReportsAreTrue DEF Comparing
  <2> QED
    BY <1>10, <2>1, <2>2 DEF Comparing
<1>15. CASE ~NoneLeft(c)
  <2>1. checker' = [checker EXCEPT ![k] = checked] /\ report' = r2
    BY <1>6, <1>8, <1>10, <1>15
  <2>2. CheckerInv(checked, k, r2)
    BY <1>2, <1>11, <1>12, <1>13 DEF CheckerInv
  <2> QED
    BY <1>14, <2>1, <2>2 DEF GoodStep
<1>16. CASE NoneLeft(c)
  <2> DEFINE c2 == [checkMaps(checked, TRUE) EXCEPT !.pc = "done"]
  <2>1. PICK r3 : r3 = r2 \cup ReportMaps(checked, TRUE)
    OBVIOUS
  <2>2. checker' = [checker EXCEPT ![k] = c2] /\ report' = r3
    BY <1>6, <1>8, <1>10, <1>16, <2>1
  <2>3. c2 \in CheckerTypes /\ c2.pc = "done"
    BY <1>11, TwoSides DEF checkMaps, CheckerTypes
  <2> HIDE DEF c2, rep1, rep2
  <2>4. \A s \in Sides : Unread(checked, s) = {}
    BY <1>2, <1>11, <1>16, NothingLeft DEF NoneLeft, Unread
  <2>5. Differences(InInterval(k)) \subseteq r3
    BY <1>12, <2>1, <2>4, MapsAtTheEnd
  <2>6. ReportMaps(checked, TRUE) \subseteq Differences(InRange)
    BY <1>12, <1>13, <2>4, ReportsAreTrue DEF Comparing
  <2>7. CheckerInv(c2, k, r3)
    BY <2>3, <2>5 DEF CheckerInv
  <2>8. report \subseteq r3 /\ r3 \subseteq Differences(InRange)
    BY <1>14, <2>1, <2>6
  <2> QED
    BY <2>2, <2>7, <2>8 DEF GoodStep
<1> QED
  BY <1>15, <1>16
-----------------------------------------------------------------------------
(* The checker without timestamps: the log is what the pages handled so    *)
(* far differ in, and the rest is still to come.                           *)
SourceRead(c, rep) ==
  /\ c \in CheckerTypes
  /\ c.pc = "source" => rep = {}
  /\ c.pc = "read" =>
       \E ids \in SUBSET Ids : /\ rep = processResponse(ids)
                              /\ ids \cup Unread(c, "source") = Present(cluster["source"])
  /\ c.pc = "done" => rep = processResponse(Present(cluster["source"]))

More == {[kind |-> "more", side |-> s] :
           s \in {x \in Sides : Cardinality(Present(cluster[x])) > Cardinality(Present(cluster[other(x)]))}}

(* The invariant of the clusters checker.                                  *)
ComparisonInv ==
  /\ DOMAIN checker = 1..MaxParallelReads
  /\ phase # "compare" => checker = [k \in 1..MaxParallelReads |-> NewChecker] /\ report = {}
  /\ phase = "compare" =>
       /\ mode \in Modes /\ numParallelReads \in 0..MaxParallelReads
       /\ mode = "withTimestamp" =>
            /\ report \subseteq Differences(InRange)
            /\ numParallelReads = 0 => report = {}
            /\ \A k \in Instances : CheckerInv(checker[k], k, report)
       /\ mode = "noTimestamp" => SourceRead(checker[1], report)
       /\ mode = "counts" => checker[1] \in CheckerTypes /\ (checker[1].pc = "done" => report = More)

(* Page by page the same is found as at once.                              *)
LEMMA ResponsesAddUp ==
  /\ processResponse({}) = {}
  /\ \A A, B : processResponse(A) \cup processResponse(B) = processResponse(A \cup B)
<1>1. processResponse({}) = {}
  BY DEF processResponse, NotFound
<1>2. ASSUME NEW A, NEW B
      PROVE  processResponse(A) \cup processResponse(B) = processResponse(A \cup B)
  <2> DEFINE D == Present(cluster["destination"])
             Diff(X) == {[kind |-> "different", id |-> id] : id \in {i \in X \cap D : ~areEqualJSON(i)}}
  <2>1. \A X : processResponse(X) = NotFound("destination", X \ (X \cap D)) \cup Diff(X)
    BY DEF processResponse
  <2>2. NotFound("destination", (A \cup B) \ ((A \cup B) \cap D)) =
          NotFound("destination", A \ (A \cap D)) \cup NotFound("destination", B \ (B \cap D))
    BY DEF NotFound
  <2>3. Diff(A \cup B) = Diff(A) \cup Diff(B)
    OBVIOUS
  <2> HIDE DEF Diff, D
  <2> QED
    BY <2>1, <2>2, <2>3
<1> QED
  BY <1>1, <1>2

(* A fresh checker.                                                        *)
LEMMA FreshChecker ==
  /\ NewChecker \in CheckerTypes /\ NewChecker.pc = "source"
  /\ \A s \in Sides : NewChecker.missing[s] = {} /\ NewChecker.page[s] = {}
<1>1. NoScroll \in Scrolls
  BY NothingLeft DEF NoScroll, Scrolls
<1> QED
  BY <1>1 DEF NewChecker, CheckerTypes

(* A step of a checker with timestamps.                                    *)
LEMMA CheckWithTimestamp ==
  ASSUME ComparisonInv, AlterTypes, phase = "compare", mode = "withTimestamp",
         NEW k \in Instances, checkClusters(k), UNCHANGED <<cluster, phase>>
  PROVE  ComparisonInv'
<1>1. UNCHANGED options
  BY DEF checkClusters, CompareIndicesWithTimestamp, CompareIndicesNoTimestamp, CompareCounts,
     InitializeScroll, DoScrollRequestV2, continueReading
<1>2. /\ Instances = 1..numParallelReads /\ numParallelReads \in 0..MaxParallelReads
      /\ numParallelReads \in Nat \ {0} /\ k \in 1..MaxParallelReads
  BY CheckerAssumption DEF ComparisonInv, Instances
<1>3. Comparing /\ \A j \in Instances : CheckerInv(checker[j], j, report)
  BY <1>2 DEF Comparing, ComparisonInv, AlterTypes
<1>4. GoodStep(k)
  <2>1. CheckerInv(checker[k], k, report)
    BY <1>3
  <2>2. CompareIndicesWithTimestamp(k)
    BY DEF checkClusters, CompareIndicesNoTimestamp, CompareCounts
  <2> QED
    BY <1>3, <2>1, <2>2, TwoSides, SourceSearched, DestinationSearched, ScrollRequested, RoundEnded
       DEF CompareIndicesWithTimestamp
<1>5. PICK c, rep : /\ checker' = [checker EXCEPT ![k] = c] /\ report' = rep
                    /\ report \subseteq rep /\ rep \subseteq Differences(InRange)
                    /\ CheckerInv(c, k, rep)
  BY <1>4 DEF GoodStep
<1>6. DOMAIN checker = 1..MaxParallelReads /\ DOMAIN checker' = 1..MaxParallelReads
  BY <1>5 DEF ComparisonInv
<1>7. Instances' = Instances /\ Differences(InRange)' = Differences(InRange)
  <2>1. Instances' = Instances
    BY <1>1 DEF Instances, options
  <2>2. PICK range : range = InRange
    OBVIOUS
  <2>3. Differences(range)' = Differences(range)
    BY <1>1, AtRest
  <2>4. range = InRange'
    BY <2>2 DEF InRange
  <2> QED
    BY <2>1, <2>2, <2>3, <2>4
<1>8. ASSUME NEW j \in Instances
      PROVE  CheckerInv(checker[j], j, report)'
  <2>1. PICK c2 : c2 = checker'[j]
    OBVIOUS
  <2>2. CheckerInv(c2, j, rep)
    <3>1. CASE j = k
      BY <1>2, <1>5, <1>6, <2>1, <3>1
    <3>2. CASE j # k
      <4>1. PICK r : r = report
        OBVIOUS
      <4>2. c2 = checker[j]
        BY <1>2, <1>5, <1>6, <2>1, <3>2
      <4>3. CheckerInv(c2, j, r) /\ r \subseteq rep
        BY <1>3, <1>5, <4>1, <4>2
      <4> QED
        BY <4>3, CheckerInvStays
    <3> QED
      BY <3>1, <3>2
  <2>3. CheckerInv(c2, j, rep)'
    BY <1>1, <2>2, AtRest
  <2>4. c2 = checker'[j] /\ rep = report'
    BY <1>5, <2>1
  <2> QED
    BY <2>3, <2>4
<1>9. report' \subseteq Differences(InRange)'
  BY <1>5, <1>7
<1> QED
  BY <1>1, <1>2, <1>6, <1>7, <1>8, <1>9 DEF ComparisonInv, options, Modes

(* A step of the checker without timestamps.                               *)
LEMMA CheckNoTimestamp ==
  ASSUME ComparisonInv, AlterTypes, phase = "compare", mode = "noTimestamp",
         NEW k \in Instances, checkClusters(k), UNCHANGED <<cluster, phase>>
  PROVE  ComparisonInv'
<1>1. UNCHANGED options /\ k = 1 /\ 1 \in 1..MaxParallelReads
  <2>1. UNCHANGED options
    BY DEF checkClusters, CompareIndicesWithTimestamp, CompareIndicesNoTimestamp, CompareCounts
  <2>2. k = 1
    BY DEF Instances
  <2>3. 1 \in 1..MaxParallelReads
    BY CheckerAssumption, InitialAssumption
  <2> QED
    BY <2>1, <2>2, <2>3
<1>2. PICK c : c = checker[1]
  OBVIOUS
<1>3. DOMAIN checker = 1..MaxParallelReads /\ SourceRead(c, report)
  BY <1>2 DEF ComparisonInv
<1>4. CompareIndicesNoTimestamp(1)
  BY <1>1 DEF checkClusters, CompareIndicesWithTimestamp, CompareCounts
<1>5. ASSUME NEW c2, NEW rep, checker' = [checker EXCEPT ![1] = c2], report' = rep,
             SourceRead(c2, rep)
      PROVE  ComparisonInv'
  <2>1. DOMAIN checker' = 1..MaxParallelReads /\ checker'[1] = c2
    BY <1>1, <1>3, <1>5
  <2>2. SourceRead(c2, rep)'
    BY <1>5 DEF SourceRead, processResponse, NotFound, areEqualJSON, Present, Unread
  <2>3. SourceRead(checker[1], report)'
    BY <1>5, <2>1, <2>2
  <2> QED
    BY <1>1, <2>1, <2>3 DEF ComparisonInv, options
<1> DEFINE found == Present(cluster["source"])
<1>6. CASE /\ c.pc = "source" /\ UNCHANGED report
           /\ \E q \in Unsorted(found) :
                checker' = [checker EXCEPT ![1] = [c EXCEPT !.pc = "read", !.page["source"] = PageIds(q),
                  !.scroll["source"] = [rest |-> Rest(q), open |-> TRUE, held |-> TRUE, done |-> FALSE]]]
  <2>1. PICK q \in Unsorted(found) :
          checker' = [checker EXCEPT ![1] = [c EXCEPT !.pc = "read", !.page["source"] = PageIds(q),
            !.scroll["source"] = [rest |-> Rest(q), open |-> TRUE, held |-> TRUE, done |-> FALSE]]]
    BY <1>6
  <2>2. found \subseteq Ids /\ IsFiniteSet(found)
    BY ClustersAssumption, FS_Subset, TwoSides DEF Present, AlterTypes
  <2>3. q \in Seq(found) /\ ToSet(q) = found
    BY <2>2, Searched DEF Unsorted
  <2>4. /\ Rest(q) \in Seq(found) /\ PageIds(q) \subseteq found
        /\ found = PageIds(q) \cup ToSet(Rest(q))
    BY <2>3, Pages
  <2>5. Rest(q) \in Seq(Ids)
    BY <2>2, <2>4
  <2> DEFINE scroll == [rest |-> Rest(q), open |-> TRUE, held |-> TRUE, done |-> FALSE]
             c2 == [c EXCEPT !.pc = "read", !.page["source"] = PageIds(q), !.scroll["source"] = scroll]
  <2>6. scroll \in Scrolls /\ scroll.rest = Rest(q)
    BY <2>5 DEF Scrolls
  <2> HIDE DEF scroll, found
  <2>7. /\ c2 \in CheckerTypes /\ c2.pc = "read" /\ c2.page["source"] = PageIds(q)
        /\ c2.scroll["source"] = scroll
    BY <1>3, <2>2, <2>4, <2>6, TwoSides DEF SourceRead, CheckerTypes
  <2>8. checker' = [checker EXCEPT ![1] = c2]
    BY <2>1 DEF scroll
  <2> HIDE DEF c2
  <2>9. Unread(c2, "source") = found
    BY <2>4, <2>6, <2>7 DEF Unread
  <2>10. report = {} /\ {} \cup Unread(c2, "source") = found /\ report = processResponse({})
    BY <1>3, <1>6, <2>9, ResponsesAddUp DEF SourceRead
  <2>11. \E ids \in SUBSET Ids : report = processResponse(ids) /\ ids \cup Unread(c2, "source") = found
    BY <2>10
  <2>12. SourceRead(c2, report)
    BY <2>7, <2>11 DEF SourceRead, found
  <2> QED
    BY <1>5, <1>6, <2>8, <2>12
<1>7. ASSUME c.pc = "read", report' = report \cup processResponse(c.page["source"])
      PROVE  \E ids \in SUBSET Ids : /\ report' = processResponse(ids)
                                     /\ ids \cup ToSet(c.scroll["source"].rest) = found
  <2>1. PICK ids \in SUBSET Ids : report = processResponse(ids) /\ ids \cup Unread(c, "source") = found
    BY <1>3, <1>7 DEF SourceRead
  <2>2. report' = processResponse(ids \cup c.page["source"])
    BY <1>7, <2>1, ResponsesAddUp
  <2>3. (ids \cup c.page["source"]) \cup ToSet(c.scroll["source"].rest) = found
    BY <2>1 DEF Unread
  <2>4. ids \cup c.page["source"] \subseteq Ids
    BY <1>3, <2>1, TwoSides DEF SourceRead, CheckerTypes
  <2> QED
    BY <2>2, <2>3, <2>4
<1>8. CASE /\ c.pc = "read" /\ report' = report \cup processResponse(c.page["source"])
           /\ c.scroll["source"].rest = <<>>
           /\ checker' = [checker EXCEPT ![1] =
                [c EXCEPT !.pc = "done", !.page["source"] = {}, !.scroll["source"] = NoScroll]]
  <2> DEFINE c2 == [c EXCEPT !.pc = "done", !.page["source"] = {}, !.scroll["source"] = NoScroll]
  <2>1. NoScroll \in Scrolls
    BY NothingLeft DEF NoScroll, Scrolls
  <2>2. c2 \in CheckerTypes /\ c2.pc = "done"
    BY <1>3, <2>1, TwoSides DEF SourceRead, CheckerTypes
  <2>3. report' = processResponse(found)
    BY <1>7, <1>8, NothingLeft
  <2>4. PICK rep : rep = report'
    OBVIOUS
  <2> HIDE DEF c2, found
  <2>5. SourceRead(c2, rep)
    BY <2>2, <2>3, <2>4 DEF SourceRead, found
  <2> QED
    BY <1>5, <1>8, <2>4, <2>5 DEF c2
<1>9. CASE /\ c.pc = "read" /\ report' = report \cup processResponse(c.page["source"])
           /\ checker' = [checker EXCEPT ![1] =
                [c EXCEPT !.page["source"] = PageIds(c.scroll["source"].rest),
                          !.scroll["source"].rest = Rest(@)]]
  <2> DEFINE rest == c.scroll["source"].rest
             scroll == [c.scroll["source"] EXCEPT !.rest = Rest(rest)]
             c2 == [c EXCEPT !.page["source"] = PageIds(rest), !.scroll["source"] = scroll]
  <2>1. c \in CheckerTypes /\ c.scroll["source"] \in Scrolls /\ rest \in Seq(Ids)
    BY <1>3, TwoSides DEF SourceRead, CheckerTypes, Scrolls
  <2>2. /\ Rest(rest) \in Seq(Ids) /\ PageIds(rest) \subseteq Ids
        /\ ToSet(rest) = PageIds(rest) \cup ToSet(Rest(rest))
    BY <2>1, Pages
  <2>3. scroll \in Scrolls /\ scroll.rest = Rest(rest)
    BY <2>1, <2>2 DEF Scrolls
  <2>4. checker' = [checker EXCEPT ![1] = c2]
    BY <1>9, <2>1 DEF CheckerTypes
  <2> HIDE DEF scroll, rest
  <2>5. /\ c2 \in CheckerTypes /\ c2.pc = "read" /\ c2.page["source"] = PageIds(rest)
        /\ c2.scroll["source"] = scroll
    BY <1>9, <2>1, <2>2, <2>3, TwoSides DEF CheckerTypes
  <2> HIDE DEF c2, found
  <2>6. Unread(c2, "source") = ToSet(rest)
    BY <2>2, <2>3, <2>5 DEF Unread
  <2>7. PICK rep : rep = report'
    OBVIOUS
  <2>8. \E ids \in SUBSET Ids : rep = processResponse(ids) /\ ids \cup Unread(c2, "source") = found
    BY <1>7, <1>9, <2>6, <2>7 DEF rest
  <2>9. SourceRead(c2, rep)
    BY <2>5, <2>8 DEF SourceRead, found
  <2> QED
    BY <1>5, <2>4, <2>7, <2>9
<1>10. CASE CheckFails(1)
  <2> DEFINE c2 == [c EXCEPT !.pc = "failed"]
  <2>1. c2 \in CheckerTypes /\ c2.pc = "failed"
    BY <1>3 DEF SourceRead, CheckerTypes
  <2>2. checker' = [checker EXCEPT ![1] = c2] /\ UNCHANGED report
    BY <1>2, <1>10 DEF CheckFails
  <2> HIDE DEF c2, found
  <2>3. SourceRead(c2, report)
    BY <2>1 DEF SourceRead
  <2> QED
    BY <1>5, <2>2, <2>3
<1> QED
  BY <1>2, <1>4, <1>6, <1>8, <1>9, <1>10 DEF CompareIndicesNoTimestamp

(* A step of the checker of counts.                                        *)
LEMMA CheckCounts ==
  ASSUME ComparisonInv, phase = "compare", mode = "counts",
         NEW k \in Instances, checkClusters(k), UNCHANGED <<cluster, phase>>
  PROVE  ComparisonInv'
<1>1. CompareCounts(k) /\ k = 1
  BY DEF checkClusters, CompareIndicesWithTimestamp, CompareIndicesNoTimestamp, Instances
<1>2. UNCHANGED options /\ More' = More
  BY <1>1 DEF CompareCounts, More
<1>3. \/ report' = More
      \/ checker' = [checker EXCEPT ![1].pc = "failed"]
  BY <1>1, Zenon DEF CompareCounts, CheckFails, More
<1>4. DOMAIN checker' = 1..MaxParallelReads
  BY <1>1 DEF CompareCounts, CheckFails, ComparisonInv
<1>5. 1 \in DOMAIN checker /\ checker[1] \in CheckerTypes
  BY CheckerAssumption, InitialAssumption DEF ComparisonInv
<1>6. checker'[1] \in CheckerTypes
  BY <1>1, <1>5 DEF CompareCounts, CheckFails, CheckerTypes
<1>7. checker'[1].pc = "done" => report' = More'
  BY <1>2, <1>3, <1>5 DEF CheckerTypes
<1> QED
  BY <1>2, <1>4, <1>6, <1>7 DEF ComparisonInv, options

(* The flags are read, and all of the checkers are at their start.         *)
LEMMA CheckersStart ==
  ASSUME ComparisonInv, StartChecker
  PROVE  ComparisonInv'
<1>1. /\ checker = [k \in 1..MaxParallelReads |-> NewChecker] /\ report = {}
      /\ checker' = checker /\ report' = report /\ phase' = "compare"
      /\ mode' \in Modes /\ numParallelReads' \in 0..MaxParallelReads
  BY CheckerAssumption, InitialAssumption DEF ComparisonInv, StartChecker, ReadFlags
<1>2. 1 \in 1..MaxParallelReads
  BY CheckerAssumption, InitialAssumption
<1>3. SourceRead(checker[1], report)'
  BY <1>1, <1>2, FreshChecker DEF SourceRead
<1>4. mode' = "withTimestamp" => \A k \in Instances' : CheckerInv(checker[k], k, report)'
  <2> SUFFICES ASSUME mode' = "withTimestamp", NEW k \in Instances'
               PROVE  CheckerInv(checker[k], k, report)'
    OBVIOUS
  <2>1. k \in 1..MaxParallelReads
    BY <1>1, CheckerAssumption DEF Instances
  <2>2. checker'[k] = NewChecker
    BY <1>1, <2>1
  <2> QED
    BY <1>1, <2>2, FreshChecker DEF CheckerInv
<1>5. checker'[1] \in CheckerTypes /\ checker'[1].pc # "done"
  BY <1>1, <1>2, FreshChecker
<1> QED
  BY <1>1, <1>3, <1>4, <1>5 DEF ComparisonInv

LEMMA ComparisonInvInit ==
  Init => ComparisonInv
BY DEF Init, CheckerInit, ComparisonInv

LEMMA ComparisonInvStep ==
  AlterTypes /\ ComparisonInv /\ [Next]_vars => ComparisonInv'
<1> SUFFICES ASSUME AlterTypes, ComparisonInv, [Next]_vars
             PROVE  ComparisonInv'
  OBVIOUS
<1>1. ASSUME phase = "alter", UNCHANGED <<phase, checkerVars>>
      PROVE  ComparisonInv'
  BY <1>1 DEF ComparisonInv, checkerVars, options
<1>2. ASSUME NEW id \in Ids, Execute(id)
      PROVE  ComparisonInv'
  BY <1>1, <1>2 DEF Execute
<1>3. CASE Alter
  BY <1>1, <1>3 DEF Alter
<1>4. CASE StartChecker
  BY <1>4, CheckersStart
<1>5. ASSUME NEW k \in 1..MaxParallelReads, Check(k)
      PROVE  ComparisonInv'
  <2>1. phase = "compare" /\ checkClusters(k) /\ UNCHANGED <<cluster, phase>> /\ k \in Instances
    BY <1>5 DEF Check, checkClusters
  <2>2. mode \in {"withTimestamp", "noTimestamp", "counts"}
    BY <2>1 DEF ComparisonInv, Modes
  <2> QED
    BY <2>1, <2>2, CheckWithTimestamp, CheckNoTimestamp, CheckCounts
<1>6. CASE UNCHANGED vars
  <2>1. UNCHANGED <<cluster, phase, mode, onlyIDs, numParallelReads, checker, report>>
    BY <1>6 DEF vars, checkerVars, options
  <2>2. More' = More /\ Instances' = Instances
    BY <2>1 DEF More, Instances
  <2>3. SourceRead(checker[1], report) => SourceRead(checker[1], report)'
    <3>1. PICK c, r : c = checker[1] /\ r = report
      OBVIOUS
    <3>2. SourceRead(c, r)' <=> SourceRead(c, r)
      BY <2>1 DEF SourceRead, processResponse, NotFound, areEqualJSON, Present, Unread
    <3>3. c = checker'[1] /\ r = report'
      BY <2>1, <3>1
    <3> QED
      BY <3>1, <3>2, <3>3
  <2>4. report \subseteq Differences(InRange) => (report \subseteq Differences(InRange))'
    BY <2>1 DEF Differences, NotFound, Different, areEqualJSON, Present, InRange
  <2>5. PICK r : r = report
    OBVIOUS
  <2>6. ASSUME NEW k \in Instances, CheckerInv(checker[k], k, report)
        PROVE  CheckerInv(checker[k], k, report)'
    <3>1. PICK c : c = checker[k]
      OBVIOUS
    <3>2. CheckerInv(c, k, r)
      BY <2>5, <2>6, <3>1
    <3>3. CheckerInv(c, k, r)'
      BY <2>1, <3>2, AtRest DEF options
    <3>4. c = checker'[k] /\ r = report'
      BY <2>1, <2>5, <3>1
    <3> QED
      BY <3>3, <3>4
  <2> QED
    BY <2>1, <2>2, <2>3, <2>4, <2>6 DEF ComparisonInv
<1> QED
  BY <1>2, <1>3, <1>4, <1>5, <1>6 DEF Next, Stopped

(* When every checker of tools/clusters-checker has finished, its log is   *)
(* exactly what differs in the range of timestamps: the intervals of       *)
(* computeIntervals leave no timestamp out, a document that the two sides  *)
(* return in different pages is paired by checkMaps wherever the pages     *)
(* end, and nothing is logged that does not differ.  Without timestamps    *)
(* the log is what the source has and the destination lacks or has         *)
(* differently, and the counts name the side that has more.                *)
THEOREM ReportIsExact == Spec => []ReportExact
<1>1. ASSUME AlterTypes, ComparisonInv, phase = "compare",
             \A k \in Instances : checker[k].pc = "done"
      PROVE  /\ mode \in Modes
             /\ mode = "withTimestamp" =>
                  report = IF numParallelReads = 0 THEN {} ELSE Differences(InRange)
             /\ mode = "noTimestamp" => report = processResponse(Present(cluster["source"]))
             /\ mode = "counts" => report = More
  <2>1. mode # "withTimestamp" => 1 \in Instances
    BY DEF Instances
  <2>2. CASE mode = "withTimestamp" /\ numParallelReads # 0
    <3>1. numParallelReads \in Nat \ {0} /\ Comparing
      BY <1>1, <2>2, CheckerAssumption DEF ComparisonInv, Comparing, AlterTypes
    <3>2. \A k \in Instances : Differences(InInterval(k)) \subseteq report
      BY <1>1, <2>2 DEF ComparisonInv, CheckerInv
    <3>3. PICK range, rep : range = InRange /\ rep = report
      OBVIOUS
    <3>4. range = UNION {InInterval(k) : k \in Instances}
      BY <2>2, <3>1, <3>3, InstancesCover
    <3>5. Differences(range) \subseteq rep
      <4>1. ASSUME NEW s \in Sides, NEW id \in Present(cluster[s]) \cap range
            PROVE  IF id \in Present(cluster[other(s)]) THEN Settled(id, rep)
                                                        ELSE NotFoundAt(other(s), id) \in rep
        <5>1. PICK k \in Instances : id \in InInterval(k)
          BY <3>4
        <5>2. PICK ids : ids = InInterval(k)
          OBVIOUS
        <5>3. Differences(ids) \subseteq rep /\ id \in Present(cluster[s]) \cap ids
          BY <3>2, <3>3, <5>1, <5>2
        <5> QED
          BY <5>3, DifferencesReported
      <4> QED
        BY <4>1, DifferencesReported
    <3>6. report \subseteq Differences(InRange)
      BY <1>1, <2>2 DEF ComparisonInv
    <3> QED
      BY <1>1, <2>2, <3>3, <3>5, <3>6 DEF ComparisonInv
  <2> QED
    BY <1>1, <2>1, <2>2 DEF ComparisonInv, SourceRead
<1>2. AlterTypes /\ ComparisonInv => ReportExact
  <2> SUFFICES ASSUME AlterTypes, ComparisonInv, phase = "compare",
                      \A k \in Instances : checker[k].pc = "done"
               PROVE  ReportExact
    BY DEF ReportExact
  <2>1. mode \in {"withTimestamp", "noTimestamp", "counts"}
    BY <1>1 DEF Modes
  <2>2. CASE mode = "withTimestamp"
    BY <1>1, <2>2 DEF ReportExact, InRange
  <2>3. CASE mode = "noTimestamp"
    BY <1>1, <2>3 DEF ReportExact
  <2>4. CASE mode = "counts"
    BY <1>1, <2>4 DEF ReportExact, More
  <2> QED
    BY <2>1, <2>2, <2>3, <2>4
<1>3. AlterInv => AlterTypes
  BY DEF AlterInv
<1>4. AlterInv /\ [Next]_vars => AlterInv'
  BY AlterInvStep
<1>5. AlterTypes /\ ComparisonInv /\ [Next]_vars => ComparisonInv'
  BY ComparisonInvStep
<1> QED
  BY <1>2, <1>3, <1>4, <1>5, AlterInvInit, ComparisonInvInit, PTL DEF Spec
=============================================================================
