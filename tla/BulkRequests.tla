---------------------------- MODULE BulkRequests ----------------------------
(***************************************************************************)
(* How a filled BufferSlice reaches Elasticsearch: doBulkRequests of       *)
(* elasticProcessor.go sends one bulk request per buffer and stops at the  *)
(* first error; DoBulkRequest and elasticBulkRequestResponseHandler of the *)
(* client decide what an error is.                                         *)
(*                                                                         *)
(* Elasticsearch is external.  It executes the operations of one request   *)
(* independently: each succeeds or fails on its own, and the answer, which *)
(* may get lost after the operations were executed, has one item for each. *)
(***************************************************************************)
EXTENDS BufferSlice, FiniteSets, SequencesExt

CONSTANT MaxPuts   \* bound on the number of PutData calls
ASSUME MaxPutsAssumption == MaxPuts \in Nat

VARIABLES
  kinds,    \* the kind of every operation put so far
  phase,    \* where the handler is: "prepare", "send", "ok" or "error"
  next,     \* index (from 0) of the next buffer to send
  applied   \* the operations that Elasticsearch has executed

vars == <<buffSlice, idx, numPut, kinds, phase, next, applied>>

OpKinds == {"index", "update", "delete"}

\* BulkRequestResponse unmarshals the items "index" and "update"; the item of
\* a delete leaves both pointers nil and has the zero status.
ItemKinds == {"index", "update"}

Init ==
  /\ NewBufferSlice
  /\ kinds = <<>>
  /\ phase = "prepare"
  /\ next = 0
  /\ applied = {}

\* A serializer puts an operation; only a delete has no data line.
Prepare(kind, meta, serializedData) ==
  /\ phase = "prepare"
  /\ numPut < MaxPuts
  /\ (kind = "delete") <=> (serializedData = 0)
  /\ PutData(meta, serializedData)
  /\ kinds' = Append(kinds, kind)
  /\ UNCHANGED <<phase, next, applied>>

\* The handler has serialized everything and calls doBulkRequests.
StartSending ==
  /\ phase = "prepare"
  /\ phase' = "send"
  /\ UNCHANGED <<buffSlice, idx, numPut, kinds, next, applied>>

\* The operations of the buffer that is sent next.
CurrentOps == ToSet(buffSlice[next + 1].ops)

\* Mutant: only the items of "index" are looked at.
onlyIndexItems(failedOps) == \E op \in failedOps : kinds[op] = "index"

\* The handler reports an error iff some item it looks at has failed.
extractErrorFromBulkBodyResponseBytes(failedOps) ==
  \E op \in failedOps : kinds[op] \in ItemKinds

\* Mutant: the loop remembers the error and goes on.
continueAfterError(done) ==
  /\ phase = "send"
  /\ next < Len(buffSlice)
  /\ applied' = applied \cup done
  /\ next' = next + 1
  /\ UNCHANGED <<phase, buffSlice, idx, numPut, kinds>>

\* Mutant: the loop steps over the next buffer.
stepOverBuffer(done) ==
  /\ phase = "send"
  /\ next < Len(buffSlice)
  /\ applied' = applied \cup done
  /\ next' = next + 2
  /\ UNCHANGED <<phase, buffSlice, idx, numPut, kinds>>

\* One iteration of the loop of doBulkRequests; the request was answered,
\* done are the operations Elasticsearch executed.
DoBulkRequest(done) ==
  /\ phase = "send"
  /\ next < Len(buffSlice)
  /\ applied' = applied \cup done
  /\ IF extractErrorFromBulkBodyResponseBytes(CurrentOps \ done)
       THEN phase' = "error" /\ UNCHANGED next
       ELSE next' = next + 1 /\ UNCHANGED phase
  /\ UNCHANGED <<buffSlice, idx, numPut, kinds>>

\* The request got no answer, an answer that cannot be read or an error for
\* the request as a whole; some operations may have been executed.
DoBulkRequestNoAnswer(done) ==
  /\ phase = "send"
  /\ next < Len(buffSlice)
  /\ applied' = applied \cup done
  /\ phase' = "error"
  /\ UNCHANGED <<buffSlice, idx, numPut, kinds, next>>

\* Every buffer was sent: doBulkRequests returns nil.
AllSent ==
  /\ phase = "send"
  /\ next = Len(buffSlice)
  /\ phase' = "ok"
  /\ UNCHANGED <<buffSlice, idx, numPut, kinds, next, applied>>

Next ==
  \/ \E kind \in OpKinds, meta \in MetaSizes, serializedData \in DataSizes :
       Prepare(kind, meta, serializedData)
  \/ StartSending
  \/ next < Len(buffSlice) /\ \E done \in SUBSET CurrentOps :
       DoBulkRequest(done) \/ DoBulkRequestNoAnswer(done)
  \/ AllSent

Spec == Init /\ [][Next]_vars
-----------------------------------------------------------------------------
TypeOK ==
  /\ BufferTypeOK
  /\ kinds \in Seq(OpKinds)
  /\ phase \in {"prepare", "send", "ok", "error"}
  /\ next \in 0..Len(buffSlice)
  /\ applied \subseteq 1..numPut

(* When doBulkRequests returns nil, every index and update operation was   *)
(* executed: neither the split into requests nor a failed item can lose a  *)
(* document.  (A failed delete is not noticed: the response handler does   *)
(* not look at the items of deletes.)                                      *)
SuccessMeansApplied ==
  phase = "ok" => \A op \in 1..numPut : kinds[op] \in ItemKinds => op \in applied

(* An operation is executed only after every index and update operation of *)
(* the earlier requests: after an error nothing more is sent, so a partial *)
(* write is always a prefix of the requests.                               *)
PartialWriteIsPrefix ==
  \A i, j \in 1..Len(buffSlice) :
    i < j /\ (\E op \in applied : op \in ToSet(buffSlice[j].ops)) =>
      \A op \in ToSet(buffSlice[i].ops) : kinds[op] \in ItemKinds => op \in applied
=============================================================================
