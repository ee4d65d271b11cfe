---------------------------- MODULE BufferSlice ----------------------------
(***************************************************************************)
(* data/buffer.go: the BufferSlice in which a handler of the indexer       *)
(* gathers the operations of one block before it sends them to             *)
(* Elasticsearch.  Every operation is an action line (meta) and, unless it *)
(* is a delete, a line of data.  The operations are cut into buffers, and  *)
(* each buffer becomes one bulk request.                                   *)
(*                                                                         *)
(* The bytes are abstracted to their number; an operation is known by its  *)
(* position in the order of the PutData calls.  bytes.Buffer.Write never   *)
(* returns an error, so PutData has no failing path.                       *)
(***************************************************************************)
EXTENDS Integers, Sequences

CONSTANTS
  MetaSizes,          \* possible lengths of an action line, newline included
  DataSizes,          \* possible lengths of the data line, 0 for a delete
  BulkRequestMaxSize, \* the configured size, 0 for the default
  DefaultMaxBulkSize  \* 4194304 in the code

ASSUME SizesAssumption ==
  /\ MetaSizes \subseteq Nat \ {0}
  /\ DataSizes \subseteq Nat

ASSUME ThresholdAssumption ==
  /\ BulkRequestMaxSize \in Nat
  /\ DefaultMaxBulkSize \in Nat \ {0}

VARIABLES
  buffSlice,          \* the buffers: their length and the operations in them
  idx,                \* index (from 0) of the buffer being filled
  numPut              \* number of operations put so far

\* NewBufferSlice replaces a threshold of zero by the default.
bulkSizeThreshold ==
  IF BulkRequestMaxSize = 0 THEN DefaultMaxBulkSize ELSE BulkRequestMaxSize

EmptyBuffer == [len |-> 0, ops |-> <<>>]

NewBufferSlice ==
  /\ buffSlice = <<>>
  /\ idx = 0
  /\ numPut = 0

\* Mutant: the test leaves out the operation that is about to be added.
testBufferOnly(buff, meta, serializedData) ==
  buff.len > bulkSizeThreshold /\ buff.len # 0

\* The test is made on the data as the caller passed it, without the newline
\* that PutData appends to it afterwards.
aNewElementIsNeeded(buff, meta, serializedData) ==
  /\ buff.len + meta + serializedData > bulkSizeThreshold
  /\ buff.len # 0

\* Number of bytes that PutData writes.
Written(meta, serializedData) ==
  meta + serializedData + (IF serializedData > 0 THEN 1 ELSE 0)

\* Mutant: idx is not advanced when a buffer is added.
putDataSameIdx(meta, serializedData) ==
  LET buffs == IF buffSlice = <<>> THEN <<EmptyBuffer>> ELSE buffSlice
      new   == aNewElementIsNeeded(buffs[idx + 1], meta, serializedData)
      cur   == IF new THEN EmptyBuffer ELSE buffs[idx + 1]
      full  == [len |-> cur.len + Written(meta, serializedData),
                ops |-> Append(cur.ops, numPut + 1)]
  IN  /\ buffSlice' = IF new THEN Append(buffs, full)
                             ELSE [buffs EXCEPT ![idx + 1] = full]
      /\ idx' = idx
      /\ numPut' = numPut + 1

PutData(meta, serializedData) ==
  LET buffs == IF buffSlice = <<>> THEN <<EmptyBuffer>> ELSE buffSlice
      new   == aNewElementIsNeeded(buffs[idx + 1], meta, serializedData)
      cur   == IF new THEN EmptyBuffer ELSE buffs[idx + 1]
      full  == [len |-> cur.len + Written(meta, serializedData),
                ops |-> Append(cur.ops, numPut + 1)]
  IN  /\ buffSlice' = IF new THEN Append(buffs, full)
                             ELSE [buffs EXCEPT ![idx + 1] = full]
      /\ idx' = IF new THEN idx + 1 ELSE idx
      /\ numPut' = numPut + 1
-----------------------------------------------------------------------------
BufferTypeOK ==
  /\ buffSlice \in Seq([len : Nat, ops : Seq(Nat)])
  /\ idx \in Nat
  /\ numPut \in Nat

(* The buffers, read one after the other, hold every operation that was    *)
(* put, once, in the order of the PutData calls: the scripts of a block    *)
(* rely on it when two operations are about the same document, also when   *)
(* PutData starts a new buffer between them.                               *)
OperationsInOrder ==
  /\ \A i \in 1..Len(buffSlice) : \A k \in 1..Len(buffSlice[i].ops) - 1 :
       buffSlice[i].ops[k + 1] = buffSlice[i].ops[k] + 1
  /\ \A i \in 1..Len(buffSlice) - 1 :
       buffSlice[i + 1].ops[1] = buffSlice[i].ops[Len(buffSlice[i].ops)] + 1
  /\ numPut > 0 =>
       /\ buffSlice[1].ops[1] = 1
       /\ LET last == buffSlice[Len(buffSlice)]
          IN  last.ops[Len(last.ops)] = numPut

(* No bulk request is empty, and one that carries more than one operation  *)
(* exceeds the threshold by at most the newline of its last operation: the *)
(* test of aNewElementIsNeeded does not count it, so DefaultMaxBulkSize is *)
(* not quite "the maximum size of one bulk request", as its comment says.  *)
BulkSizeBounded ==
  \A i \in 1..Len(buffSlice) :
    LET b == buffSlice[i]
    IN  /\ b.len > 0
        /\ b.ops # <<>>
        /\ Len(b.ops) > 1 => b.len <= bulkSizeThreshold + 1
=============================================================================
