------------------------ MODULE BulkRequests_proofs ------------------------
(***************************************************************************)
(* The properties of BulkRequests hold for every threshold, every size of  *)
(* the operations and every number of them.                                *)
(*                                                                         *)
(* The properties are not inductive: OperationsInOrder says nothing of     *)
(* where idx points and PartialWriteIsPrefix nothing of the buffers that   *)
(* were not sent.  Inv adds that idx is the last buffer, that the buffers  *)
(* split 1..numPut into increasing parts (BuffersPartition), and how far   *)
(* the handler is (Progress).                                              *)
(***************************************************************************)
EXTENDS BulkRequests, TLAPS

Ops(i) == ToSet(buffSlice[i].ops)

\* idx is the last buffer.
IdxIsLast ==
  /\ buffSlice = <<>> => idx = 0 /\ numPut = 0
  /\ buffSlice # <<>> => Len(buffSlice) = idx + 1 /\ numPut > 0

\* Every operation is in a buffer, and a later buffer has later operations.
BuffersPartition ==
  /\ \A i \in 1..Len(buffSlice) : \A op \in Ops(i) : op \in 1..numPut
  /\ \A i, j \in 1..Len(buffSlice) : i < j =>
       \A op \in Ops(i), later \in Ops(j) : op < later
  /\ \A op \in 1..numPut : \E i \in 1..Len(buffSlice) : op \in Ops(i)

BufferInv ==
  /\ BufferTypeOK
  /\ IdxIsLast
  /\ OperationsInOrder
  /\ BulkSizeBounded
  /\ BuffersPartition

\* The buffers before next were executed, those behind the one at next were
\* not touched, and that one only by a request that ended in an error.
Progress ==
  /\ phase = "prepare" => applied = {} /\ next = 0
  /\ phase = "ok" => next = Len(buffSlice)
  /\ \A i \in 1..next : \A op \in Ops(i) : kinds[op] \in ItemKinds => op \in applied
  /\ \A i \in 1..Len(buffSlice) : i > next + 1 => Ops(i) \cap applied = {}
  /\ phase # "error" => \A i \in 1..Len(buffSlice) : i > next => Ops(i) \cap applied = {}

Inv ==
  /\ TypeOK
  /\ Len(kinds) = numPut
  /\ BufferInv
  /\ Progress
-----------------------------------------------------------------------------
Buffers == [len : Nat, ops : Seq(Nat)]

\* The operation opens a buffer.
Opens(meta, data) ==
  /\ Len(buffSlice') = Len(buffSlice) + 1
  /\ \A i \in 1..Len(buffSlice) : buffSlice'[i] = buffSlice[i]
  /\ buffSlice'[Len(buffSlice')] = [len |-> Written(meta, data), ops |-> <<numPut + 1>>]

\* The operation joins the last buffer, in which there was room for it.
Joins(meta, data) ==
  /\ buffSlice # <<>>
  /\ Len(buffSlice') = Len(buffSlice)
  /\ \A i \in 1..Len(buffSlice) - 1 : buffSlice'[i] = buffSlice[i]
  /\ buffSlice'[Len(buffSlice')] =
        [len |-> buffSlice[Len(buffSlice)].len + Written(meta, data),
         ops |-> Append(buffSlice[Len(buffSlice)].ops, numPut + 1)]
  /\ buffSlice[Len(buffSlice)].len + meta + data <= bulkSizeThreshold

(* What Append does to a sequence of operations.                          *)
LEMMA AppendFacts ==
  ASSUME NEW q \in Seq(Nat), NEW x \in Nat
  PROVE  /\ Append(q, x) \in Seq(Nat) /\ Append(q, x) # <<>>
         /\ Len(Append(q, x)) = Len(q) + 1
         /\ Append(q, x)[Len(q) + 1] = x
         /\ \A j \in 1..Len(q) : Append(q, x)[j] = q[j]
OBVIOUS

(* The threshold of NewBufferSlice is a positive number.                   *)
LEMMA ThresholdPositive == bulkSizeThreshold \in Nat \ {0}
BY ThresholdAssumption DEF bulkSizeThreshold

(* PutData (data/buffer.go) opens a buffer or joins the last one, and idx  *)
(* stays at the last buffer.                                               *)
LEMMA PutDataCases ==
  ASSUME NEW meta \in MetaSizes, NEW data \in DataSizes,
         BufferTypeOK, IdxIsLast, BulkSizeBounded, PutData(meta, data)
  PROVE  /\ buffSlice' \in Seq(Buffers)
         /\ idx' \in Nat
         /\ numPut' = numPut + 1
         /\ buffSlice' # <<>>
         /\ Len(buffSlice') = idx' + 1
         /\ Opens(meta, data) \/ Joins(meta, data)
<1> DEFINE w == Written(meta, data)
<1>1. /\ meta \in Nat \ {0} /\ data \in Nat /\ w \in Nat
  BY SizesAssumption DEF Written
<1>2. /\ buffSlice \in Seq(Buffers) /\ idx \in Nat /\ numPut \in Nat
  BY DEF BufferTypeOK, Buffers
<1> HIDE DEF w
<1>3. CASE buffSlice = <<>>
  <2>1. ~aNewElementIsNeeded(EmptyBuffer, meta, data)
    BY DEF aNewElementIsNeeded, EmptyBuffer
  <2>2. idx = 0
    BY <1>3 DEF IdxIsLast
  <2>3. Append(<<>>, numPut + 1) = <<numPut + 1>>
    BY <1>2
  <2>4. /\ buffSlice' = <<[len |-> w, ops |-> <<numPut + 1>>]>>
        /\ idx' = 0 /\ numPut' = numPut + 1
    BY <1>1, <1>2, <1>3, <2>1, <2>2, <2>3 DEF PutData, EmptyBuffer, w
  <2>5. [len |-> w, ops |-> <<numPut + 1>>] \in Buffers
    BY <1>1, <1>2 DEF Buffers
  <2> QED
    BY <1>3, <2>4, <2>5 DEF Opens, w
<1>4. CASE buffSlice # <<>> /\ aNewElementIsNeeded(buffSlice[idx + 1], meta, data)
  <2>1. Append(<<>>, numPut + 1) = <<numPut + 1>>
    BY <1>2
  <2>2. /\ buffSlice' = Append(buffSlice, [len |-> w, ops |-> <<numPut + 1>>])
        /\ idx' = idx + 1 /\ numPut' = numPut + 1
    BY <1>1, <1>2, <1>4, <2>1 DEF PutData, EmptyBuffer, w
  <2>3. [len |-> w, ops |-> <<numPut + 1>>] \in Buffers
    BY <1>1, <1>2 DEF Buffers
  <2>4. Len(buffSlice) = idx + 1
    BY <1>4 DEF IdxIsLast
  <2> QED
    BY <1>2, <2>2, <2>3, <2>4 DEF Opens, w
<1>5. CASE buffSlice # <<>> /\ ~aNewElementIsNeeded(buffSlice[idx + 1], meta, data)
  <2> DEFINE last == buffSlice[Len(buffSlice)]
             full == [len |-> last.len + w, ops |-> Append(last.ops, numPut + 1)]
  <2>1. Len(buffSlice) = idx + 1 /\ last \in Buffers /\ Len(buffSlice) \in 1..Len(buffSlice)
    BY <1>2, <1>5 DEF IdxIsLast
  <2>2. last.len > 0 /\ last.len \in Nat /\ last.ops \in Seq(Nat)
    BY <2>1 DEF BulkSizeBounded, Buffers
  <2>3. full \in Buffers
    BY <1>1, <1>2, <2>2 DEF Buffers
  <2>4. /\ buffSlice' = [buffSlice EXCEPT ![Len(buffSlice)] = full]
        /\ idx' = idx /\ numPut' = numPut + 1
    BY <1>5, <2>1 DEF PutData, w
  <2>5. last.len + meta + data <= bulkSizeThreshold
    BY <1>1, <1>5, <2>1, <2>2, ThresholdPositive DEF aNewElementIsNeeded
  <2> HIDE DEF full
  <2>6. /\ Len(buffSlice') = Len(buffSlice) /\ buffSlice' \in Seq(Buffers)
        /\ buffSlice'[Len(buffSlice)] = full
        /\ \A i \in 1..Len(buffSlice) - 1 : buffSlice'[i] = buffSlice[i]
    BY <1>2, <2>1, <2>3, <2>4
  <2>7. buffSlice' # <<>>
    BY <2>6, <2>1
  <2> QED
    BY <1>2, <1>5, <2>1, <2>4, <2>5, <2>6, <2>7 DEF Joins, w, full
<1> QED
  BY <1>3, <1>4, <1>5

(* PutData preserves the invariant of the buffers.                         *)
LEMMA PutDataInv ==
  ASSUME NEW meta \in MetaSizes, NEW data \in DataSizes,
         BufferInv, PutData(meta, data)
  PROVE  BufferInv'
<1> DEFINE n == Len(buffSlice)
           old == buffSlice[n]
           rec == buffSlice'[Len(buffSlice')]
<1>1. /\ buffSlice' \in Seq(Buffers) /\ idx' \in Nat /\ numPut' = numPut + 1
      /\ buffSlice' # <<>> /\ Len(buffSlice') = idx' + 1
      /\ Opens(meta, data) \/ Joins(meta, data)
  BY PutDataCases DEF BufferInv
<1>2. /\ buffSlice \in Seq(Buffers) /\ idx \in Nat /\ numPut \in Nat /\ n \in Nat
  BY DEF BufferInv, BufferTypeOK, Buffers
<1>3. /\ meta \in Nat \ {0} /\ data \in Nat
      /\ Written(meta, data) \in Nat
      /\ Written(meta, data) > 0
      /\ Written(meta, data) <= meta + data + 1
  BY SizesAssumption DEF Written
<1>4. BufferTypeOK' /\ IdxIsLast'
  BY <1>1, <1>2 DEF BufferTypeOK, IdxIsLast, Buffers
<1>5. \A i \in 1..n : /\ buffSlice[i].len \in Nat /\ buffSlice[i].len > 0
                      /\ buffSlice[i].ops \in Seq(Nat) /\ buffSlice[i].ops # <<>>
                      /\ Len(buffSlice[i].ops) \in Nat \ {0}
  <2> SUFFICES ASSUME NEW i \in 1..n
               PROVE  /\ buffSlice[i].len \in Nat /\ buffSlice[i].len > 0
                      /\ buffSlice[i].ops \in Seq(Nat) /\ buffSlice[i].ops # <<>>
                      /\ Len(buffSlice[i].ops) \in Nat \ {0}
    OBVIOUS
  <2>1. buffSlice[i] \in Buffers
    BY <1>2
  <2>2. buffSlice[i].len > 0 /\ buffSlice[i].ops # <<>>
    BY DEF BufferInv, BulkSizeBounded
  <2> QED
    BY <2>1, <2>2 DEF Buffers
<1>6. CASE Opens(meta, data)
  <2> DEFINE new == [len |-> Written(meta, data), ops |-> <<numPut + 1>>]
  <2>1. /\ Len(buffSlice') = n + 1 /\ buffSlice'[n + 1] = new
        /\ \A i \in 1..n : buffSlice'[i] = buffSlice[i]
    BY <1>6, <1>2 DEF Opens
  <2>2. /\ new.len = Written(meta, data) /\ new.ops = <<numPut + 1>>
        /\ Len(new.ops) = 1 /\ new.ops[1] = numPut + 1 /\ new.ops # <<>>
    BY <1>2
  <2> HIDE DEF new
  <2>3. BulkSizeBounded'
    <3> SUFFICES ASSUME NEW i \in 1..(n + 1)
                 PROVE  /\ buffSlice'[i].len > 0 /\ buffSlice'[i].ops # <<>>
                        /\ Len(buffSlice'[i].ops) > 1 =>
                             buffSlice'[i].len <= bulkSizeThreshold + 1
      BY <2>1 DEF BulkSizeBounded, bulkSizeThreshold
    <3>1. CASE i \in 1..n
      BY <3>1, <2>1 DEF BufferInv, BulkSizeBounded
    <3>2. CASE i = n + 1
      BY <3>2, <2>1, <2>2, <1>3
    <3> QED
      BY <3>1, <3>2, <1>2
  <2>4. OperationsInOrder'
    <3>1. \A i \in 1..(n + 1) : \A k \in 1..Len(buffSlice'[i].ops) - 1 :
             buffSlice'[i].ops[k + 1] = buffSlice'[i].ops[k] + 1
      <4> SUFFICES ASSUME NEW i \in 1..(n + 1), NEW k \in 1..Len(buffSlice'[i].ops) - 1
                   PROVE  buffSlice'[i].ops[k + 1] = buffSlice'[i].ops[k] + 1
        OBVIOUS
      <4>1. CASE i \in 1..n
        BY <4>1, <2>1 DEF BufferInv, OperationsInOrder
      <4>2. CASE i = n + 1
        BY <4>2, <2>1, <2>2
      <4> QED
        BY <4>1, <4>2, <1>2
    <3>2. \A i \in 1..n :
             buffSlice'[i + 1].ops[1] = buffSlice'[i].ops[Len(buffSlice'[i].ops)] + 1
      <4> SUFFICES ASSUME NEW i \in 1..n
                   PROVE buffSlice'[i + 1].ops[1] = buffSlice'[i].ops[Len(buffSlice'[i].ops)] + 1
        OBVIOUS
      <4>1. CASE i < n
        BY <4>1, <2>1, <1>2 DEF BufferInv, OperationsInOrder
      <4>2. CASE i = n
        <5>1. numPut > 0
          BY <4>2, <1>2 DEF BufferInv, IdxIsLast
        <5> QED
          BY <4>2, <5>1, <2>1, <2>2, <1>2 DEF BufferInv, OperationsInOrder
      <4> QED
        BY <4>1, <4>2, <1>2
    <3>3. buffSlice'[1].ops[1] = 1
      <4>1. CASE n = 0
        <5>1. numPut = 0
          BY <4>1, <1>2 DEF BufferInv, IdxIsLast
        <5> QED
          BY <4>1, <5>1, <2>1, <2>2
      <4>2. CASE n > 0
        <5>1. numPut > 0
          BY <4>2, <1>2 DEF BufferInv, IdxIsLast
        <5> QED
          BY <4>2, <5>1, <2>1, <1>2 DEF BufferInv, OperationsInOrder
      <4> QED
        BY <4>1, <4>2, <1>2
    <3> QED
      BY <3>1, <3>2, <3>3, <2>1, <2>2, <1>1, <1>2 DEF OperationsInOrder
  <2>5. /\ \A i \in 1..n : Ops(i)' = Ops(i)
        /\ ToSet(buffSlice'[n + 1].ops) = {numPut + 1}
    BY <2>1, <2>2 DEF Ops, ToSet
  <2>6. BuffersPartition'
    <3>1. \A i \in 1..(n + 1) : i \in 1..n \/ i = n + 1
      BY <1>2
    <3>2. \A i \in 1..n : Ops(i) \subseteq 1..numPut
      BY DEF BufferInv, BuffersPartition
    <3>3. \A i \in 1..(n + 1) : \A op \in Ops(i)' : op \in 1..numPut'
      <4> SUFFICES ASSUME NEW i \in 1..(n + 1), NEW op \in Ops(i)'
                   PROVE  op \in 1..(numPut + 1)
        BY <1>1
      <4>1. CASE i \in 1..n
        BY <4>1, <3>2, <2>5, <1>2
      <4>2. CASE i = n + 1
        <5>1. op = numPut + 1
          BY <4>2, <2>5 DEF Ops
        <5> QED
          BY <5>1, <1>2
      <4> QED
        BY <4>1, <4>2, <3>1
    <3>4. \A i, j \in 1..(n + 1) : i < j =>
            \A op \in Ops(i)', later \in Ops(j)' : op < later
      <4> SUFFICES ASSUME NEW i \in 1..(n + 1), NEW j \in 1..(n + 1), i < j,
                          NEW op \in Ops(i)', NEW later \in Ops(j)'
                   PROVE  op < later
        OBVIOUS
      <4>1. i \in 1..n /\ op \in Ops(i)
        BY <2>5, <1>2
      <4>2. CASE j \in 1..n
        BY <4>1, <4>2, <2>5 DEF BufferInv, BuffersPartition
      <4>3. CASE j = n + 1
        <5>1. later = numPut + 1
          BY <4>3, <2>5 DEF Ops
        <5> QED
          BY <4>1, <5>1, <3>2, <1>2
      <4> QED
        BY <4>2, <4>3, <3>1
    <3>5. \A op \in 1..numPut' : \E i \in 1..(n + 1) : op \in Ops(i)'
      <4> SUFFICES ASSUME NEW op \in 1..(numPut + 1)
                   PROVE  \E i \in 1..(n + 1) : op \in Ops(i)'
        BY <1>1
      <4>1. CASE op \in 1..numPut
        <5>1. PICK i \in 1..n : op \in Ops(i)
          BY <4>1 DEF BufferInv, BuffersPartition
        <5> QED
          BY <5>1, <2>5, <1>2
      <4>2. CASE op = numPut + 1
        <5>1. op \in ToSet(buffSlice'[n + 1].ops) /\ n + 1 \in 1..(n + 1)
          BY <4>2, <2>5, <1>2
        <5> QED
          BY <5>1 DEF Ops
      <4> QED
        BY <4>1, <4>2, <1>2
    <3> QED
      BY <3>3, <3>4, <3>5, <2>1 DEF BuffersPartition
  <2> QED
    BY <1>4, <2>3, <2>4, <2>6 DEF BufferInv
<1>7. CASE Joins(meta, data)
  <2> DEFINE new == [len |-> old.len + Written(meta, data),
                     ops |-> Append(old.ops, numPut + 1)]
             k == Len(old.ops)
  <2>1. /\ Len(buffSlice') = n /\ buffSlice'[n] = new /\ n > 0
        /\ \A i \in 1..n - 1 : buffSlice'[i] = buffSlice[i]
        /\ old.len + meta + data <= bulkSizeThreshold
        /\ numPut > 0
    BY <1>7, <1>2 DEF Joins, BufferInv, IdxIsLast
  <2>2. /\ old.len \in Nat /\ old.len > 0 /\ old.ops \in Seq(Nat) /\ k \in Nat \ {0}
    BY <1>5, <1>2, <2>1
  <2>a. new.len = old.len + Written(meta, data) /\ new.ops = Append(old.ops, numPut + 1)
    OBVIOUS
  <2>6. old.ops[k] = numPut
    BY <2>1, <1>2 DEF BufferInv, OperationsInOrder
  <2>b. Ops(n) = ToSet(old.ops)
    BY DEF Ops
  <2>c. /\ Len(old.ops) > 1 => old.len <= bulkSizeThreshold + 1
        /\ \A j \in 1..k - 1 : old.ops[j + 1] = old.ops[j] + 1
    BY <2>1, <1>2 DEF BufferInv, BulkSizeBounded, OperationsInOrder
  <2>d. old = buffSlice[n] /\ k = Len(old.ops)
    OBVIOUS
  <2> HIDE DEF new, old, k
  <2>3. /\ new.len = old.len + Written(meta, data)
        /\ Len(new.ops) = k + 1 /\ new.ops[k + 1] = numPut + 1 /\ new.ops # <<>>
        /\ \A j \in 1..k : new.ops[j] = old.ops[j]
    <3>1. numPut + 1 \in Nat
      BY <1>2
    <3> DEFINE q == Append(old.ops, numPut + 1)
    <3>2. /\ q # <<>> /\ Len(q) = k + 1 /\ q[k + 1] = numPut + 1
          /\ \A j \in 1..k : q[j] = old.ops[j]
      BY <3>1, <2>2, <2>d, AppendFacts
    <3>3. new.ops = q
      BY <2>a
    <3> HIDE DEF q
    <3> QED
      BY <3>2, <3>3, <2>a
  <2>4. new.len > 0 /\ new.len <= bulkSizeThreshold + 1
    BY <1>3, <2>1, <2>2, <2>3, ThresholdPositive
  <2>5. BulkSizeBounded'
    <3> SUFFICES ASSUME NEW i \in 1..n
                 PROVE  /\ buffSlice'[i].len > 0 /\ buffSlice'[i].ops # <<>>
                        /\ Len(buffSlice'[i].ops) > 1 =>
                             buffSlice'[i].len <= bulkSizeThreshold + 1
      BY <2>1 DEF BulkSizeBounded, bulkSizeThreshold
    <3>1. CASE i \in 1..n - 1
      BY <3>1, <2>1 DEF BufferInv, BulkSizeBounded
    <3>2. CASE i = n
      BY <3>2, <2>1, <2>3, <2>4
    <3> QED
      BY <3>1, <3>2, <1>2
  <2>7. OperationsInOrder'
    <3>1. \A i \in 1..n : \A j \in 1..Len(buffSlice'[i].ops) - 1 :
             buffSlice'[i].ops[j + 1] = buffSlice'[i].ops[j] + 1
      <4> SUFFICES ASSUME NEW i \in 1..n, NEW j \in 1..Len(buffSlice'[i].ops) - 1
                   PROVE buffSlice'[i].ops[j + 1] = buffSlice'[i].ops[j] + 1
        OBVIOUS
      <4>1. CASE i < n
        BY <4>1, <2>1, <1>2 DEF BufferInv, OperationsInOrder
      <4>2. CASE i = n /\ j < k
        <5>1. j \in 1..k - 1 /\ j + 1 \in 1..k /\ j \in 1..k
          BY <4>2, <2>1, <2>2, <2>3, <1>2
        <5>2. old.ops[j + 1] = old.ops[j] + 1
          BY <5>1, <2>c
        <5> QED
          BY <5>1, <5>2, <4>2, <2>1, <2>2, <2>3
      <4>3. CASE i = n /\ j = k
        <5>1. k \in 1..k
          BY <2>2
        <5> QED
          BY <5>1, <4>3, <2>1, <2>2, <2>3, <2>6
      <4> QED
        BY <4>1, <4>2, <4>3, <2>1, <2>2, <2>3, <1>2
    <3>2. new.ops[1] = old.ops[1]
      BY <2>2, <2>3
    <3>3. \A i \in 1..n - 1 :
             buffSlice'[i + 1].ops[1] = buffSlice'[i].ops[Len(buffSlice'[i].ops)] + 1
      <4> SUFFICES ASSUME NEW i \in 1..n - 1
                   PROVE buffSlice'[i + 1].ops[1] = buffSlice'[i].ops[Len(buffSlice'[i].ops)] + 1
        OBVIOUS
      <4>1. buffSlice[i + 1].ops[1] = buffSlice[i].ops[Len(buffSlice[i].ops)] + 1
        BY <1>2 DEF BufferInv, OperationsInOrder
      <4>2. buffSlice'[i + 1].ops[1] = buffSlice[i + 1].ops[1]
        <5>1. CASE i + 1 \in 1..n - 1
          BY <5>1, <2>1
        <5>2. CASE i + 1 = n
          BY <5>2, <3>2, <2>1, <2>d
        <5> QED
          BY <5>1, <5>2, <1>2
      <4> QED
        BY <4>1, <4>2, <2>1
    <3>4. buffSlice'[1].ops[1] = 1
      <4>1. buffSlice[1].ops[1] = 1
        BY <2>1 DEF BufferInv, OperationsInOrder
      <4>2. CASE n = 1
        BY <4>1, <4>2, <3>2, <2>1, <2>d
      <4>3. CASE n > 1
        <5>1. 1 \in 1..n - 1
          BY <4>3, <1>2
        <5> QED
          BY <4>1, <5>1, <2>1
      <4> QED
        BY <4>2, <4>3, <2>1, <1>2
    <3> QED
      BY <3>1, <3>3, <3>4, <2>1, <2>3, <1>1, <1>2 DEF OperationsInOrder
  <2>8. /\ \A i \in 1..n - 1 : Ops(i)' = Ops(i)
        /\ ToSet(buffSlice'[n].ops) = Ops(n) \cup {numPut + 1}
    <3>1. \A i \in 1..n - 1 : Ops(i)' = Ops(i)
      BY <2>1 DEF Ops
    <3>2. DOMAIN new.ops = 1..(k + 1) /\ DOMAIN old.ops = 1..k
      BY <2>2, <2>3, <2>a, <2>d, <1>2
    <3>3. ToSet(new.ops) = ToSet(old.ops) \cup {numPut + 1}
      BY <3>2, <2>2, <2>3 DEF ToSet
    <3> QED
      BY <3>1, <3>3, <2>1, <2>b
  <2>9. BuffersPartition'
    <3>1. \A i \in 1..n : i \in 1..n - 1 \/ i = n
      BY <1>2
    <3>2. \A i \in 1..n : Ops(i) \subseteq 1..numPut
      BY DEF BufferInv, BuffersPartition
    <3>3. \A i \in 1..n : \A op \in Ops(i)' : op \in 1..numPut'
      <4> SUFFICES ASSUME NEW i \in 1..n, NEW op \in Ops(i)'
                   PROVE  op \in 1..(numPut + 1)
        BY <1>1
      <4>1. op \in Ops(i) \/ op = numPut + 1
        BY <3>1, <2>8 DEF Ops
      <4> QED
        BY <4>1, <3>2, <1>2
    <3>4. \A i, j \in 1..n : i < j =>
            \A op \in Ops(i)', later \in Ops(j)' : op < later
      <4> SUFFICES ASSUME NEW i \in 1..n, NEW j \in 1..n, i < j,
                          NEW op \in Ops(i)', NEW later \in Ops(j)'
                   PROVE  op < later
        OBVIOUS
      <4>1. i \in 1..n - 1 /\ op \in Ops(i)
        BY <2>8, <1>2
      <4>2. later \in Ops(j) \/ later = numPut + 1
        BY <3>1, <2>8 DEF Ops
      <4>3. CASE later \in Ops(j)
        BY <4>1, <4>3 DEF BufferInv, BuffersPartition
      <4>4. CASE later = numPut + 1
        BY <4>1, <4>4, <3>2, <1>2
      <4> QED
        BY <4>2, <4>3, <4>4
    <3>5. \A op \in 1..numPut' : \E i \in 1..n : op \in Ops(i)'
      <4> SUFFICES ASSUME NEW op \in 1..(numPut + 1)
                   PROVE  \E i \in 1..n : op \in Ops(i)'
        BY <1>1
      <4>1. CASE op \in 1..numPut
        <5>1. PICK i \in 1..n : op \in Ops(i)
          BY <4>1 DEF BufferInv, BuffersPartition
        <5>2. op \in Ops(i)'
          BY <5>1, <3>1, <2>8 DEF Ops
        <5> QED
          BY <5>2
      <4>2. CASE op = numPut + 1
        <5>1. op \in ToSet(buffSlice'[n].ops) /\ n \in 1..n
          BY <4>2, <2>1, <2>8, <1>2
        <5> QED
          BY <5>1 DEF Ops
      <4> QED
        BY <4>1, <4>2, <1>2
    <3> QED
      BY <3>3, <3>4, <3>5, <2>1 DEF BuffersPartition
  <2> QED
    BY <1>4, <2>5, <2>7, <2>9 DEF BufferInv
<1> QED
  BY <1>1, <1>6, <1>7
-----------------------------------------------------------------------------
(* A handler starts with no buffer and nothing sent.                       *)
LEMMA InitInv == Init => Inv
<1> SUFFICES ASSUME Init PROVE Inv
  OBVIOUS
<1>1. /\ buffSlice = <<>> /\ idx = 0 /\ numPut = 0 /\ kinds = <<>>
      /\ phase = "prepare" /\ next = 0 /\ applied = {}
  BY DEF Init, NewBufferSlice
<1>2. Len(buffSlice) = 0 /\ Len(kinds) = 0
  BY <1>1
<1>3. TypeOK
  BY <1>1, <1>2 DEF TypeOK, BufferTypeOK
<1>4. OperationsInOrder /\ BulkSizeBounded /\ BuffersPartition /\ IdxIsLast
  BY <1>1, <1>2 DEF OperationsInOrder, BulkSizeBounded, BuffersPartition, IdxIsLast
<1>5. Progress
  BY <1>1, <1>2 DEF Progress
<1> QED
  BY <1>1, <1>2, <1>3, <1>4, <1>5 DEF Inv, BufferInv, TypeOK

\* The buffers, and what is known of them, in a step that leaves them alone.
BuffersUnchanged == UNCHANGED <<buffSlice, idx, numPut, kinds>>

(* Sending does not touch the buffers.                                     *)
LEMMA BuffersUnchangedInv ==
  ASSUME BufferInv, BuffersUnchanged
  PROVE  BufferInv' /\ \A i : Ops(i)' = Ops(i)
BY DEF BufferInv, BuffersUnchanged, BufferTypeOK, IdxIsLast, OperationsInOrder,
       BulkSizeBounded, bulkSizeThreshold, BuffersPartition, Ops

(* A bulk request, answered or not, executes only operations of the buffer *)
(* at next, so those of the buffers behind it stay untouched.              *)
LEMMA RequestTouchesOneBuffer ==
  ASSUME Inv, phase = "send", next < Len(buffSlice),
         NEW done \in SUBSET CurrentOps
  PROVE  /\ done \subseteq Ops(next + 1) /\ CurrentOps = Ops(next + 1)
         /\ next + 1 \in 1..Len(buffSlice)
         /\ applied \cup done \subseteq 1..numPut
         /\ \A i \in 1..Len(buffSlice) : i > next + 1 =>
              Ops(i) \cap (applied \cup done) = {}
<1>1. /\ next \in Nat /\ Len(buffSlice) \in Nat /\ applied \subseteq 1..numPut /\ numPut \in Nat
  BY DEF Inv, TypeOK, BufferTypeOK
<1>2. CurrentOps = Ops(next + 1) /\ next + 1 \in 1..Len(buffSlice)
  BY <1>1 DEF CurrentOps, Ops
<1>3. Ops(next + 1) \subseteq 1..numPut
  BY <1>2 DEF Inv, BufferInv, BuffersPartition
<1>4. ASSUME NEW i \in 1..Len(buffSlice), i > next + 1
      PROVE  Ops(i) \cap (applied \cup done) = {}
  <2>1. Ops(i) \cap applied = {}
    BY <1>4 DEF Inv, Progress
  <2>2. ASSUME NEW op \in Ops(i), op \in Ops(next + 1) PROVE FALSE
    <3>1. op < op
      BY <1>1, <1>2, <1>4, <2>2 DEF Inv, BufferInv, BuffersPartition
    <3>2. op \in Nat
      BY <1>3, <1>1, <2>2
    <3> QED
      BY <3>1, <3>2
  <2> QED
    BY <1>2, <2>1, <2>2
<1> QED
  BY <1>1, <1>2, <1>3, <1>4

(* Every step keeps the invariant.                                         *)
LEMMA NextInv == Inv /\ [Next]_vars => Inv'
<1> SUFFICES ASSUME Inv, [Next]_vars PROVE Inv'
  OBVIOUS
<1>1. /\ BufferInv /\ TypeOK /\ Progress /\ Len(kinds) = numPut
      /\ next \in Nat /\ Len(buffSlice) \in Nat /\ next <= Len(buffSlice)
      /\ numPut \in Nat /\ kinds \in Seq(OpKinds)
  BY DEF Inv, TypeOK, BufferTypeOK
<1>2. ASSUME NEW kind \in OpKinds, NEW meta \in MetaSizes, NEW data \in DataSizes,
             Prepare(kind, meta, data)
      PROVE  Inv'
  <2>1. PutData(meta, data) /\ phase = "prepare" /\ phase' = "prepare"
        /\ next' = next /\ applied' = applied /\ kinds' = Append(kinds, kind)
    BY <1>2 DEF Prepare
  <2>2. BufferInv'
    BY <1>1, <2>1, PutDataInv
  <2>3. numPut' = numPut + 1 /\ Len(buffSlice)' \in Nat
    <3>1. numPut' = numPut + 1
      BY <1>1, <2>1, PutDataCases DEF BufferInv
    <3>2. buffSlice' \in Seq([len : Nat, ops : Seq(Nat)])
      BY <2>2 DEF BufferInv, BufferTypeOK
    <3> QED
      BY <3>1, <3>2
  <2>4. kinds' \in Seq(OpKinds) /\ Len(kinds') = numPut'
    BY <1>1, <2>1, <2>3
  <2>5. next = 0 /\ applied = {}
    BY <1>1, <2>1 DEF Progress
  <2>6. Progress'
    BY <2>1, <2>5 DEF Progress
  <2>7. TypeOK'
    BY <2>1, <2>2, <2>3, <2>4, <2>5 DEF TypeOK, BufferInv
  <2> QED
    BY <2>2, <2>4, <2>6, <2>7 DEF Inv
<1>3. CASE StartSending
  <2>1. BuffersUnchanged /\ phase = "prepare" /\ phase' = "send"
        /\ next' = next /\ applied' = applied
    BY <1>3 DEF StartSending, BuffersUnchanged
  <2>2. BufferInv' /\ \A i : Ops(i)' = Ops(i)
    BY <1>1, <2>1, BuffersUnchangedInv
  <2>3. next = 0 /\ applied = {}
    BY <1>1, <2>1 DEF Progress
  <2>4. Progress'
    BY <2>1, <2>3 DEF Progress
  <2>5. TypeOK' /\ Len(kinds)' = numPut'
    BY <1>1, <2>1, <2>2 DEF TypeOK, BufferInv, BuffersUnchanged
  <2> QED
    BY <2>2, <2>4, <2>5 DEF Inv
<1>4. ASSUME NEW done \in SUBSET CurrentOps, DoBulkRequest(done)
      PROVE  Inv'
  <2>1. BuffersUnchanged /\ phase = "send" /\ next < Len(buffSlice)
        /\ applied' = applied \cup done
    BY <1>4 DEF DoBulkRequest, BuffersUnchanged
  <2>2. BufferInv' /\ \A i : Ops(i)' = Ops(i)
    BY <1>1, <2>1, BuffersUnchangedInv
  <2>3. /\ done \subseteq Ops(next + 1) /\ CurrentOps = Ops(next + 1)
        /\ next + 1 \in 1..Len(buffSlice)
        /\ applied' \subseteq 1..numPut
        /\ \A i \in 1..Len(buffSlice) : i > next + 1 => Ops(i) \cap applied' = {}
    BY <2>1, RequestTouchesOneBuffer
  <2>4. CASE extractErrorFromBulkBodyResponseBytes(CurrentOps \ done)
    <3>1. phase' = "error" /\ next' = next
      BY <1>4, <2>4 DEF DoBulkRequest
    <3>2. Progress'
      BY <1>1, <2>1, <2>2, <2>3, <3>1 DEF Progress, BuffersUnchanged
    <3>3. TypeOK' /\ Len(kinds)' = numPut'
      BY <1>1, <2>1, <2>2, <2>3, <3>1 DEF TypeOK, BufferInv, BuffersUnchanged
    <3> QED
      BY <2>2, <3>2, <3>3 DEF Inv
  <2>5. CASE ~extractErrorFromBulkBodyResponseBytes(CurrentOps \ done)
    <3>1. phase' = "send" /\ next' = next + 1
      BY <1>4, <2>1, <2>5 DEF DoBulkRequest
    <3>2. \A op \in Ops(next + 1) : kinds[op] \in ItemKinds => op \in applied'
      BY <2>1, <2>3, <2>5 DEF extractErrorFromBulkBodyResponseBytes
    <3>3. \A i \in 1..(next + 1) : \A op \in Ops(i) :
             kinds[op] \in ItemKinds => op \in applied'
      <4> SUFFICES ASSUME NEW i \in 1..(next + 1), NEW op \in Ops(i), kinds[op] \in ItemKinds
                   PROVE  op \in applied'
        OBVIOUS
      <4>1. CASE i = next + 1
        BY <4>1, <3>2
      <4>2. CASE i \in 1..next
        BY <4>2, <1>1, <2>1 DEF Progress
      <4> QED
        BY <4>1, <4>2, <1>1
    <3>4. \A i \in 1..Len(buffSlice) : i > next + 1 + 1 => i > next + 1
      BY <1>1
    <3>5. Progress'
      BY <1>1, <2>1, <2>2, <2>3, <3>1, <3>3, <3>4 DEF Progress, BuffersUnchanged
    <3>6. TypeOK' /\ Len(kinds)' = numPut'
      BY <1>1, <2>1, <2>2, <2>3, <3>1 DEF TypeOK, BufferInv, BuffersUnchanged
    <3> QED
      BY <2>2, <3>5, <3>6 DEF Inv
  <2> QED
    BY <2>4, <2>5
<1>5. ASSUME NEW done \in SUBSET CurrentOps, DoBulkRequestNoAnswer(done)
      PROVE  Inv'
  <2>1. BuffersUnchanged /\ phase = "send" /\ next < Len(buffSlice)
        /\ applied' = applied \cup done /\ phase' = "error" /\ next' = next
    BY <1>5 DEF DoBulkRequestNoAnswer, BuffersUnchanged
  <2>2. BufferInv' /\ \A i : Ops(i)' = Ops(i)
    BY <1>1, <2>1, BuffersUnchangedInv
  <2>3. /\ applied' \subseteq 1..numPut
        /\ \A i \in 1..Len(buffSlice) : i > next + 1 => Ops(i) \cap applied' = {}
    BY <2>1, RequestTouchesOneBuffer
  <2>4. Progress'
    BY <1>1, <2>1, <2>2, <2>3 DEF Progress, BuffersUnchanged
  <2>5. TypeOK' /\ Len(kinds)' = numPut'
    BY <1>1, <2>1, <2>2, <2>3 DEF TypeOK, BufferInv, BuffersUnchanged
  <2> QED
    BY <2>2, <2>4, <2>5 DEF Inv
<1>6. CASE AllSent
  <2>1. BuffersUnchanged /\ phase = "send" /\ phase' = "ok" /\ next = Len(buffSlice)
        /\ next' = next /\ applied' = applied
    BY <1>6 DEF AllSent, BuffersUnchanged
  <2>2. BufferInv' /\ \A i : Ops(i)' = Ops(i)
    BY <1>1, <2>1, BuffersUnchangedInv
  <2>3. Progress'
    BY <1>1, <2>1, <2>2 DEF Progress, BuffersUnchanged
  <2>4. TypeOK' /\ Len(kinds)' = numPut'
    BY <1>1, <2>1, <2>2 DEF TypeOK, BufferInv, BuffersUnchanged
  <2> QED
    BY <2>2, <2>3, <2>4 DEF Inv
<1>7. CASE UNCHANGED vars
  <2>1. BuffersUnchanged /\ phase' = phase /\ next' = next /\ applied' = applied
    BY <1>7 DEF vars, BuffersUnchanged
  <2>2. BufferInv' /\ \A i : Ops(i)' = Ops(i)
    BY <1>1, <2>1, BuffersUnchangedInv
  <2>3. Progress'
    BY <1>1, <2>1, <2>2 DEF Progress, BuffersUnchanged
  <2>4. TypeOK' /\ Len(kinds)' = numPut'
    BY <1>1, <2>1, <2>2 DEF TypeOK, BufferInv, BuffersUnchanged
  <2> QED
    BY <2>2, <2>3, <2>4 DEF Inv
<1> QED
  BY <1>2, <1>3, <1>4, <1>5, <1>6, <1>7 DEF Next

(* doBulkRequests reports success only when every index and update         *)
(* operation was executed, wherever the buffers were cut.                  *)
THEOREM SuccessMeansAppliedHolds == Spec => []SuccessMeansApplied
<1>1. Inv => SuccessMeansApplied
  <2> SUFFICES ASSUME Inv, phase = "ok", NEW op \in 1..numPut, kinds[op] \in ItemKinds
               PROVE  op \in applied
    BY DEF SuccessMeansApplied
  <2>1. PICK i \in 1..Len(buffSlice) : op \in Ops(i)
    BY DEF Inv, BufferInv, BuffersPartition
  <2> QED
    BY <2>1 DEF Inv, Progress
<1> QED
  BY <1>1, InitInv, NextInv, PTL DEF Spec

(* What was executed when a request failed is a prefix of the requests.    *)
THEOREM PartialWriteIsPrefixHolds == Spec => []PartialWriteIsPrefix
<1>1. Inv => PartialWriteIsPrefix
  <2> SUFFICES ASSUME Inv, NEW i \in 1..Len(buffSlice), NEW j \in 1..Len(buffSlice),
                      i < j, NEW done \in applied, done \in Ops(j),
                      NEW op \in Ops(i), kinds[op] \in ItemKinds
               PROVE  op \in applied
    BY DEF PartialWriteIsPrefix, Ops
  <2>1. next \in Nat /\ Len(buffSlice) \in Nat
    BY DEF Inv, TypeOK, BufferTypeOK
  <2>2. ~(j > next + 1)
    BY DEF Inv, Progress
  <2>3. i \in 1..next
    BY <2>1, <2>2
  <2> QED
    BY <2>3 DEF Inv, Progress
<1> QED
  BY <1>1, InitInv, NextInv, PTL DEF Spec

(* The state of the buffers and of the handler has its type.               *)
THEOREM TypeCorrect == Spec => []TypeOK
<1>1. Inv => TypeOK
  BY DEF Inv
<1> QED
  BY <1>1, InitInv, NextInv, PTL DEF Spec

(* The buffers hold every operation once, in the order of the PutData      *)
(* calls (data/buffer.go).                                                 *)
THEOREM OperationsInOrderHolds == Spec => []OperationsInOrder
<1>1. Inv => OperationsInOrder
  BY DEF Inv, BufferInv
<1> QED
  BY <1>1, InitInv, NextInv, PTL DEF Spec

(* No bulk request that could be split exceeds the threshold by more than  *)
(* the newline that aNewElementIsNeeded does not count.                    *)
THEOREM BulkSizeBoundedHolds == Spec => []BulkSizeBounded
<1>1. Inv => BulkSizeBounded
  BY DEF Inv, BufferInv
<1> QED
  BY <1>1, InitInv, NextInv, PTL DEF Spec
=============================================================================
