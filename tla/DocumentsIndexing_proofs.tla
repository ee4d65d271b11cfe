---------------------- MODULE DocumentsIndexing_proofs ----------------------
(***************************************************************************)
(* The tokens that come from the main chain: CrossChainTokens holds of     *)
(* every behaviour of DocumentsIndexing, for any shards, messages,         *)
(* documents and number of failures.                                       *)
(*                                                                         *)
(* The invariant follows the document of one token through the buffers of  *)
(* all handlers: an operation that replaces it either creates the NFT on   *)
(* this chain, which the property excepts, or copies the document of the   *)
(* main chain, and then there was none at the beginning.  For this, every  *)
(* operation that SaveTransactions puts into the buffer has to be known:   *)
(* the operators that compute them are recursive functions and folds over  *)
(* the blocks of a message, and what is needed of them is proved by        *)
(* induction, as the absence of a least counterexample.                    *)
(***************************************************************************)
EXTENDS DocumentsIndexing, FiniteSetTheorems, TLAPS
-----------------------------------------------------------------------------
(***************************************************************************)
(* Sequences, finite sets and induction.                                   *)
(***************************************************************************)
(* A set of numbers that is not empty has a least element.                 *)
LEMMA LeastNumber ==
  ASSUME NEW T, T \subseteq Nat, T # {}
  PROVE  \E x \in T : \A y \in T : x <= y
<1> DEFINE R == OpToRel(<, Nat)
<1>1. IsWellFoundedOn(R, Nat)
  BY NatLessThanWellFounded, Zenon
<1>2. \E x \in T : \A y \in T : <<y, x>> \notin R
  <2> HIDE DEF R
  <2> QED BY <1>1, WFMin
<1>3. \A y, x \in T : <<y, x>> \notin R => x <= y
  BY DEF OpToRel
<1> QED BY <1>2, <1>3

(* A function on 1..n is a sequence.                                       *)
LEMMA FcnIsSeq ==
  ASSUME NEW q, NEW n \in Nat, q = [i \in 1..n |-> q[i]]
  PROVE  IsSeq(q) /\ Len(q) = n /\ DOMAIN q = 1..n
<1>1. DOMAIN q = 1..n
  OBVIOUS
<1>2. \A i \in 1..n : q[i] \in Range(q)
  BY <1>1 DEF Range
<1>3. q \in [1..n -> Range(q)]
  BY <1>1, <1>2
<1> QED
  BY <1>1, <1>3 DEF IsSeq

(* A sequence is a function on 1..n.                                       *)
LEMMA SeqIsFcn ==
  ASSUME NEW q, IsSeq(q)
  PROVE  Len(q) \in Nat /\ DOMAIN q = 1..Len(q) /\ q = [i \in 1..Len(q) |-> q[i]]
BY DEF IsSeq

(* What is known of a concatenation.                                       *)
LEMMA ConcatSeq ==
  ASSUME NEW a, NEW b, IsSeq(a), IsSeq(b)
  PROVE  /\ IsSeq(a \o b)
         /\ Len(a \o b) = Len(a) + Len(b)
         /\ \A i \in 1..Len(a) : (a \o b)[i] = a[i]
         /\ \A i \in 1..Len(b) : (a \o b)[Len(a) + i] = b[i]
         /\ \A i \in DOMAIN (a \o b) : \/ i \in 1..Len(a)
                                      \/ i - Len(a) \in 1..Len(b)
<1> DEFINE S == Range(a) \cup Range(b)
<1>1. a \in Seq(S) /\ b \in Seq(S)
  BY DEF IsSeq
<1>2. a \o b \in Seq(S) /\ Len(a \o b) = Len(a) + Len(b)
  <2> HIDE DEF S
  <2> QED BY <1>1
<1>3. DOMAIN (a \o b) = 1..(Len(a) + Len(b)) /\ a \o b = [i \in 1..(Len(a) + Len(b)) |-> (a \o b)[i]]
  <2> DEFINE c == a \o b
  <2>1. c \in Seq(S) /\ Len(c) = Len(a) + Len(b)
    BY <1>2
  <2> HIDE DEF S, c
  <2>2. DOMAIN c = 1..(Len(a) + Len(b)) /\ c = [i \in 1..(Len(a) + Len(b)) |-> c[i]]
    BY <2>1
  <2> QED BY <2>2 DEF c
<1>4. IsSeq(a \o b)
  <2>1. Len(a) + Len(b) \in Nat
    BY SeqIsFcn
  <2> QED BY <1>3, <2>1, FcnIsSeq
<1>5. /\ \A i \in 1..Len(a) : (a \o b)[i] = a[i]
      /\ \A i \in 1..Len(b) : (a \o b)[Len(a) + i] = b[i]
  <2> HIDE DEF S
  <2> QED BY <1>1
<1>6. Len(a) \in Nat /\ Len(b) \in Nat
  BY SeqIsFcn
<1> HIDE DEF S
<1> QED BY <1>2, <1>3, <1>4, <1>5, <1>6

(* SetToSeq enumerates a finite set.                                       *)
LEMMA SetToSeqIsFcn ==
  ASSUME NEW S, IsFiniteSet(S)
  PROVE  /\ Cardinality(S) \in Nat
         /\ \A i \in 1..Cardinality(S) : SetToSeq(S)[i] \in S
         /\ \A x \in S : \E i \in 1..Cardinality(S) : SetToSeq(S)[i] = x
<1> DEFINE n == Cardinality(S)
           f == SetToSeq(S)
<1>1. n \in Nat /\ ExistsBijection(1..n, S)
  BY FS_CardinalityType
<1>2. \E g \in [1..n -> S] : IsInjective(g)
  BY <1>1 DEF ExistsBijection, Bijection, Injection, IsInjective
<1>3. f \in [1..n -> S] /\ IsInjective(f)
  BY <1>2 DEF SetToSeq
<1> HIDE DEF f
<1>4. f \in Bijection(1..n, Range(f))
  BY <1>3 DEF Bijection, Injection, Surjection, IsInjective, Range
<1>5. IsFiniteSet(1..n) /\ Cardinality(1..n) = n
  BY <1>1, FS_Interval
<1>6. Range(f) \subseteq S
  BY <1>3 DEF Range
<1>7. Cardinality(Range(f)) = n
  <2>1. ExistsBijection(1..n, Range(f))
    BY <1>4 DEF ExistsBijection
  <2> QED BY <2>1, <1>5, FS_Bijection
<1>8. Range(f) = S
  BY <1>6, <1>7, FS_Subset
<1>9. \A x \in S : \E i \in 1..n : f[i] = x
  BY <1>3, <1>8 DEF Range
<1> QED BY <1>1, <1>3, <1>9 DEF f

(* Induction up to a number, on a set: its least counterexample would have *)
(* a predecessor.                                                          *)
LEMMA UpTo ==
  ASSUME NEW T, NEW m \in Nat, 0 \in T, \A n \in 1..m : n - 1 \in T => n \in T
  PROVE  \A n \in 0..m : n \in T
<1> DEFINE C == {n \in 0..m : n \notin T}
<1>1. SUFFICES ASSUME C # {} PROVE FALSE
  OBVIOUS
<1>2. C \subseteq Nat
  OBVIOUS
<1>3. PICK x \in C : \A y \in C : x <= y
  <2> HIDE DEF C
  <2> QED BY <1>1, <1>2, LeastNumber
<1>4. x \in 1..m /\ x - 1 \in 0..m
  BY <1>3
<1>5. x - 1 \in T
  BY <1>3, <1>4
<1> QED
  BY <1>3, <1>4, <1>5
-----------------------------------------------------------------------------
(***************************************************************************)
(* Operators that are defined by recursion.                                *)
(***************************************************************************)
(* BulkResult is defined by recursion on the number of operations.  This   *)
(* is what its recursive function satisfies.                               *)
LEMMA BulkSteps ==
  ASSUME NEW ds, NEW ops, IsSeq(ops)
  PROVE  \E a : /\ a[0] = ds
                /\ \A n \in 1..Len(ops) : a[n] = Execute(a[n - 1], ops[n])
                /\ BulkResult(ds, ops) = a[Len(ops)]
<1> DEFINE F(g, m) == [n \in 0..m |-> IF n = 0 THEN ds ELSE Execute(g[n - 1], ops[n])]
           T == {m \in 0..Len(ops) : \E g : g = F(g, m)}
           r == CHOOSE g : g = F(g, Len(ops))
<1>1. Len(ops) \in Nat
  BY SeqIsFcn
<1>2. 0 \in T
  <2> DEFINE g == [n \in 0..0 |-> ds]
  <2>1. g = F(g, 0)
    OBVIOUS
  <2> HIDE DEF g
  <2> QED
    BY <1>1, <2>1
<1>3. ASSUME NEW m \in 1..Len(ops), m - 1 \in T PROVE m \in T
  <2>1. PICK h : h = F(h, m - 1)
    BY <1>3
  <2> DEFINE g == [n \in 0..m |-> IF n = m THEN Execute(h[m - 1], ops[m]) ELSE h[n]]
  <2>2. \A n \in 0..m : F(g, m)[n] = g[n]
    <3> TAKE n \in 0..m
    <3>1. CASE n = m
      BY <1>1, <3>1
    <3>2. CASE n # m
      <4>1. n \in 0..(m - 1) /\ h[n] = IF n = 0 THEN ds ELSE Execute(h[n - 1], ops[n])
        BY <1>1, <2>1, <3>2
      <4>2. n # 0 => n - 1 \in 0..m /\ n - 1 # m /\ g[n - 1] = h[n - 1]
        BY <4>1
      <4> QED
        BY <3>2, <4>1, <4>2
    <3> QED
      BY <3>1, <3>2
  <2>3. g = F(g, m)
    <3> HIDE DEF g
    <3> QED BY <2>2 DEF g
  <2>4. m \in 0..Len(ops)
    BY <1>1
  <2> HIDE DEF g, F
  <2> QED
    BY <2>3, <2>4
<1>4. \E g : g = F(g, Len(ops))
  <2> HIDE DEF T
  <2>1. \A n \in 0..Len(ops) : n \in T
    BY <1>1, <1>2, <1>3, UpTo
  <2>2. Len(ops) \in T
    BY <1>1, <2>1
  <2> QED BY <2>2 DEF T
<1>5. BulkResult(ds, ops) = r[Len(ops)]
  BY DEF BulkResult
<1>6. r = F(r, Len(ops))
  <2> HIDE DEF F
  <2> QED BY <1>4
<1> HIDE DEF r
<1>7. r[0] = ds /\ \A n \in 1..Len(ops) : r[n] = Execute(r[n - 1], ops[n])
  <2>1. \A n \in 0..Len(ops) : r[n] = IF n = 0 THEN ds ELSE Execute(r[n - 1], ops[n])
    BY <1>6
  <2>2. 0 \in 0..Len(ops) /\ \A n \in 1..Len(ops) : n \in 0..Len(ops) /\ n # 0
    BY <1>1
  <2> QED
    BY <2>1, <2>2
<1> QED
  BY <1>5, <1>7

\* A name for the concatenation, to keep it closed in the next proof.
Join(a, b) == a \o b

(* The same for FlattenSeq.                                                *)
LEMMA FlattenSteps ==
  ASSUME NEW seqs, IsSeq(seqs), Len(seqs) # 0
  PROVE  \E a : /\ a[1] = seqs[1]
                /\ \A n \in 2..Len(seqs) : a[n] = a[n - 1] \o seqs[n]
                /\ FlattenSeq(seqs) = a[Len(seqs)]
<1> DEFINE F(g, m) == [n \in 1..m |-> IF n = 1 THEN seqs[n] ELSE Join(g[n - 1], seqs[n])]
           T == {m \in 0..Len(seqs) : \E g : g = F(g, m)}
           r == CHOOSE g : g = F(g, Len(seqs))
<1>1. Len(seqs) \in Nat
  BY SeqIsFcn
<1>2. 0 \in T
  <2> DEFINE g == [n \in 1..0 |-> seqs]
  <2>1. g = F(g, 0)
    OBVIOUS
  <2> HIDE DEF g, F
  <2> QED
    BY <1>1, <2>1
<1>3. ASSUME NEW m \in 1..Len(seqs), m - 1 \in T PROVE m \in T
  <2>1. PICK h : h = F(h, m - 1)
    BY <1>3
  <2> DEFINE g == [n \in 1..m |->
                     IF n = m THEN (IF m = 1 THEN seqs[m] ELSE Join(h[m - 1], seqs[m])) ELSE h[n]]
  <2>2. \A n \in 1..m : F(g, m)[n] = g[n]
    <3> TAKE n \in 1..m
    <3>1. CASE n = m
      <4>1. n # 1 => n - 1 \in 1..m /\ n - 1 # m /\ g[n - 1] = h[n - 1]
        BY <1>1, <3>1
      <4> QED
        BY <3>1, <4>1
    <3>2. CASE n # m
      <4>1. n \in 1..(m - 1) /\ h[n] = IF n = 1 THEN seqs[n] ELSE Join(h[n - 1], seqs[n])
        BY <1>1, <2>1, <3>2
      <4>2. n # 1 => n - 1 \in 1..m /\ n - 1 # m /\ g[n - 1] = h[n - 1]
        BY <4>1
      <4> QED
        BY <3>2, <4>1, <4>2
    <3> QED
      BY <3>1, <3>2
  <2>3. g = F(g, m)
    <3> HIDE DEF g
    <3> QED BY <2>2 DEF g
  <2>4. m \in 0..Len(seqs)
    BY <1>1
  <2> HIDE DEF g, F
  <2> QED
    BY <2>3, <2>4
<1>4. \E g : g = F(g, Len(seqs))
  <2> HIDE DEF T
  <2>1. \A n \in 0..Len(seqs) : n \in T
    BY <1>1, <1>2, <1>3, UpTo
  <2>2. Len(seqs) \in T
    BY <1>1, <2>1
  <2> QED BY <2>2 DEF T
<1>5. FlattenSeq(seqs) = r[Len(seqs)]
  BY DEF FlattenSeq, Join
<1>6. r = F(r, Len(seqs))
  <2> HIDE DEF F
  <2> QED BY <1>4
<1> HIDE DEF r
<1>7. r[1] = seqs[1] /\ \A n \in 2..Len(seqs) : r[n] = Join(r[n - 1], seqs[n])
  <2>1. \A n \in 1..Len(seqs) : r[n] = IF n = 1 THEN seqs[n] ELSE Join(r[n - 1], seqs[n])
    BY <1>6
  <2>2. 1 \in 1..Len(seqs) /\ \A n \in 2..Len(seqs) : n \in 1..Len(seqs) /\ n # 1
    BY <1>1
  <2> QED
    BY <2>1, <2>2
<1> QED
  BY <1>5, <1>7 DEF Join

\* Operations that do not search, and replace documents of tokens in X only.
Harmless(q, X) ==
  /\ IsSeq(q)
  /\ \A i \in DOMAIN q :
       /\ q[i].script # "search"
       /\ (q[i].script = "index" /\ q[i].key.index = "tokens") => q[i].key \in X

(* An element of a concatenation is one of the first or of the second.     *)
LEMMA ConcatElements ==
  ASSUME NEW a, NEW b, IsSeq(a), IsSeq(b)
  PROVE  \A i \in DOMAIN (a \o b) : \/ i \in DOMAIN a /\ (a \o b)[i] = a[i]
                                  \/ \E j \in DOMAIN b : (a \o b)[i] = b[j]
<1> TAKE i \in DOMAIN (a \o b)
<1>1. DOMAIN a = 1..Len(a) /\ DOMAIN b = 1..Len(b) /\ Len(a) \in Nat /\ Len(b) \in Nat
  BY SeqIsFcn
<1>2. i \in Nat /\ (i \in 1..Len(a) \/ i - Len(a) \in 1..Len(b))
  BY SeqIsFcn, ConcatSeq
<1>3. CASE i \in 1..Len(a)
  BY <1>1, <1>3, ConcatSeq
<1>4. CASE i - Len(a) \in 1..Len(b)
  <2>1. Len(a) + (i - Len(a)) = i
    BY <1>1, <1>2
  <2>2. (a \o b)[Len(a) + (i - Len(a))] = b[i - Len(a)]
    BY <1>4, ConcatSeq
  <2> QED
    BY <1>1, <1>4, <2>1, <2>2
<1> QED
  BY <1>2, <1>3, <1>4

(* Harmless is closed under concatenation.                                 *)
LEMMA ConcatHarmless ==
  ASSUME NEW X, NEW a, NEW b, Harmless(a, X), Harmless(b, X)
  PROVE  Harmless(a \o b, X)
<1>1. IsSeq(a \o b)
  BY ConcatSeq DEF Harmless
<1>2. \A i \in DOMAIN (a \o b) : \/ i \in DOMAIN a /\ (a \o b)[i] = a[i]
                                 \/ \E j \in DOMAIN b : (a \o b)[i] = b[j]
  BY ConcatElements DEF Harmless
<1> QED
  BY <1>1, <1>2 DEF Harmless

(* ... and under FlattenSeq, by induction on the number of sequences.      *)
LEMMA FlattenHarmless ==
  ASSUME NEW X, NEW seqs, IsSeq(seqs), \A i \in DOMAIN seqs : Harmless(seqs[i], X)
  PROVE  Harmless(FlattenSeq(seqs), X)
<1>1. Len(seqs) \in Nat /\ DOMAIN seqs = 1..Len(seqs)
  BY SeqIsFcn
<1>2. CASE Len(seqs) = 0
  BY <1>1, <1>2 DEF FlattenSeq, Harmless
<1>3. CASE Len(seqs) # 0
  <2>1. PICK a : /\ a[1] = seqs[1]
                 /\ \A n \in 2..Len(seqs) : a[n] = a[n - 1] \o seqs[n]
                 /\ FlattenSeq(seqs) = a[Len(seqs)]
    BY <1>3, FlattenSteps
  <2> DEFINE T == {n \in 0..Len(seqs) : n # 0 => Harmless(a[n], X)}
  <2>2. 0 \in T
    BY <1>1
  <2>3. ASSUME NEW n \in 1..Len(seqs), n - 1 \in T PROVE n \in T
    <3>1. CASE n = 1
      BY <1>1, <2>1, <3>1
    <3>2. CASE n # 1
      <4>1. n \in 2..Len(seqs) /\ n - 1 # 0
        BY <1>1, <3>2
      <4>2. Harmless(a[n - 1], X) /\ Harmless(seqs[n], X)
        BY <1>1, <2>3, <4>1
      <4>3. Harmless(a[n - 1] \o seqs[n], X)
        BY <4>2, ConcatHarmless
      <4>4. a[n] = a[n - 1] \o seqs[n]
        BY <2>1, <4>1
      <4>5. Harmless(a[n], X)
        BY <4>3, <4>4, Zenon
      <4> QED
        BY <4>5
    <3> QED
      BY <3>1, <3>2
  <2>4. \A n \in 0..Len(seqs) : n \in T
    <3> HIDE DEF T
    <3> QED BY <1>1, <2>2, <2>3, UpTo
  <2> QED
    BY <1>1, <1>3, <2>1, <2>4
<1> QED
  BY <1>2, <1>3

(* Append gives a sequence.                                                *)
LEMMA AppendSeq ==
  ASSUME NEW q, IsSeq(q), NEW x
  PROVE  IsSeq(Append(q, x))
<1> DEFINE S == Range(q) \cup {x}
           c == Append(q, x)
<1>1. q \in Seq(S) /\ x \in S
  BY DEF IsSeq
<1>2. c \in Seq(S) /\ Len(c) \in Nat
  <2> HIDE DEF S
  <2> QED BY <1>1
<1> HIDE DEF S, c
<1>3. c = [i \in 1..Len(c) |-> c[i]]
  BY <1>2
<1>4. IsSeq(c)
  BY <1>2, <1>3, FcnIsSeq
<1> QED BY <1>4 DEF c

(* One more entry leaves a map finite.                                     *)
LEMMA WithFinite ==
  ASSUME NEW m, NEW k, NEW v, IsFiniteSet(DOMAIN m)
  PROVE  IsFiniteSet(DOMAIN With(m, k, v))
<1>1. DOMAIN With(m, k, v) = DOMAIN m \cup {k}
  BY DEF With
<1>2. IsFiniteSet(DOMAIN m \cup {k})
  BY FS_AddElement
<1> QED BY <1>1, <1>2
-----------------------------------------------------------------------------
(***************************************************************************)
(* ExtractDataFromLogs.                                                    *)
(***************************************************************************)
\* The data that is extracted from logs: finite maps and sequences.
DataOK(d) ==
  /\ d = [timestamp |-> d.timestamp, shard |-> d.shard,
          scDeploys |-> d.scDeploys, changeOwnerOperations |-> d.changeOwnerOperations,
          delegators |-> d.delegators, tokens |-> d.tokens, tokensSupply |-> d.tokensSupply,
          tokensInfo |-> d.tokensInfo, nftsDataUpdates |-> d.nftsDataUpdates,
          rolesData |-> d.rolesData, tokenProperties |-> d.tokenProperties]
  /\ IsFiniteSet(DOMAIN d.scDeploys)
  /\ IsFiniteSet(DOMAIN d.changeOwnerOperations)
  /\ IsFiniteSet(DOMAIN d.delegators)
  /\ IsFiniteSet(DOMAIN d.tokens)
  /\ IsFiniteSet(DOMAIN d.tokensSupply)
  /\ IsSeq(d.tokensInfo) /\ IsSeq(d.nftsDataUpdates) /\ IsSeq(d.tokenProperties)
  /\ IsFiniteSet(DOMAIN d.rolesData)
  /\ \A role \in DOMAIN d.rolesData : IsSeq(d.rolesData[role])

(* A finite map may take the place of a field,                             *)
LEMMA DataExcept ==
  ASSUME NEW d, DataOK(d), NEW m, IsFiniteSet(DOMAIN m)
  PROVE  /\ DataOK([d EXCEPT !.scDeploys = m])
         /\ DataOK([d EXCEPT !.changeOwnerOperations = m])
         /\ DataOK([d EXCEPT !.delegators = m])
         /\ DataOK([d EXCEPT !.tokens = m])
         /\ DataOK([d EXCEPT !.tokensSupply = m])
         /\ (\A role \in DOMAIN m : IsSeq(m[role])) => DataOK([d EXCEPT !.rolesData = m])
<1>1. DataOK([d EXCEPT !.scDeploys = m])
  BY DEF DataOK
<1>2. DataOK([d EXCEPT !.changeOwnerOperations = m])
  BY DEF DataOK
<1>3. DataOK([d EXCEPT !.delegators = m])
  BY DEF DataOK
<1>4. DataOK([d EXCEPT !.tokens = m])
  BY DEF DataOK
<1>5. DataOK([d EXCEPT !.tokensSupply = m])
  BY DEF DataOK
<1>6. (\A role \in DOMAIN m : IsSeq(m[role])) => DataOK([d EXCEPT !.rolesData = m])
  BY DEF DataOK
<1> QED BY <1>1, <1>2, <1>3, <1>4, <1>5, <1>6

(* ... and a sequence of another one.                                      *)
LEMMA DataAppend ==
  ASSUME NEW d, DataOK(d), NEW q, IsSeq(q)
  PROVE  /\ DataOK([d EXCEPT !.tokensInfo = q])
         /\ DataOK([d EXCEPT !.nftsDataUpdates = q])
         /\ DataOK([d EXCEPT !.tokenProperties = q])
<1>1. DataOK([d EXCEPT !.tokensInfo = q])
  BY DEF DataOK
<1>2. DataOK([d EXCEPT !.nftsDataUpdates = q])
  BY DEF DataOK
<1>3. DataOK([d EXCEPT !.tokenProperties = q])
  BY DEF DataOK
<1> QED BY <1>1, <1>2, <1>3

(* What the recursive function of ChangeRoles satisfies.                   *)
LEMMA RoleSteps ==
  ASSUME NEW d, NEW e, IsSeq(e.roles)
  PROVE  \E a : /\ a[0] = d
                /\ \A n \in 1..Len(e.roles) : a[n] = ChangeRole(a[n - 1], e, e.roles[n])
                /\ ChangeRoles(d, e) = a[Len(e.roles)]
<1> DEFINE F(g, m) == [n \in 0..m |-> IF n = 0 THEN d ELSE ChangeRole(g[n - 1], e, e.roles[n])]
           T == {m \in 0..Len(e.roles) : \E g : g = F(g, m)}
           r == CHOOSE g : g = F(g, Len(e.roles))
<1>1. Len(e.roles) \in Nat
  BY SeqIsFcn
<1>2. 0 \in T
  <2> DEFINE g == [n \in 0..0 |-> d]
  <2>1. g = F(g, 0)
    OBVIOUS
  <2> HIDE DEF g
  <2> QED
    BY <1>1, <2>1
<1>3. ASSUME NEW m \in 1..Len(e.roles), m - 1 \in T PROVE m \in T
  <2>1. PICK h : h = F(h, m - 1)
    BY <1>3
  <2> DEFINE g == [n \in 0..m |-> IF n = m THEN ChangeRole(h[m - 1], e, e.roles[m]) ELSE h[n]]
  <2>2. \A n \in 0..m : F(g, m)[n] = g[n]
    <3> TAKE n \in 0..m
    <3>1. CASE n = m
      BY <1>1, <3>1
    <3>2. CASE n # m
      <4>1. n \in 0..(m - 1) /\ h[n] = IF n = 0 THEN d ELSE ChangeRole(h[n - 1], e, e.roles[n])
        BY <1>1, <2>1, <3>2
      <4>2. n # 0 => n - 1 \in 0..m /\ n - 1 # m /\ g[n - 1] = h[n - 1]
        BY <4>1
      <4> QED
        BY <3>2, <4>1, <4>2
    <3> QED
      BY <3>1, <3>2
  <2>3. g = F(g, m)
    <3> HIDE DEF g
    <3> QED BY <2>2 DEF g
  <2>4. m \in 0..Len(e.roles)
    BY <1>1
  <2> HIDE DEF g, F
  <2> QED
    BY <2>3, <2>4
<1>4. \E g : g = F(g, Len(e.roles))
  <2> HIDE DEF T
  <2>1. \A n \in 0..Len(e.roles) : n \in T
    BY <1>1, <1>2, <1>3, UpTo
  <2>2. Len(e.roles) \in T
    BY <1>1, <2>1
  <2> QED BY <2>2 DEF T
<1>5. ChangeRoles(d, e) = r[Len(e.roles)]
  BY DEF ChangeRoles
<1>6. r = F(r, Len(e.roles))
  <2> HIDE DEF F
  <2> QED BY <1>4
<1> HIDE DEF r
<1>7. r[0] = d /\ \A n \in 1..Len(e.roles) : r[n] = ChangeRole(r[n - 1], e, e.roles[n])
  <2>1. \A n \in 0..Len(e.roles) : r[n] = IF n = 0 THEN d ELSE ChangeRole(r[n - 1], e, e.roles[n])
    BY <1>6
  <2>2. 0 \in 0..Len(e.roles) /\ \A n \in 1..Len(e.roles) : n \in 0..Len(e.roles) /\ n # 0
    BY <1>1
  <2> QED
    BY <2>1, <2>2
<1> QED
  BY <1>5, <1>7

(* What the recursive function of ExtractDataFromLogs satisfies.           *)
LEMMA LogsSteps ==
  ASSUME NEW b, NEW shard, IsSeq(b.events)
  PROVE  \E a : /\ a[0] = newLogsData(b.timestamp, shard)
                /\ \A n \in 1..Len(b.events) :
                     a[n] = processEvent(a[n - 1], b.events[n].hash, b.events[n].event)
                /\ ExtractDataFromLogs(b, shard) = a[Len(b.events)]
<1> DEFINE F(g, m) == [n \in 0..m |->
                         IF n = 0 THEN newLogsData(b.timestamp, shard)
                         ELSE processEvent(g[n - 1], b.events[n].hash, b.events[n].event)]
           T == {m \in 0..Len(b.events) : \E g : g = F(g, m)}
           r == CHOOSE g : g = F(g, Len(b.events))
<1>1. Len(b.events) \in Nat
  BY SeqIsFcn
<1>2. 0 \in T
  <2> DEFINE g == [n \in 0..0 |-> newLogsData(b.timestamp, shard)]
  <2>1. g = F(g, 0)
    OBVIOUS
  <2> HIDE DEF g
  <2> QED
    BY <1>1, <2>1
<1>3. ASSUME NEW m \in 1..Len(b.events), m - 1 \in T PROVE m \in T
  <2>1. PICK h : h = F(h, m - 1)
    BY <1>3
  <2> DEFINE g == [n \in 0..m |->
                     IF n = m THEN processEvent(h[m - 1], b.events[m].hash, b.events[m].event)
                     ELSE h[n]]
  <2>2. \A n \in 0..m : F(g, m)[n] = g[n]
    <3> TAKE n \in 0..m
    <3>1. CASE n = m
      BY <1>1, <3>1
    <3>2. CASE n # m
      <4>1. /\ n \in 0..(m - 1)
            /\ h[n] = IF n = 0 THEN newLogsData(b.timestamp, shard)
                      ELSE processEvent(h[n - 1], b.events[n].hash, b.events[n].event)
        BY <1>1, <2>1, <3>2
      <4>2. n # 0 => n - 1 \in 0..m /\ n - 1 # m /\ g[n - 1] = h[n - 1]
        BY <4>1
      <4> QED
        BY <3>2, <4>1, <4>2
    <3> QED
      BY <3>1, <3>2
  <2>3. g = F(g, m)
    <3> HIDE DEF g
    <3> QED BY <2>2 DEF g
  <2>4. m \in 0..Len(b.events)
    BY <1>1
  <2> HIDE DEF g, F
  <2> QED
    BY <2>3, <2>4
<1>4. \E g : g = F(g, Len(b.events))
  <2> HIDE DEF T
  <2>1. \A n \in 0..Len(b.events) : n \in T
    BY <1>1, <1>2, <1>3, UpTo
  <2>2. Len(b.events) \in T
    BY <1>1, <2>1
  <2> QED BY <2>2 DEF T
<1>5. ExtractDataFromLogs(b, shard) = r[Len(b.events)]
  BY DEF ExtractDataFromLogs
<1>6. r = F(r, Len(b.events))
  <2> HIDE DEF F
  <2> QED BY <1>4
<1> HIDE DEF r
<1>7. /\ r[0] = newLogsData(b.timestamp, shard)
      /\ \A n \in 1..Len(b.events) :
           r[n] = processEvent(r[n - 1], b.events[n].hash, b.events[n].event)
  <2>1. \A n \in 0..Len(b.events) :
          r[n] = IF n = 0 THEN newLogsData(b.timestamp, shard)
                 ELSE processEvent(r[n - 1], b.events[n].hash, b.events[n].event)
    BY <1>6
  <2>2. 0 \in 0..Len(b.events) /\ \A n \in 1..Len(b.events) : n \in 0..Len(b.events) /\ n # 0
    BY <1>1
  <2> QED
    BY <2>1, <2>2
<1> QED
  BY <1>5, <1>7

(* One more change of a role leaves the data finite,                       *)
LEMMA AddRoleOK ==
  ASSUME NEW d, DataOK(d), NEW token, NEW address, NEW role, NEW set
  PROVE  DataOK(AddRole(d, token, address, role, set))
<1> DEFINE of == IF role \in DOMAIN d.rolesData THEN d.rolesData[role] ELSE <<>>
           q == Append(of, [token |-> token, address |-> address, set |-> set])
           m == With(d.rolesData, role, q)
<1>1. IsSeq(<<>>)
  BY DEF IsSeq
<1>2. IsSeq(of)
  BY <1>1 DEF DataOK
<1>3. IsSeq(q)
  <2> HIDE DEF of
  <2> QED BY <1>2, AppendSeq
<1>4. IsFiniteSet(DOMAIN d.rolesData) /\ \A x \in DOMAIN d.rolesData : IsSeq(d.rolesData[x])
  BY DEF DataOK
<1>5. IsFiniteSet(DOMAIN m) /\ \A x \in DOMAIN m : IsSeq(m[x])
  <2> HIDE DEF q
  <2>1. IsFiniteSet(DOMAIN m)
    BY <1>4, WithFinite
  <2>2. \A x \in DOMAIN m : IsSeq(m[x])
    BY <1>3, <1>4 DEF With
  <2> QED BY <2>1, <2>2
<1>6. DataOK([d EXCEPT !.rolesData = m])
  <2> HIDE DEF m
  <2> QED BY <1>5, DataExcept
<1>7. AddRole(d, token, address, role, set) = [d EXCEPT !.rolesData = m]
  BY DEF AddRole, DataOK
<1> QED BY <1>6, <1>7, Zenon

(* ... so do the changes of all roles of an event, by induction,           *)
LEMMA ChangeRolesOK ==
  ASSUME NEW d, DataOK(d), NEW e, IsSeq(e.roles)
  PROVE  DataOK(ChangeRoles(d, e))
<1> DEFINE N == Len(e.roles)
<1>1. PICK a : /\ a[0] = d
               /\ \A n \in 1..N : a[n] = ChangeRole(a[n - 1], e, e.roles[n])
               /\ ChangeRoles(d, e) = a[N]
  BY RoleSteps
<1>2. N \in Nat
  BY SeqIsFcn
<1> DEFINE T == {n \in 0..N : DataOK(a[n])}
<1> HIDE DEF N
<1>3. 0 \in T
  BY <1>1, <1>2
<1>4. ASSUME NEW n \in 1..N, n - 1 \in T PROVE n \in T
  <2>1. DataOK(a[n - 1])
    BY <1>4
  <2>2. DataOK(ChangeRole(a[n - 1], e, e.roles[n]))
    BY <2>1, AddRoleOK DEF ChangeRole
  <2>3. DataOK(a[n])
    BY <1>1, <2>2, Zenon
  <2> QED BY <2>3, <1>2
<1>5. \A n \in 0..N : n \in T
  <2> HIDE DEF T
  <2> QED BY <1>2, <1>3, <1>4, UpTo
<1> QED
  BY <1>1, <1>2, <1>5

(* ... every processor of events,                                          *)
LEMMA EventOK ==
  ASSUME NEW d, DataOK(d), NEW hash, NEW e, RolesOK(e)
  PROVE  DataOK(processEvent(d, hash, e))
<1>0. /\ IsFiniteSet(DOMAIN d.scDeploys) /\ IsFiniteSet(DOMAIN d.changeOwnerOperations)
      /\ IsFiniteSet(DOMAIN d.delegators) /\ IsFiniteSet(DOMAIN d.tokens)
      /\ IsFiniteSet(DOMAIN d.tokensSupply)
      /\ IsSeq(d.tokensInfo) /\ IsSeq(d.nftsDataUpdates) /\ IsSeq(d.tokenProperties)
  BY DEF DataOK
<1>d. d = [d EXCEPT !.timestamp = d.timestamp]
  BY DEF DataOK
<1>1. DataOK(scDeploysProcessor(d, hash, e))
  <2> DEFINE v == [owner |-> e.owner, hash |-> hash]
  <2>1. /\ DataOK([d EXCEPT !.changeOwnerOperations = With(d.changeOwnerOperations, e.address, v)])
        /\ DataOK([d EXCEPT !.scDeploys = With(d.scDeploys, e.contract, v)])
    <3> HIDE DEF v
    <3> QED BY <1>0, WithFinite, DataExcept
  <2> QED BY <2>1, Zenon DEF scDeploysProcessor
<1>2. DataOK(nftsPropertiesProc(d, e))
  <2>1. \A x : DataOK([d EXCEPT !.nftsDataUpdates = Append(d.nftsDataUpdates, x)])
    BY <1>0, AppendSeq, DataAppend
  <2> QED BY <2>1, Zenon DEF nftsPropertiesProc
<1>3. ASSUME e.identifier \in RoleIdentifiers PROVE DataOK(esdtPropertiesProc(d, e))
  <2>1. \A x : DataOK([d EXCEPT !.tokenProperties = Append(d.tokenProperties, x)])
    BY <1>0, AppendSeq, DataAppend
  <2>2. CASE e.identifier = "upgradeProperties"
    BY <2>1, <2>2 DEF esdtPropertiesProc
  <2>3. CASE e.identifier = "ESDTNFTCreateRoleTransfer"
    BY <2>3, AddRoleOK DEF esdtPropertiesProc
  <2>4. CASE e.identifier \notin {"upgradeProperties", "ESDTNFTCreateRoleTransfer"}
    <3>1. IsSeq(e.roles)
      BY <1>3, <2>4 DEF RolesOK
    <3> QED BY <2>4, <3>1, ChangeRolesOK DEF esdtPropertiesProc
  <2> QED BY <2>2, <2>3, <2>4
<1>4. DataOK(esdtIssueProcessor(d, e))
  <2>1. \A x : DataOK([d EXCEPT !.tokensInfo = Append(d.tokensInfo, x)])
    BY <1>0, AppendSeq, DataAppend
  <2> QED BY <2>1, Zenon DEF esdtIssueProcessor
<1>5. DataOK(delegatorsProc(d, e))
  <2>1. \A x, v : DataOK([d EXCEPT !.delegators = With(d.delegators, x, v)])
    BY <1>0, WithFinite, DataExcept
  <2> QED BY <2>1, Zenon DEF delegatorsProc
<1>6. DataOK(nftsProcessor(d, e))
  <2>1. \A x, v : /\ DataOK([d EXCEPT !.tokensSupply = With(d.tokensSupply, x, v)])
                  /\ DataOK([d EXCEPT !.tokens = With(d.tokens, x, v)])
    BY <1>0, WithFinite, DataExcept
  <2> QED BY <2>1 DEF nftsProcessor
<1> QED
  BY <1>1, <1>2, <1>3, <1>4, <1>5, <1>6 DEF processEvent

(* ... and, by induction on the events, ExtractDataFromLogs.               *)
LEMMA LogsDataOK ==
  ASSUME NEW b, NEW shard, IsSeq(b.events), \A i \in DOMAIN b.events : RolesOK(b.events[i].event)
  PROVE  DataOK(ExtractDataFromLogs(b, shard))
<1> DEFINE N == Len(b.events)
<1>1. PICK a : /\ a[0] = newLogsData(b.timestamp, shard)
               /\ \A n \in 1..N : a[n] = processEvent(a[n - 1], b.events[n].hash, b.events[n].event)
               /\ ExtractDataFromLogs(b, shard) = a[N]
  BY LogsSteps
<1>2. N \in Nat /\ DOMAIN b.events = 1..N
  BY SeqIsFcn
<1> DEFINE T == {n \in 0..N : DataOK(a[n])}
<1> HIDE DEF N
<1>3. 0 \in T
  <2>1. IsSeq(<<>>)
    BY DEF IsSeq
  <2>2. IsFiniteSet(DOMAIN NoDocs) /\ DOMAIN NoDocs = {}
    BY FS_EmptySet DEF NoDocs
  <2>3. DataOK(newLogsData(b.timestamp, shard))
    BY <2>1, <2>2 DEF DataOK, newLogsData
  <2> QED BY <1>1, <1>2, <2>3
<1>4. ASSUME NEW n \in 1..N, n - 1 \in T PROVE n \in T
  <2>1. DataOK(a[n - 1])
    BY <1>4
  <2>2. DataOK(processEvent(a[n - 1], b.events[n].hash, b.events[n].event))
    BY <1>2, <2>1, EventOK
  <2>3. DataOK(a[n])
    BY <1>1, <2>2, Zenon
  <2> QED BY <2>3, <1>2
<1>5. \A n \in 0..N : n \in T
  <2> HIDE DEF T
  <2> QED BY <1>2, <1>3, <1>4, UpTo
<1> QED
  BY <1>1, <1>2, <1>5
-----------------------------------------------------------------------------
(***************************************************************************)
(* What SaveTransactions buffers.                                          *)
(***************************************************************************)
(* A function on 1..n that gives harmless operations is harmless.          *)
LEMMA FcnHarmless ==
  ASSUME NEW X, NEW q, NEW n \in Nat, q = [i \in 1..n |-> q[i]],
         \A i \in 1..n :
           /\ q[i].script # "search"
           /\ (q[i].script = "index" /\ q[i].key.index = "tokens") => q[i].key \in X
  PROVE  Harmless(q, X)
BY FcnIsSeq DEF Harmless

(* The image of a finite set is finite.                                    *)
LEMMA ImageFinite ==
  ASSUME NEW S, IsFiniteSet(S), NEW f, f = [x \in S |-> f[x]]
  PROVE  IsFiniteSet(Range(f))
<1>1. f \in Surjection(S, Range(f))
  BY DEF Surjection, Range
<1> QED BY <1>1, FS_Surjection

(* The size of a finite set is a number.                                   *)
LEMMA SetSize ==
  ASSUME NEW S, IsFiniteSet(S)
  PROVE  Cardinality(S) \in Nat
BY FS_CardinalityType

(* What the serializers put into the buffer is harmless, one after the     *)
(* other: transactions,                                                    *)
LEMMA TransactionsHarmless ==
  ASSUME NEW X, NEW txs, IsFiniteSet(txs), NEW b, IsFiniteSet(b.scrs), NEW self, NEW index
  PROVE  Harmless(SerializeTransactions(txs, b, self, index), X)
<1> DEFINE q == ForEach(txs, LAMBDA t : Operation(DocKey(index, t.hash), "transaction",
                                          [tx |-> t, doc |-> TxDoc(t, b, self), self |-> self]))
           H == DOMAIN TxHashStatusInfo(b)
           r == ForEach(H, LAMBDA hash :
                  Operation(DocKey(index, hash), "status", TxHashStatusInfo(b)[hash]))
           f == [scr \in b.scrs |-> scr.originalTx]
           n == Cardinality(txs)
           m == Cardinality(H)
<1>1. n \in Nat /\ q = [i \in 1..n |-> q[i]] /\ \A i \in 1..n : q[i].script = "transaction"
  BY SetSize DEF ForEach, Operation
<1>2. IsFiniteSet(H)
  <2>1. f = [x \in b.scrs |-> f[x]] /\ H \in SUBSET Range(f)
    BY DEF TxHashStatusInfo, Range
  <2> HIDE DEF f, H
  <2>2. IsFiniteSet(Range(f))
    BY <2>1, ImageFinite
  <2> QED BY <2>1, <2>2, FS_Subset
<1>3. SerializeTransactions(txs, b, self, index) = q \o r
  BY DEF SerializeTransactions
<1>4. m \in Nat /\ r = [i \in 1..m |-> r[i]] /\ \A i \in 1..m : r[i].script = "status"
  <2> HIDE DEF H
  <2> QED BY <1>2, SetSize DEF ForEach, Operation
<1> HIDE DEF q, r, n, m
<1>5. Harmless(q, X) /\ Harmless(r, X)
  BY <1>1, <1>4, FcnHarmless
<1>6. Harmless(q \o r, X)
  BY <1>5, ConcatHarmless
<1> QED BY <1>3, <1>6, Zenon

(* ... smart contract results as operations,                               *)
LEMMA SCRsHarmless ==
  ASSUME NEW X, NEW b, IsFiniteSet(b.scrs), NEW mode, NEW self
  PROVE  Harmless(SerializeSCRs(b, mode, self), X)
<1> DEFINE f == [scr \in b.scrs |-> IF scr.snd = "none" THEN [scr EXCEPT !.snd = self, !.rcv = self] ELSE scr]
           S == {scr \in processSCRs(b, self) : shouldIndex(scr.rcv, mode, self)}
           q == SerializeSCRs(b, mode, self)
           n == Cardinality(S)
<1>1. processSCRs(b, self) = Range(f)
  BY DEF processSCRs, Range
<1>2. IsFiniteSet(processSCRs(b, self))
  <2>1. f = [x \in b.scrs |-> f[x]]
    OBVIOUS
  <2> HIDE DEF f
  <2> QED BY <1>1, <2>1, ImageFinite
<1>3. n \in Nat
  <2>1. S \in SUBSET processSCRs(b, self)
    OBVIOUS
  <2> HIDE DEF S
  <2> QED BY <1>2, <2>1, FS_Subset, SetSize
<1>4. q = [i \in 1..n |-> q[i]] /\ \A i \in 1..n : q[i].key.index = "operations" /\ q[i].script # "search"
  BY DEF SerializeSCRs, ForEach, Operation, DocKey, Key
<1> HIDE DEF q, n
<1>5. Harmless(q, X)
  BY <1>3, <1>4, FcnHarmless
<1> QED BY <1>5 DEF q

(* ... and as results,                                                     *)
LEMMA ScResultsHarmless ==
  ASSUME NEW X, NEW b, IsFiniteSet(b.scrs)
  PROVE  Harmless(SerializeScResults(b), X)
<1> DEFINE q == SerializeScResults(b)
           n == Cardinality(b.scrs)
<1>1. n \in Nat /\ q = [i \in 1..n |-> q[i]] /\ \A i \in 1..n : q[i].key.index = "scresults" /\ q[i].script # "search"
  BY SetSize DEF SerializeScResults, ForEach, Operation, DocKey, Key
<1> HIDE DEF q, n
<1>2. Harmless(q, X)
  BY <1>1, FcnHarmless
<1> QED BY <1>2 DEF q

(* ... the fees of transactions,                                           *)
LEMMA FeesHarmless ==
  ASSUME NEW X, NEW b, IsFiniteSet(b.scrs), NEW txs, NEW index
  PROVE  Harmless(SerializeTransactionsFeeData(b, txs, index), X)
<1> DEFINE R == FeeResults(b, txs)
           f == [scr \in R |-> scr.originalTx]
           S == {scr.originalTx : scr \in R}
           q == SerializeTransactionsFeeData(b, txs, index)
           n == Cardinality(S)
<1>1. IsFiniteSet(R)
  BY FS_Subset DEF FeeResults
<1>2. IsFiniteSet(S)
  <2>1. f = [x \in R |-> f[x]] /\ S = Range(f)
    BY DEF Range
  <2> HIDE DEF f, S, R
  <2> QED BY <1>1, <2>1, ImageFinite
<1>3. q = [i \in 1..n |-> q[i]] /\ \A i \in 1..n : q[i].script = "fee"
  <2> HIDE DEF S
  <2> QED BY DEF SerializeTransactionsFeeData, ForEach, Operation, S
<1>4. n \in Nat
  <2> HIDE DEF S
  <2> QED BY <1>2, SetSize
<1> HIDE DEF q, n
<1>5. Harmless(q, X)
  BY <1>3, <1>4, FcnHarmless
<1> QED BY <1>5 DEF q

(* ... logs and events,                                                    *)
LEMMA LogsHarmless ==
  ASSUME NEW X, NEW b, IsSeq(b.events), NEW self
  PROVE  Harmless(SerializeLogs(b), X) /\ Harmless(SerializeEvents(b, self), X)
<1> DEFINE f == [i \in DOMAIN b.events |-> b.events[i].hash]
           S == LoggedHashes(b)
           n == Cardinality(S)
           q == SerializeLogs(b)
           p == SerializeEvents(b, self)
           m == Len(b.events)
<1>1. m \in Nat /\ DOMAIN b.events = 1..m
  BY SeqIsFcn
<1>2. IsFiniteSet(S)
  <2>1. f = [i \in DOMAIN b.events |-> f[i]] /\ S = Range(f)
    BY DEF Range, LoggedHashes
  <2>2. IsFiniteSet(DOMAIN b.events)
    BY <1>1, FS_Interval
  <2> HIDE DEF f, S
  <2> QED BY <2>1, <2>2, ImageFinite
<1>3. q = [i \in 1..n |-> q[i]] /\ \A i \in 1..n : q[i].script = "log"
  BY DEF SerializeLogs, ForEach, Operation
<1>4. p = [i \in 1..m |-> p[i]] /\ \A i \in 1..m : p[i].script = "log"
  BY <1>1 DEF SerializeEvents, Operation
<1>5. n \in Nat
  <2> HIDE DEF S
  <2> QED BY <1>2, SetSize
<1> HIDE DEF q, n, p, m
<1>6. Harmless(q, X) /\ Harmless(p, X)
  BY <1>1, <1>3, <1>4, <1>5, FcnHarmless
<1> QED BY <1>6 DEF q, p

\* The documents of the NFTs that were created.
CreatedBy(d) == {Key("tokens", id[1], id[2], "") : id \in DOMAIN d.tokens}

(* ... the NFTs that were created, which is where documents of tokens are  *)
(* replaced,                                                               *)
LEMMA CreateInfoHarmless ==
  ASSUME NEW d, DataOK(d), NEW ds
  PROVE  Harmless(SerializeNFTCreateInfo(d, ds), CreatedBy(d))
<1> DEFINE info == AddTypeAndOwnerFromResponse(d.tokens, ds)
           S == GetAllWithoutMetaESDT(info)
           n == Cardinality(S)
           q == SerializeNFTCreateInfo(d, ds)
<1>1. S \in SUBSET DOMAIN d.tokens
  BY DEF GetAllWithoutMetaESDT, AddTypeAndOwnerFromResponse
<1>2. IsFiniteSet(S)
  <2> HIDE DEF S
  <2> QED BY <1>1, FS_Subset DEF DataOK
<1>3. n \in Nat /\ \A i \in 1..n : SetToSeq(S)[i] \in S
  <2> HIDE DEF S
  <2> QED BY <1>2, SetToSeqIsFcn
<1>4. q = [i \in 1..n |-> Operation(Key("tokens", SetToSeq(S)[i][1], SetToSeq(S)[i][2], ""), "index",
                                    NFTDoc(info[SetToSeq(S)[i]], d.timestamp))]
  BY DEF SerializeNFTCreateInfo, ForEach
<1>5. \A i \in 1..n : q[i].key \in CreatedBy(d) /\ q[i].script = "index"
  <2> HIDE DEF S, n, q, info
  <2> TAKE i \in 1..n
  <2> DEFINE x == SetToSeq(S)[i]
  <2>1. x \in DOMAIN d.tokens
    BY <1>1, <1>3
  <2>2. q[i].key = Key("tokens", x[1], x[2], "") /\ q[i].script = "index"
    BY <1>4 DEF Operation
  <2>3. Key("tokens", x[1], x[2], "") \in CreatedBy(d)
    <3> HIDE DEF x
    <3> QED BY <2>1 DEF CreatedBy
  <2> QED BY <2>2, <2>3, Zenon
<1>6. q = [i \in 1..n |-> q[i]]
  <2> HIDE DEF S, n
  <2> QED BY <1>4
<1> HIDE DEF q, n
<1>7. Harmless(q, CreatedBy(d))
  BY <1>3, <1>5, <1>6, FcnHarmless
<1> QED BY <1>7 DEF q

(* ... the NFTs that were burnt,                                           *)
LEMMA SupplyHarmless ==
  ASSUME NEW X, NEW d, DataOK(d), NEW ds
  PROVE  Harmless(SerializeSupplyData(d, ds), X)
<1> DEFINE info == AddTypeAndOwnerFromResponse(d.tokensSupply, ds)
           S == {id \in DOMAIN info : info[id].type \in NonFungibleTypes}
           n == Cardinality(S)
           q == SerializeSupplyData(d, ds)
<1>1. S \in SUBSET DOMAIN d.tokensSupply
  BY DEF AddTypeAndOwnerFromResponse
<1>2. n \in Nat
  <2> HIDE DEF S
  <2> QED BY <1>1, FS_Subset, SetSize DEF DataOK
<1>3. q = [i \in 1..n |-> q[i]] /\ \A i \in 1..n : q[i].script = "delete"
  BY DEF SerializeSupplyData, ForEach, Operation
<1> HIDE DEF q, n
<1>4. Harmless(q, X)
  BY <1>2, <1>3, FcnHarmless
<1> QED BY <1>4 DEF q

(* ... what events change of an NFT,                                       *)
LEMMA UpdatesHarmless ==
  ASSUME NEW X, NEW updates, IsSeq(updates), NEW isAccounts, NEW index
  PROVE  Harmless(PrepareNFTUpdateData(updates, isAccounts, index), X)
<1> DEFINE n == Len(updates)
           q == PrepareNFTUpdateData(updates, isAccounts, index)
<1>1. n \in Nat /\ DOMAIN updates = 1..n
  BY SeqIsFcn
<1>2. q = [i \in 1..n |-> q[i]] /\ \A i \in 1..n : q[i].script = "nft update"
  BY <1>1 DEF PrepareNFTUpdateData, Operation
<1> HIDE DEF q, n
<1>3. Harmless(q, X)
  BY <1>1, <1>2, FcnHarmless
<1> QED BY <1>3 DEF q

(* ... the accounts,                                                       *)
LEMMA AccountsHarmless ==
  ASSUME NEW X, NEW b, IsFiniteSet(b.altered), NEW d, DataOK(d), NEW ds
  PROVE  Harmless(SerializeAccountsESDT(b, d, ds), X)
<1> DEFINE info == AddTypeAndOwnerFromResponse(AccountsTokens(b), ds)
           op(x) ==
             LET k == Key("accountsesdt", x.token, x.nonce, x.address)
             IN  IF x.balance = 0 THEN Operation(k, "delete account", b.timestamp)
                 ELSE Operation(k, "account", AccountDoc(x, info, b.timestamp))
           n == Cardinality(b.altered)
           q == ForEach(b.altered, op)
           p == PrepareNFTUpdateData(d.nftsDataUpdates, TRUE, "accountsesdt")
<1>1. n \in Nat
  BY SetSize
<1>2. q = [i \in 1..n |-> q[i]] /\ \A i \in 1..n : q[i].script \in {"account", "delete account"}
  BY DEF ForEach, Operation
<1>3. SerializeAccountsESDT(b, d, ds) = q \o p
  BY DEF SerializeAccountsESDT
<1>4. Harmless(p, X)
  BY UpdatesHarmless DEF DataOK
<1> HIDE DEF q, n, p
<1>5. Harmless(q, X)
  BY <1>1, <1>2, FcnHarmless
<1>6. Harmless(q \o p, X)
  BY <1>4, <1>5, ConcatHarmless
<1> QED BY <1>3, <1>6, Zenon

(* ... the tags,                                                           *)
LEMMA TagsHarmless ==
  ASSUME NEW X, NEW b, IsFiniteSet(b.altered), \A x \in b.altered : IsFiniteSet(x.tags)
  PROVE  Harmless(SerializeTags(b), X)
<1> DEFINE A == {a \in b.altered : a.isNFTCreate}
           f == [x \in A |-> x.tags]
           U == {x.tags : x \in A}
           n == Cardinality(ParsedTags(b))
           q == SerializeTags(b)
<1>1. IsFiniteSet(A)
  BY FS_Subset
<1>2. IsFiniteSet(U)
  <2>1. f = [x \in A |-> f[x]] /\ U = Range(f)
    BY DEF Range
  <2> HIDE DEF f, U, A
  <2> QED BY <1>1, <2>1, ImageFinite
<1>3. IsFiniteSet(UNION U)
  <2>1. \A T \in U : IsFiniteSet(T)
    OBVIOUS
  <2> HIDE DEF U
  <2> QED BY <1>2, <2>1, FS_UNION
<1>4. n \in Nat
  <2>1. ParsedTags(b) \in SUBSET UNION U
    BY DEF ParsedTags
  <2> HIDE DEF U
  <2> QED BY <1>3, <2>1, FS_Subset, SetSize
<1>5. q = [i \in 1..n |-> q[i]] /\ \A i \in 1..n : q[i].script = "tag"
  BY DEF SerializeTags, ForEach, Operation
<1> HIDE DEF q, n
<1>6. Harmless(q, X)
  BY <1>4, <1>5, FcnHarmless
<1> QED BY <1>6 DEF q

(* ... the tokens that were issued,                                        *)
LEMMA TokensHarmless ==
  ASSUME NEW X, NEW d, DataOK(d), NEW index
  PROVE  Harmless(SerializeTokens(d, index), X)
<1> DEFINE n == Len(d.tokensInfo)
           q == [i \in DOMAIN d.tokensInfo |->
                   Operation(DocKey(index, d.tokensInfo[i].token), "token", d.tokensInfo[i])]
           p == PrepareNFTUpdateData(d.nftsDataUpdates, FALSE, index)
<1>1. n \in Nat /\ DOMAIN d.tokensInfo = 1..n
  BY SeqIsFcn DEF DataOK
<1>2. q = [i \in 1..n |-> q[i]] /\ \A i \in 1..n : q[i].script = "token"
  BY <1>1 DEF Operation
<1>3. SerializeTokens(d, index) = q \o p
  BY DEF SerializeTokens
<1>4. Harmless(p, X)
  BY UpdatesHarmless DEF DataOK
<1> HIDE DEF q, n, p
<1>5. Harmless(q, X)
  BY <1>1, <1>2, FcnHarmless
<1>6. Harmless(q \o p, X)
  BY <1>4, <1>5, ConcatHarmless
<1> QED BY <1>3, <1>6, Zenon

(* ... delegators and contracts,                                           *)
LEMMA MapsHarmless ==
  ASSUME NEW X, NEW d, DataOK(d)
  PROVE  /\ Harmless(SerializeDelegators(d), X)
         /\ Harmless(SerializeSCDeploys(d), X)
         /\ Harmless(SerializeChangeOwnerOperations(d), X)
<1> DEFINE n == Cardinality(DOMAIN d.delegators)
           q == SerializeDelegators(d)
           m == Cardinality(DOMAIN d.scDeploys)
           p == SerializeSCDeploys(d)
           l == Cardinality(DOMAIN d.changeOwnerOperations)
           o == SerializeChangeOwnerOperations(d)
<1>1. n \in Nat /\ m \in Nat /\ l \in Nat
  BY SetSize DEF DataOK
<1>2. q = [i \in 1..n |-> q[i]] /\ \A i \in 1..n : q[i].script = "delegator"
  BY DEF SerializeDelegators, ForEach, Operation
<1>3. p = [i \in 1..m |-> p[i]] /\ \A i \in 1..m : p[i].script = "deploy"
  BY DEF SerializeSCDeploys, ForEach, Operation
<1>4. o = [i \in 1..l |-> o[i]] /\ \A i \in 1..l : o[i].script = "change owner"
  BY DEF SerializeChangeOwnerOperations, ForEach, Operation
<1> HIDE DEF q, n, p, m, o, l
<1>5. Harmless(q, X) /\ Harmless(p, X) /\ Harmless(o, X)
  BY <1>1, <1>2, <1>3, <1>4, FcnHarmless
<1> QED BY <1>5 DEF q, p, o

(* ... and the roles.                                                      *)
LEMMA RolesHarmless ==
  ASSUME NEW X, NEW d, DataOK(d), NEW index
  PROVE  Harmless(SerializeRolesData(d, index), X)
<1> DEFINE ofRole(role) ==
             [i \in DOMAIN d.rolesData[role] |->
                LET rd == d.rolesData[role][i]
                IN  Operation(DocKey(index, rd.token), "role",
                              [role |-> role, address |-> rd.address, set |-> rd.set])]
           S == DOMAIN d.rolesData
           n == Cardinality(S)
           qs == ForEach(S, ofRole)
           p == [i \in DOMAIN d.tokenProperties |->
                   Operation(DocKey(index, d.tokenProperties[i].token), "properties",
                             d.tokenProperties[i].properties)]
           m == Len(d.tokenProperties)
<1>1. n \in Nat /\ \A i \in 1..n : SetToSeq(S)[i] \in S
  BY SetToSeqIsFcn DEF DataOK
<1>2. \A role \in S : Harmless(ofRole(role), X)
  <2> TAKE role \in S
  <2> DEFINE q == ofRole(role)
             l == Len(d.rolesData[role])
  <2>1. l \in Nat /\ DOMAIN d.rolesData[role] = 1..l
    BY SeqIsFcn DEF DataOK
  <2>2. q = [i \in 1..l |-> q[i]] /\ \A i \in 1..l : q[i].script = "role"
    BY <2>1 DEF Operation
  <2> HIDE DEF q, l
  <2>3. Harmless(q, X)
    BY <2>1, <2>2, FcnHarmless
  <2> QED BY <2>3 DEF q
<1>3. qs = [i \in 1..n |-> ofRole(SetToSeq(S)[i])]
  BY DEF ForEach
<1>4. IsSeq(qs) /\ \A i \in DOMAIN qs : Harmless(qs[i], X)
  <2> HIDE DEF ofRole, S, n, qs
  <2>1. qs = [i \in 1..n |-> qs[i]]
    BY <1>3
  <2>2. IsSeq(qs) /\ DOMAIN qs = 1..n
    BY <1>1, <2>1, FcnIsSeq
  <2> QED BY <1>1, <1>2, <1>3, <2>2
<1>5. m \in Nat /\ DOMAIN d.tokenProperties = 1..m
  BY SeqIsFcn DEF DataOK
<1>6. p = [i \in 1..m |-> p[i]] /\ \A i \in 1..m : p[i].script = "properties"
  BY <1>5 DEF Operation
<1>7. SerializeRolesData(d, index) = FlattenSeq(qs) \o p
  BY DEF SerializeRolesData
<1> HIDE DEF qs, p, m
<1>8. Harmless(p, X)
  BY <1>5, <1>6, FcnHarmless
<1>9. Harmless(FlattenSeq(qs), X)
  BY <1>4, FlattenHarmless
<1>10. Harmless(FlattenSeq(qs) \o p, X)
  BY <1>8, <1>9, ConcatHarmless
<1> QED BY <1>7, <1>10, Zenon

(* The parts of SaveTransactions,                                          *)
LEMMA PartsAre ==
  /\ Len(Parts) = 8 /\ DOMAIN Parts = 1..8
  /\ Parts[1] = "transactions" /\ Parts[2] = "operations" /\ Parts[3] = "createInfo"
  /\ Parts[4] = "accountsESDT" /\ Parts[5] = "tokens" /\ Parts[6] = "burnInfo"
  /\ Parts[7] = "received" /\ Parts[8] = "bulk"
BY DEF Parts

(* ... their positions,                                                    *)
LEMMA PositionIs ==
  /\ Position("operations") = 2 /\ Position("createInfo") = 3 /\ Position("accountsESDT") = 4
  /\ Position("tokens") = 5 /\ Position("burnInfo") = 6
<1>1. ASSUME NEW p \in 1..8 PROVE Position(Parts[p]) = p
  <2>1. \A i, j \in 1..8 : Parts[i] = Parts[j] => i = j
    BY PartsAre
  <2> HIDE DEF Parts
  <2>2. Position(Parts[p]) \in 1..8 /\ Parts[Position(Parts[p])] = Parts[p]
    BY PartsAre DEF Position
  <2> QED BY <2>1, <2>2
<1>2. 2 \in 1..8 /\ 3 \in 1..8 /\ 4 \in 1..8 /\ 5 \in 1..8 /\ 6 \in 1..8
  OBVIOUS
<1> QED BY <1>1, <1>2, PartsAre

(* ... and the next one that makes a request.                              *)
LEMMA NextRequestIs ==
  ASSUME NEW s, NEW from \in 1..8
  PROVE  /\ NextRequest(s, from) \in from..8
         /\ Requests(s, Parts[NextRequest(s, from)])
         /\ \A i \in from..8 : Requests(s, Parts[i]) => NextRequest(s, from) <= i
<1> DEFINE T == {i \in from..Len(Parts) : Requests(s, Parts[i])}
<1>1. 8 \in T
  <2>1. Requests(s, "bulk")
    BY DEF Requests
  <2> QED BY <2>1, PartsAre
<1>2. T \subseteq from..8 /\ T \subseteq Nat
  BY PartsAre
<1>3. \E x \in T : \A y \in T : x <= y
  <2> HIDE DEF T
  <2> QED BY <1>1, <1>2, LeastNumber
<1>4. NextRequest(s, from) \in T /\ \A y \in T : NextRequest(s, from) <= y
  <2>1. NextRequest(s, from) = CHOOSE x \in T : \A y \in T : x <= y
    BY DEF NextRequest, Min
  <2> HIDE DEF T
  <2> QED BY <1>3, <2>1
<1> QED BY <1>2, <1>4, PartsAre

(* What a part buffers is harmless,                                        *)
LEMMA BufferedByHarmless ==
  ASSUME NEW s, NEW part, WellFormed(Block(s)), DataOK(LogsData(s)), IsFiniteSet(local[s].txs)
  PROVE  Harmless(BufferedBy(s, part), CreatedBy(LogsData(s)))
<1> DEFINE b == Block(s)
           d == LogsData(s)
           txs == local[s].txs
           X == CreatedBy(d)
<1>0. /\ IsFiniteSet(b.scrs) /\ IsFiniteSet(b.altered) /\ IsSeq(b.events)
      /\ \A x \in b.altered : IsFiniteSet(x.tags)
      /\ DataOK(d) /\ IsFiniteSet(txs)
  BY DEF WellFormed
<1>1. CASE part = "operations"
  <2> DEFINE S == {t \in txs : shouldIndex(t.rcv, importDB, s)}
  <2>1. IsFiniteSet(S)
    <3>1. S \in SUBSET txs
      OBVIOUS
    <3> HIDE DEF S
    <3> QED BY <1>0, <3>1, FS_Subset
  <2> HIDE DEF S, b, txs, X
  <2>2. Harmless(SerializeTransactions(S, b, s, "operations"), X)
    BY <1>0, <2>1, TransactionsHarmless
  <2>3. Harmless(SerializeSCRs(b, importDB, s), X)
    BY <1>0, SCRsHarmless
  <2>4. Harmless(ProcessTransactionsAndSCRs(b, txs, importDB, s), X)
    BY <2>2, <2>3, ConcatHarmless, Zenon DEF ProcessTransactionsAndSCRs, S
  <2>5. /\ Harmless(SerializeTransactionsFeeData(b, txs, "transactions"), X)
        /\ Harmless(SerializeTransactionsFeeData(b, txs, "operations"), X)
    BY <1>0, FeesHarmless
  <2>6. Harmless(ProcessTransactionsAndSCRs(b, txs, importDB, s)
                 \o SerializeTransactionsFeeData(b, txs, "transactions"), X)
    BY <2>4, <2>5, ConcatHarmless
  <2>7. Harmless(ProcessTransactionsAndSCRs(b, txs, importDB, s)
                 \o SerializeTransactionsFeeData(b, txs, "transactions")
                 \o SerializeTransactionsFeeData(b, txs, "operations"), X)
    BY <2>5, <2>6, ConcatHarmless
  <2> QED BY <1>1, <2>7 DEF BufferedBy, b, txs, X
<1>2. CASE part = "createInfo"
  <2> HIDE DEF b, d
  <2>1. Harmless(SerializeNFTCreateInfo(d, docs), X)
    BY <1>0, CreateInfoHarmless
  <2> HIDE DEF X
  <2>2. /\ Harmless(SerializeLogs(b), X) /\ Harmless(SerializeEvents(b, s), X)
        /\ Harmless(SerializeScResults(b), X)
    BY <1>0, LogsHarmless, ScResultsHarmless
  <2>3. Harmless(SerializeNFTCreateInfo(d, docs) \o SerializeLogs(b), X)
    BY <2>1, <2>2, ConcatHarmless
  <2>4. Harmless(SerializeNFTCreateInfo(d, docs) \o SerializeLogs(b) \o SerializeEvents(b, s), X)
    BY <2>2, <2>3, ConcatHarmless
  <2>5. Harmless(SerializeNFTCreateInfo(d, docs) \o SerializeLogs(b) \o SerializeEvents(b, s)
                 \o SerializeScResults(b), X)
    BY <2>2, <2>4, ConcatHarmless
  <2> QED BY <1>2, <2>5 DEF BufferedBy, b, d, X
<1>3. CASE part = "accountsESDT"
  <2> HIDE DEF b, d, X
  <2>1. Harmless(SerializeAccountsESDT(b, d, docs), X) /\ Harmless(SerializeTags(b), X)
    BY <1>0, AccountsHarmless, TagsHarmless
  <2>2. Harmless(SerializeAccountsESDT(b, d, docs) \o SerializeTags(b), X)
    BY <2>1, ConcatHarmless
  <2> QED BY <1>3, <2>2 DEF BufferedBy, b, d, X
<1>4. CASE part = "tokens"
  <2> HIDE DEF b, d, X
  <2>1. Harmless(SerializeTokens(d, "esdts"), X) /\ Harmless(SerializeTokens(d, "tokens"), X)
    BY <1>0, TokensHarmless
  <2>2. Harmless(SerializeTokens(d, "esdts") \o SerializeTokens(d, "tokens"), X)
    BY <2>1, ConcatHarmless
  <2> QED BY <1>4, <2>2 DEF BufferedBy, d, X
<1>5. CASE part = "burnInfo"
  <2> HIDE DEF b, d, X
  <2>1. /\ Harmless(SerializeDelegators(d), X) /\ Harmless(SerializeSupplyData(d, docs), X)
        /\ Harmless(SerializeRolesData(d, "tokens"), X) /\ Harmless(SerializeRolesData(d, "esdts"), X)
        /\ Harmless(SerializeSCDeploys(d), X) /\ Harmless(SerializeChangeOwnerOperations(d), X)
    BY <1>0, MapsHarmless, SupplyHarmless, RolesHarmless
  <2>2. Harmless(SerializeDelegators(d) \o SerializeSupplyData(d, docs), X)
    BY <2>1, ConcatHarmless
  <2>3. Harmless(SerializeDelegators(d) \o SerializeSupplyData(d, docs)
                 \o SerializeRolesData(d, "tokens"), X)
    BY <2>1, <2>2, ConcatHarmless
  <2>4. Harmless(SerializeDelegators(d) \o SerializeSupplyData(d, docs)
                 \o SerializeRolesData(d, "tokens") \o SerializeRolesData(d, "esdts"), X)
    BY <2>1, <2>3, ConcatHarmless
  <2>5. Harmless(SerializeDelegators(d) \o SerializeSupplyData(d, docs)
                 \o SerializeRolesData(d, "tokens") \o SerializeRolesData(d, "esdts")
                 \o SerializeSCDeploys(d), X)
    BY <2>1, <2>4, ConcatHarmless
  <2>6. Harmless(SerializeDelegators(d) \o SerializeSupplyData(d, docs)
                 \o SerializeRolesData(d, "tokens") \o SerializeRolesData(d, "esdts")
                 \o SerializeSCDeploys(d) \o SerializeChangeOwnerOperations(d), X)
    BY <2>1, <2>5, ConcatHarmless
  <2> QED BY <1>5, <2>6 DEF BufferedBy, d, X
<1>6. CASE part \notin {"operations", "createInfo", "accountsESDT", "tokens", "burnInfo"}
  <2>1. BufferedBy(s, part) = <<>>
    BY <1>6 DEF BufferedBy
  <2>2. Harmless(<<>>, X)
    BY DEF Harmless, IsSeq
  <2> QED BY <2>1, <2>2, Zenon
<1> QED BY <1>1, <1>2, <1>3, <1>4, <1>5, <1>6

(* ... and so is what several parts buffer until the next request.         *)
LEMMA BufferedHarmless ==
  ASSUME NEW s, WellFormed(Block(s)), DataOK(LogsData(s)), IsFiniteSet(local[s].txs),
         NEW i \in 1..8, NEW from \in 1..8, i <= from
  PROVE  Harmless(Buffered(s, i, from), CreatedBy(LogsData(s)))
<1> DEFINE n == NextRequest(s, from) - i
           qs == [j \in 1..n |-> BufferedBy(s, Parts[i + j - 1])]
           X == CreatedBy(LogsData(s))
<1>1. n \in Nat
  BY NextRequestIs
<1>2. \A j \in 1..n : Harmless(qs[j], X)
  <2> HIDE DEF n
  <2> QED BY BufferedByHarmless
<1>3. qs = [j \in 1..n |-> qs[j]] /\ Buffered(s, i, from) = FlattenSeq(qs)
  BY DEF Buffered
<1> HIDE DEF qs, n, X
<1>4. IsSeq(qs) /\ DOMAIN qs = 1..n
  BY <1>1, <1>3, FcnIsSeq
<1>5. Harmless(FlattenSeq(qs), X)
  BY <1>2, <1>4, FlattenHarmless
<1> QED BY <1>3, <1>5, Zenon DEF X
-----------------------------------------------------------------------------
(***************************************************************************)
(* Bulk requests.                                                          *)
(***************************************************************************)
(* A bulk request leaves finitely many documents.                          *)
LEMMA BulkFinite ==
  ASSUME NEW ds, IsFiniteSet(DOMAIN ds), NEW ops, IsSeq(ops)
  PROVE  IsFiniteSet(DOMAIN BulkResult(ds, ops))
<1>1. PICK a : /\ a[0] = ds
               /\ \A n \in 1..Len(ops) : a[n] = Execute(a[n - 1], ops[n])
               /\ BulkResult(ds, ops) = a[Len(ops)]
  BY BulkSteps
<1>2. Len(ops) \in Nat
  BY SeqIsFcn
<1> DEFINE T == {n \in 0..Len(ops) : IsFiniteSet(DOMAIN a[n])}
<1>3. 0 \in T
  BY <1>1, <1>2
<1>4. ASSUME NEW n \in 1..Len(ops), n - 1 \in T PROVE n \in T
  <2> DEFINE ac == a[n - 1]
             k == ops[n].key
             doc == Script(ops[n], DoGet(ac, k))
  <2>1. IsFiniteSet(DOMAIN ac)
    BY <1>4
  <2>2. a[n] = Put(ac, k, doc)
    BY <1>1 DEF Execute
  <2> HIDE DEF ac, k, doc
  <2>3. IsFiniteSet(DOMAIN With(ac, k, doc))
    BY <2>1, WithFinite
  <2>4. IsFiniteSet(DOMAIN Restrict(ac, DOMAIN ac \ {k}))
    <3>1. DOMAIN Restrict(ac, DOMAIN ac \ {k}) = DOMAIN ac \ {k}
      BY DEF Restrict
    <3>2. IsFiniteSet(DOMAIN ac \ {k})
      BY <2>1, FS_Subset
    <3> QED BY <3>1, <3>2
  <2>5. IsFiniteSet(DOMAIN Put(ac, k, doc))
    BY <2>3, <2>4, Zenon DEF Put
  <2> QED BY <1>2, <2>2, <2>5
<1>5. \A n \in 0..Len(ops) : n \in T
  <2> HIDE DEF T
  <2> QED BY <1>2, <1>3, <1>4, UpTo
<1> QED BY <1>1, <1>2, <1>5

\* An operation replaces the document.
Replaces(op, k) == op.key = k /\ op.script = "index"

\* Every operation on the document fails, or replaces it by v.
OnlyReplaces(ops, k, v) ==
  \A i \in DOMAIN ops : ops[i].key = k =>
    ops[i].script = "failed" \/ (ops[i].script = "index" /\ ops[i].params = v)

(* Then the document is v afterwards if one replaced it, and what it was   *)
(* before if none did.                                                     *)
LEMMA BulkCopies ==
  ASSUME NEW ds, NEW ops, IsSeq(ops), NEW k, NEW v, v # NoDoc, OnlyReplaces(ops, k, v),
         k \in DOMAIN ds => ds[k] # NoDoc
  PROVE  LET r == BulkResult(ds, ops) IN
         IF \E i \in DOMAIN ops : Replaces(ops[i], k) THEN k \in DOMAIN r /\ r[k] = v
         ELSE /\ k \in DOMAIN r <=> k \in DOMAIN ds
              /\ k \in DOMAIN ds => r[k] = ds[k]
<1>1. PICK a : /\ a[0] = ds
               /\ \A n \in 1..Len(ops) : a[n] = Execute(a[n - 1], ops[n])
               /\ BulkResult(ds, ops) = a[Len(ops)]
  BY BulkSteps
<1>2. Len(ops) \in Nat /\ DOMAIN ops = 1..Len(ops)
  BY SeqIsFcn
<1> DEFINE P(n) == IF \E i \in 1..n : Replaces(ops[i], k) THEN k \in DOMAIN a[n] /\ a[n][k] = v
                   ELSE /\ k \in DOMAIN a[n] <=> k \in DOMAIN ds
                        /\ k \in DOMAIN ds => a[n][k] = ds[k]
           T == {n \in 0..Len(ops) : P(n)}
<1>3. 0 \in T
  BY <1>1, <1>2
<1>4. ASSUME NEW n \in 1..Len(ops), n - 1 \in T PROVE n \in T
  <2> DEFINE ac == a[n - 1]
             key == ops[n].key
             doc == Script(ops[n], DoGet(ac, key))
  <2>1. P(n - 1) /\ n \in 0..Len(ops) /\ n \in DOMAIN ops
    BY <1>2, <1>4
  <2>2. a[n] = Put(ac, key, doc)
    BY <1>1 DEF Execute
  <2>3. CASE Replaces(ops[n], k)
    <3>1. doc = v
      BY <1>2, <2>3 DEF Script, OnlyReplaces, Replaces
    <3>2. a[n] = With(ac, k, v)
      BY <2>2, <2>3, <3>1 DEF Put, Replaces
    <3>3. k \in DOMAIN a[n] /\ a[n][k] = v
      BY <3>2 DEF With
    <3>4. \E i \in 1..n : Replaces(ops[i], k)
      BY <1>2, <2>3
    <3>5. P(n)
      BY <3>3, <3>4
    <3> QED BY <2>1, <3>5
  <2>4. CASE ~Replaces(ops[n], k)
    <3>0. k \in DOMAIN ac => ac[k] # NoDoc
      BY <2>1
    <3>f. key = k => doc = DoGet(ac, k)
      <4>1. key = k => ops[n].script = "failed"
        BY <2>1, <2>4 DEF OnlyReplaces, Replaces
      <4> QED BY <4>1 DEF Script
    <3>1. k \in DOMAIN a[n] <=> k \in DOMAIN ac
      <4> HIDE DEF ac, key, doc
      <4> QED BY <2>2, <3>0, <3>f DEF Put, With, Restrict, DoGet
    <3>2. k \in DOMAIN ac => a[n][k] = ac[k]
      <4> HIDE DEF ac, key, doc
      <4> QED BY <2>2, <3>0, <3>f DEF Put, With, Restrict, DoGet
    <3>3. (\E i \in 1..n : Replaces(ops[i], k)) <=> (\E i \in 1..(n - 1) : Replaces(ops[i], k))
      BY <1>2, <2>4
    <3>4. P(n)
      BY <2>1, <3>1, <3>2, <3>3
    <3> QED BY <2>1, <3>4
  <2> QED BY <2>3, <2>4
<1>5. \A n \in 0..Len(ops) : n \in T
  <2> HIDE DEF T
  <2> QED BY <1>2, <1>3, <1>4, UpTo
<1>6. P(Len(ops))
  BY <1>2, <1>5
<1> QED BY <1>1, <1>2, <1>6
-----------------------------------------------------------------------------
(***************************************************************************)
(* The handlers.                                                           *)
(***************************************************************************)
\* The local variables of a handler.
LocalOK(l) ==
  /\ l = [read |-> l.read, txs |-> l.txs, ops |-> l.ops, searches |-> l.searches,
          found |-> l.found, seen |-> l.seen, newTokens |-> l.newTokens]
  /\ IsFiniteSet(l.txs) /\ IsFiniteSet(l.found) /\ IsSeq(l.ops)

\* The steps of SaveTransactions.
SaveParts == {"transactions", "operations", "createInfo", "accountsESDT", "tokens", "types",
              "burnInfo", "received", "mainChain", "bulk"}

\* The steps of a revert after its first one.
RevertParts == {"remove transactions", "remove scresults", "remove operations", "remove logs",
                "remove events", "delegators"}

\* A handler in SaveTransactions handles a SaveBlock message; it has local
\* variables only then, and it asks the main chain only for tokens of the
\* block.
HandlersOK ==
  /\ acked \in [Shards -> Nat]
  /\ pc \in [Shards -> SaveParts \cup RevertParts \cup {"idle", "ack"}]
  /\ local = [s \in Shards |-> local[s]]
  /\ \A s \in Shards :
       /\ LocalOK(local[s])
       /\ pc[s] \in SaveParts => Handles(s, "SaveBlock")
       /\ pc[s] # "idle" => acked[s] < Len(log[s])
       /\ pc[s] \notin SaveParts => local[s] = NoLocal
       /\ pc[s] \in RevertParts => Message(s).topic # "SaveBlock"
       /\ pc[s] = "mainChain" => local[s].newTokens \subseteq ReceivedTokens(Block(s))

\* The documents and the history are finite, and the messages are the ones of
\* a scenario.
DocumentsOK ==
  /\ \E sc \in Scenarios : log = sc.log /\ base = sc.docs
  /\ IsSeq(history)
  /\ IsFiniteSet(DOMAIN docs)
  /\ IsFiniteSet(DOMAIN visible)

(* What the assumption says of messages and documents.                     *)
LEMMA LogFacts ==
  ASSUME DocumentsOK
  PROVE  /\ \A s \in Shards :
              /\ IsSeq(log[s])
              /\ \A i \in DOMAIN log[s] : log[s][i].topic \in Topics /\ WellFormed(log[s][i].block)
         /\ \A k \in DOMAIN base : base[k] # NoDoc
BY DocumentsAssumption DEF DocumentsOK

(* ... and of the block that is handled.                                   *)
LEMMA CurrentBlock ==
  ASSUME DocumentsOK, HandlersOK, NEW s \in Shards, acked[s] < Len(log[s])
  PROVE  /\ acked[s] + 1 \in DOMAIN log[s]
         /\ WellFormed(Block(s)) /\ DataOK(LogsData(s))
         /\ IsFiniteSet(ReceivedTokens(Block(s)))
<1>1. IsSeq(log[s]) /\ acked[s] \in Nat
  BY LogFacts DEF HandlersOK
<1>2. acked[s] + 1 \in DOMAIN log[s]
  <2> DEFINE q == log[s]
  <2>1. Len(q) \in Nat /\ DOMAIN q = 1..Len(q)
    BY <1>1, SeqIsFcn
  <2> QED BY <1>1, <2>1
<1>3. WellFormed(Block(s))
  BY <1>2, LogFacts DEF Block, Message
<1> DEFINE b == Block(s)
<1>4. DataOK(LogsData(s))
  <2> HIDE DEF b
  <2>1. WellFormed(b)
    BY <1>3 DEF b
  <2>2. DataOK(ExtractDataFromLogs(b, s))
    BY <2>1, LogsDataOK DEF WellFormed
  <2> QED BY <2>2 DEF LogsData, b
<1>5. IsFiniteSet(ReceivedTokens(b))
  <2> HIDE DEF b
  <2>1. WellFormed(b)
    BY <1>3 DEF b
  <2> DEFINE R == {r \in b.scrs : r.snd = MainChain}
             of(scr) == UNION {extractNewSovereignTokens(x) : x \in scr.tokens}
             f == [scr \in R |-> of(scr)]
  <2>2. ASSUME NEW scr \in R PROVE IsFiniteSet(of(scr))
    <3> DEFINE g == [x \in scr.tokens |-> extractNewSovereignTokens(x)]
    <3>1. IsFiniteSet(scr.tokens)
      BY <2>1 DEF WellFormed
    <3>2. g = [x \in scr.tokens |-> g[x]] /\ Range(g) = {extractNewSovereignTokens(x) : x \in scr.tokens}
      BY DEF Range
    <3>3. ASSUME NEW x \in scr.tokens PROVE IsFiniteSet(extractNewSovereignTokens(x))
      <4> DEFINE u == [Key("tokens", x.token, x.nonce, "") EXCEPT !.holder = x.prefix]
                 w == DocKey("tokens", x.token)
      <4>1. extractNewSovereignTokens(x) \in SUBSET {u, w}
        BY DEF extractNewSovereignTokens
      <4>2. IsFiniteSet({u} \cup {w})
        <5> HIDE DEF u, w
        <5> QED BY FS_Singleton, FS_AddElement
      <4>3. {u, w} = {u} \cup {w}
        OBVIOUS
      <4> HIDE DEF u, w
      <4> QED BY <4>1, <4>2, <4>3, FS_Subset
    <3>4. IsFiniteSet(Range(g))
      <4> HIDE DEF g
      <4> QED BY <3>1, <3>2, ImageFinite
    <3>5. \A T \in Range(g) : IsFiniteSet(T)
      BY <3>2, <3>3
    <3> HIDE DEF g
    <3>6. IsFiniteSet(UNION Range(g))
      BY <3>4, <3>5, FS_UNION
    <3> QED BY <3>2, <3>6
  <2>3. IsFiniteSet(R)
    BY <2>1, FS_Subset DEF WellFormed
  <2>4. f = [x \in R |-> f[x]] /\ ReceivedTokens(b) = UNION Range(f)
    BY DEF Range, ReceivedTokens
  <2>5. \A T \in Range(f) : IsFiniteSet(T)
    <3> HIDE DEF R, of
    <3> QED BY <2>2 DEF Range
  <2> HIDE DEF f, R
  <2>6. IsFiniteSet(Range(f))
    BY <2>3, <2>4, ImageFinite
  <2>7. IsFiniteSet(UNION Range(f))
    BY <2>5, <2>6, FS_UNION
  <2> QED BY <2>4, <2>7
<1> QED BY <1>2, <1>3, <1>4, <1>5

(* Where a handler is when it makes a request.                             *)
LEMMA AtPart ==
  ASSUME HandlersOK, NEW s \in Shards, NEW part, At(s, part)
  PROVE  /\ part \in SaveParts => Handles(s, "SaveBlock") /\ acked[s] < Len(log[s])
         /\ part \in {"types", "mainChain", "ack", "delegators"} => pc[s] = part
         /\ pc[s] \in {part, "idle"}
<1>1. CASE pc[s] = part
  BY <1>1 DEF HandlersOK, Handles
<1>2. CASE pc[s] = "idle" /\ Handles(s, "SaveBlock") /\ part = Parts[NextRequest(s, 1)]
  <2>1. NextRequest(s, 1) \in 1..8
    BY NextRequestIs
  <2>2. part \notin {"types", "mainChain", "ack", "delegators"}
    BY <1>2, <2>1, PartsAre
  <2> QED BY <1>2, <2>2 DEF Handles
<1> QED BY <1>1, <1>2 DEF At

(* The local variables at the request.                                     *)
LEMMA LocalIsOK ==
  ASSUME DocumentsOK, HandlersOK, NEW s \in Shards, Handles(s, "SaveBlock")
  PROVE  LocalOK(Local(s))
<1>1. CASE pc[s] # "idle"
  BY <1>1 DEF Local, HandlersOK
<1>2. CASE pc[s] = "idle"
  <2>1. WellFormed(Block(s)) /\ DataOK(LogsData(s)) /\ IsFiniteSet(local[s].txs)
    BY CurrentBlock DEF Handles, HandlersOK, LocalOK
  <2>2. Harmless(Buffered(s, 1, 1), CreatedBy(LogsData(s)))
    BY <2>1, BufferedHarmless
  <2>3. IsSeq(Buffered(s, 1, 1))
    BY <2>2 DEF Harmless
  <2>4. IsFiniteSet({})
    BY FS_EmptySet
  <2> QED BY <1>2, <2>3, <2>4 DEF Local, NoLocal, LocalOK
<1> QED BY <1>1, <1>2

\* Only the handler of s moved.
Moves(s) ==
  /\ local' = [local EXCEPT ![s] = local'[s]]
  /\ pc' = [pc EXCEPT ![s] = pc'[s]]
  /\ UNCHANGED <<log, acked>>

(* Going on to the next request appends harmless operations to the buffer; *)
(* when it goes to the bulk request, the block brought no tokens.          *)
LEMMA GoOnMoves ==
  ASSUME DocumentsOK, HandlersOK, NEW s \in Shards, Handles(s, "SaveBlock"),
         NEW part \in {"operations", "createInfo", "accountsESDT", "tokens", "burnInfo"},
         NEW l, LocalOK(l), GoOn(s, part, l), UNCHANGED <<log, acked>>
  PROVE  /\ Moves(s) /\ LocalOK(local'[s])
         /\ \E buf : local'[s].ops = l.ops \o buf /\ Harmless(buf, CreatedBy(LogsData(s)))
         /\ pc'[s] \in SaveParts \ {"mainChain"}
         /\ pc'[s] = "bulk" => ReceivedTokens(Block(s)) = {}
<1> DEFINE p == Position(part)
           n == NextRequest(s, p + 1)
           buf == Buffered(s, p, p + 1)
<1>1. p \in 2..6 /\ p \in 1..8 /\ p + 1 \in 1..8 /\ p <= p + 1
  BY PositionIs
<1>2. n \in 1..8 /\ \A i \in (p + 1)..8 : Requests(s, Parts[i]) => n <= i
  <2> HIDE DEF p
  <2> QED BY <1>1, NextRequestIs
<1>3. WellFormed(Block(s)) /\ DataOK(LogsData(s)) /\ IsFiniteSet(local[s].txs)
  BY CurrentBlock DEF Handles, HandlersOK, LocalOK
<1>4. Harmless(buf, CreatedBy(LogsData(s)))
  <2> HIDE DEF p
  <2> QED BY <1>1, <1>3, BufferedHarmless
<1>5. /\ local' = [local EXCEPT ![s] = [l EXCEPT !.ops = l.ops \o buf]]
      /\ pc' = [pc EXCEPT ![s] = Parts[n]]
  <2>1. [l EXCEPT !.ops = @ \o buf] = [l EXCEPT !.ops = l.ops \o buf]
    BY DEF LocalOK
  <2> QED BY <2>1 DEF GoOn, GoTo
<1> HIDE DEF n, buf
<1>6. local'[s] = [l EXCEPT !.ops = l.ops \o buf] /\ pc'[s] = Parts[n]
  BY <1>5 DEF HandlersOK
<1>7. IsSeq(l.ops \o buf)
  BY <1>4, ConcatSeq DEF LocalOK, Harmless
<1>8. LocalOK(local'[s]) /\ local'[s].ops = l.ops \o buf
  BY <1>6, <1>7 DEF LocalOK
<1>9. pc'[s] \in SaveParts \ {"mainChain"}
  BY <1>2, <1>6, PartsAre DEF SaveParts
<1>10. ASSUME pc'[s] = "bulk" PROVE ReceivedTokens(Block(s)) = {}
  <2>1. n = 8
    <3>1. \A i \in 1..8 : Parts[i] = "bulk" => i = 8
      BY PartsAre
    <3> QED BY <1>2, <1>6, <1>10, <3>1
  <2>2. ~Requests(s, Parts[7])
    BY <1>1, <1>2, <2>1
  <2> QED BY <2>2, PartsAre DEF Requests
<1>11. Moves(s)
  BY <1>5, <1>6 DEF Moves
<1> QED BY <1>4, <1>8, <1>9, <1>10, <1>11

(* A step of one handler keeps HandlersOK.                                 *)
LEMMA MovesOK ==
  ASSUME HandlersOK, NEW s \in Shards, Moves(s), LocalOK(local'[s]),
         \/ pc'[s] \in SaveParts \cup {"idle", "ack"}
         \/ pc'[s] \in RevertParts /\ Message(s).topic # "SaveBlock",
         pc'[s] \in SaveParts => Handles(s, "SaveBlock"),
         pc'[s] # "idle" => acked[s] < Len(log[s]),
         pc'[s] \notin SaveParts => local'[s] = NoLocal,
         pc'[s] = "mainChain" => local'[s].newTokens \subseteq ReceivedTokens(Block(s))
  PROVE  HandlersOK'
<1>1. acked' \in [Shards -> Nat] /\ pc' \in [Shards -> SaveParts \cup RevertParts \cup {"idle", "ack"}]
  BY DEF HandlersOK, Moves
<1>2. local' = [t \in Shards |-> local'[t]]
  BY DEF HandlersOK, Moves
<1>3. ASSUME NEW t \in Shards
      PROVE  /\ LocalOK(local'[t])
             /\ pc'[t] \in SaveParts => Handles(t, "SaveBlock")'
             /\ pc'[t] # "idle" => acked'[t] < Len(log'[t])
             /\ pc'[t] \notin SaveParts => local'[t] = NoLocal
             /\ pc'[t] \in RevertParts => Message(t)'.topic # "SaveBlock"
             /\ pc'[t] = "mainChain" => local'[t].newTokens \subseteq ReceivedTokens(Block(t)')
  <2>1. Block(t)' = Block(t) /\ Message(t)' = Message(t) /\ Handles(t, "SaveBlock")' = Handles(t, "SaveBlock")
        /\ acked' = acked /\ log' = log
    BY DEF Block, Message, Handles, Moves
  <2>2. CASE t = s
    <3>1. pc'[s] \in RevertParts => Message(s).topic # "SaveBlock"
      BY DEF SaveParts, RevertParts
    <3> QED BY <2>1, <2>2, <3>1, Zenon
  <2>3. CASE t # s
    <3>1. local'[t] = local[t] /\ pc'[t] = pc[t]
      BY <2>3 DEF Moves, HandlersOK
    <3>2. /\ LocalOK(local[t])
          /\ pc[t] \in SaveParts => Handles(t, "SaveBlock")
          /\ pc[t] # "idle" => acked[t] < Len(log[t])
          /\ pc[t] \notin SaveParts => local[t] = NoLocal
          /\ pc[t] \in RevertParts => Message(t).topic # "SaveBlock"
          /\ pc[t] = "mainChain" => local[t].newTokens \subseteq ReceivedTokens(Block(t))
      BY DEF HandlersOK
    <3> QED BY <2>1, <3>1, <3>2, Zenon
  <2> QED BY <2>2, <2>3
<1> QED BY <1>1, <1>2, <1>3 DEF HandlersOK

(* A handler without local variables.                                      *)
LEMMA NoLocalOK == LocalOK(NoLocal)
<1>1. IsFiniteSet({}) /\ IsSeq(<<>>)
  BY FS_EmptySet DEF IsSeq
<1> QED BY <1>1 DEF LocalOK, NoLocal

(* The first request of SaveTransactions fills the buffer.                 *)
LEMMA TransactionsMove ==
  ASSUME DocumentsOK, HandlersOK, NEW s \in Shards, indexTransactions(s)
  PROVE  /\ Moves(s) /\ LocalOK(local'[s]) /\ Handles(s, "SaveBlock")
         /\ Harmless(local'[s].ops, CreatedBy(LogsData(s)))
         /\ pc'[s] = "operations"
<1> DEFINE txs == PreparedTxs(Block(s), importDB, s)
           q == SerializeTransactions(txs, Block(s), s, "transactions")
<1>1. Handles(s, "SaveBlock") /\ acked[s] < Len(log[s])
  BY AtPart DEF indexTransactions, SaveParts
<1>2. IsFiniteSet(txs) /\ IsFiniteSet(Block(s).scrs)
  <2>1. WellFormed(Block(s))
    BY <1>1, CurrentBlock
  <2> QED BY <2>1, FS_Subset DEF WellFormed, PreparedTxs
<1>3. /\ local' = [local EXCEPT ![s] = [Local(s) EXCEPT !.txs = txs, !.ops = q]]
      /\ pc' = [pc EXCEPT ![s] = "operations"] /\ UNCHANGED <<log, acked>>
  BY DEF indexTransactions, GoTo
<1> HIDE DEF txs
<1>4. Harmless(q, CreatedBy(LogsData(s)))
  BY <1>2, TransactionsHarmless
<1> HIDE DEF q
<1>5. LocalOK(Local(s))
  BY <1>1, LocalIsOK
<1>6. local'[s] = [Local(s) EXCEPT !.txs = txs, !.ops = q] /\ pc'[s] = "operations"
  BY <1>3 DEF HandlersOK
<1>7. LocalOK(local'[s]) /\ local'[s].ops = q
  BY <1>2, <1>4, <1>5, <1>6 DEF LocalOK, Harmless
<1>8. Moves(s)
  BY <1>3, <1>6 DEF Moves
<1> QED BY <1>1, <1>4, <1>6, <1>7, <1>8

\* The steps that only put operations into the buffer.
Buffers(s) ==
  \/ prepareAndIndexOperations(s) \/ indexNFTCreateInfo(s) \/ saveAccountsESDT(s)
  \/ indexNFTBurnInfo(s)

\* What the handler of s does in a step of SaveTransactions that may search.
Continues(s) ==
  /\ Moves(s) /\ LocalOK(local'[s]) /\ Handles(s, "SaveBlock")
  /\ \E buf : local'[s].ops = Local(s).ops \o buf /\ Harmless(buf, CreatedBy(LogsData(s)))
  /\ pc'[s] \in SaveParts \ {"mainChain"}
  /\ pc'[s] = "bulk" => ReceivedTokens(Block(s)) = {}

(* The steps that put operations into the buffer go on like this,          *)
LEMMA BuffersMove ==
  ASSUME DocumentsOK, HandlersOK, NEW s \in Shards, Buffers(s)
  PROVE  Continues(s) /\ UNCHANGED <<log, acked, docs, visible, base, history>>
<1>1. PICK part \in {"operations", "createInfo", "accountsESDT", "burnInfo"},
           l \in {Local(s), Read(Local(s))} :
        /\ At(s, part) /\ GoOn(s, part, l)
        /\ UNCHANGED <<log, acked, docs, visible, base, history>>
  BY DEF Buffers, prepareAndIndexOperations, indexNFTCreateInfo, saveAccountsESDT, indexNFTBurnInfo
<1>2. Handles(s, "SaveBlock")
  BY <1>1, AtPart DEF SaveParts
<1>3. LocalOK(Local(s))
  BY <1>2, LocalIsOK
<1>4. LocalOK(l) /\ l.ops = Local(s).ops
  BY <1>3 DEF LocalOK, Read
<1>5. /\ Moves(s) /\ LocalOK(local'[s])
      /\ \E buf : local'[s].ops = l.ops \o buf /\ Harmless(buf, CreatedBy(LogsData(s)))
      /\ pc'[s] \in SaveParts \ {"mainChain"}
      /\ pc'[s] = "bulk" => ReceivedTokens(Block(s)) = {}
  BY <1>1, <1>2, <1>4, GoOnMoves
<1> QED BY <1>1, <1>2, <1>4, <1>5, Zenon DEF Continues

(* The empty sequence.                                                     *)
LEMMA EmptyIsSeq == IsSeq(<<>>)
<1> DEFINE S == Range(<<>>)
<1> HIDE DEF S
<1>1. <<>> \in Seq(S)
  OBVIOUS
<1> QED BY <1>1 DEF IsSeq, S

(* A sequence with nothing appended.                                       *)
LEMMA ConcatEmpty ==
  ASSUME NEW q, IsSeq(q)
  PROVE  q \o <<>> = q
<1> DEFINE S == Range(q)
<1>1. q \in Seq(S)
  BY DEF IsSeq
<1> HIDE DEF S
<1> QED BY <1>1

(* Operations that are executed come after the ones before them.           *)
LEMMA ExecutedIs ==
  ASSUME IsSeq(history), NEW s, NEW ops, IsSeq(ops)
  PROVE  /\ IsSeq(Executed(s, ops))
         /\ Len(Executed(s, ops)) = Len(history) + Len(ops)
         /\ \A h \in DOMAIN history : h \in DOMAIN Executed(s, ops) /\ Executed(s, ops)[h] = history[h]
         /\ \A i \in DOMAIN ops : /\ Len(history) + i \in DOMAIN Executed(s, ops)
                                  /\ Executed(s, ops)[Len(history) + i] = Entry(s, ops[i])
         /\ \A h \in DOMAIN Executed(s, ops) :
              h \in DOMAIN history \/ h - Len(history) \in DOMAIN ops
<1> DEFINE q == [i \in DOMAIN ops |-> Entry(s, ops[i])]
           n == Len(ops)
           e == history \o q
<1>1. n \in Nat /\ DOMAIN ops = 1..n
  BY SeqIsFcn
<1>2. q = [i \in 1..n |-> q[i]] /\ \A i \in 1..n : q[i] = Entry(s, ops[i])
  BY <1>1
<1>3. Executed(s, ops) = e
  BY DEF Executed
<1> HIDE DEF q
<1>4. IsSeq(q) /\ Len(q) = n
  BY <1>1, <1>2, FcnIsSeq
<1>5. /\ IsSeq(e) /\ Len(e) = Len(history) + n
      /\ \A i \in 1..Len(history) : e[i] = history[i]
      /\ \A i \in 1..n : e[Len(history) + i] = q[i]
      /\ \A i \in DOMAIN e : i \in 1..Len(history) \/ i - Len(history) \in 1..n
  BY <1>4, ConcatSeq
<1> HIDE DEF e
<1>6. DOMAIN e = 1..(Len(history) + n) /\ Len(history) \in Nat /\ DOMAIN history = 1..Len(history)
  BY <1>5, SeqIsFcn
<1> HIDE DEF n
<1>7. /\ IsSeq(e) /\ Len(e) = Len(history) + n
      /\ \A h \in DOMAIN history : h \in DOMAIN e /\ e[h] = history[h]
      /\ \A i \in DOMAIN ops : Len(history) + i \in DOMAIN e /\ e[Len(history) + i] = Entry(s, ops[i])
      /\ \A h \in DOMAIN e : h \in DOMAIN history \/ h - Len(history) \in DOMAIN ops
  BY <1>1, <1>2, <1>5, <1>6
<1> QED BY <1>3, <1>7, Zenon DEF n

(* If the history says that a token was only copied, it said so before the *)
(* last operations, and they do not say otherwise.                         *)
LEMMA CopiedBefore ==
  ASSUME IsSeq(history), NEW s, NEW ops, IsSeq(ops), history' = Executed(s, ops), log' = log,
         NEW k, OnlyCopied(k)'
  PROVE  /\ OnlyCopied(k)
         /\ \A i \in DOMAIN ops : (ops[i].key = k /\ ops[i].script \notin {"search", "failed"}) =>
              ops[i].script = "index" /\ k \notin CreatedBy(LogsData(s))
<1>1. \A t, i : NFTsCreated(t, i)' = NFTsCreated(t, i)
  BY DEF NFTsCreated, DataAt, BlockAt
<1>2. \A h \in DOMAIN history' : (history'[h].key = k /\ history'[h].script \notin {"search", "failed"}) =>
        history'[h].script = "index" /\ k \notin NFTsCreated(history'[h].shard, history'[h].msg)
  BY <1>1 DEF OnlyCopied
<1>3. \A h \in DOMAIN history : h \in DOMAIN history' /\ history'[h] = history[h]
  BY ExecutedIs
<1>4. OnlyCopied(k)
  BY <1>2, <1>3 DEF OnlyCopied
<1>5. ASSUME NEW i \in DOMAIN ops, ops[i].key = k, ops[i].script \notin {"search", "failed"}
      PROVE  ops[i].script = "index" /\ k \notin CreatedBy(LogsData(s))
  <2> DEFINE h == Len(history) + i
             e == history'[h]
  <2>1. h \in DOMAIN history' /\ e = Entry(s, ops[i])
    BY ExecutedIs
  <2>2. e.key = k /\ e.script = ops[i].script /\ e.shard = s /\ e.msg = acked[s] + 1
    BY <1>5, <2>1 DEF Entry
  <2>3. NFTsCreated(s, acked[s] + 1) = CreatedBy(LogsData(s))
    BY DEF NFTsCreated, DataAt, BlockAt, CreatedBy, LogsData, Block, Message
  <2> HIDE DEF h
  <2>4. (e.key = k /\ e.script \notin {"search", "failed"}) => e.script = "index" /\ k \notin NFTsCreated(e.shard, e.msg)
    BY <1>2, <2>1
  <2> HIDE DEF e
  <2> QED BY <1>5, <2>2, <2>3, <2>4
<1> QED BY <1>4, <1>5

(* Nothing in a buffer.                                                    *)
LEMMA NothingHarmless ==
  ASSUME NEW X
  PROVE  Harmless(<<>>, X)
<1>1. DOMAIN <<>> = {}
  OBVIOUS
<1> QED BY <1>1, EmptyIsSeq, Zenon DEF Harmless

\* The results of a search, and the searches that are left.
WithResults(l, left, found, seen) == [l EXCEPT !.searches = left, !.found = found, !.seen = seen]

(* They leave the other local variables alone.                             *)
LEMMA ResultsOK ==
  ASSUME NEW l, LocalOK(l), NEW left, NEW found, IsFiniteSet(found), NEW seen
  PROVE  /\ LocalOK(WithResults(l, left, found, seen))
         /\ WithResults(l, left, found, seen).ops = l.ops
<1> DEFINE after == WithResults(l, left, found, seen)
<1>1. l = [read |-> l.read, txs |-> l.txs, ops |-> l.ops, searches |-> l.searches,
           found |-> l.found, seen |-> l.seen, newTokens |-> l.newTokens]
      /\ IsFiniteSet(l.txs) /\ IsSeq(l.ops)
  BY DEF LocalOK
<1>2. after = [x \in DOMAIN l |-> IF x = "seen" THEN seen ELSE IF x = "found" THEN found
                                  ELSE IF x = "searches" THEN left ELSE l[x]]
  BY <1>1 DEF WithResults
<1> HIDE DEF after
<1>3. after = [read |-> l.read, txs |-> l.txs, ops |-> l.ops, searches |-> left,
               found |-> found, seen |-> seen, newTokens |-> l.newTokens]
  BY <1>1, <1>2
<1>4. LocalOK(after) /\ after.ops = l.ops
  BY <1>1, <1>3 DEF LocalOK
<1> QED BY <1>4 DEF after

(* A handler goes on if it leaves its buffer alone,                        *)
LEMMA StaysContinues ==
  ASSUME DocumentsOK, HandlersOK, NEW s \in Shards, Handles(s, "SaveBlock"),
         NEW l, LocalOK(l), l.ops = Local(s).ops, NEW c \in {"tokens", "types"},
         local' = [local EXCEPT ![s] = l], GoTo(s, c), UNCHANGED <<log, acked>>
  PROVE  Continues(s)
<1>1. local'[s] = l /\ pc' = [pc EXCEPT ![s] = c] /\ pc'[s] = c
  BY DEF HandlersOK, GoTo
<1>2. Moves(s)
  BY <1>1 DEF Moves
<1>3. Local(s).ops \o <<>> = Local(s).ops
  BY LocalIsOK, ConcatEmpty DEF LocalOK
<1>4. \E buf : local'[s].ops = Local(s).ops \o buf /\ Harmless(buf, CreatedBy(LogsData(s)))
  BY <1>1, <1>3, NothingHarmless, Zenon
<1>5. pc'[s] \in SaveParts \ {"mainChain"} /\ pc'[s] # "bulk"
  BY <1>1 DEF SaveParts
<1> QED BY <1>1, <1>2, <1>4, <1>5, Zenon DEF Continues

(* ... and if it turns to its next search, or to what comes after the last *)
(* one.                                                                    *)
LEMMA NextSearchContinues ==
  ASSUME DocumentsOK, HandlersOK, NEW s \in Shards, Handles(s, "SaveBlock"),
         NEW left, NextSearch(s, Local(s), left), UNCHANGED <<log, acked>>
  PROVE  Continues(s)
<1> DEFINE l == Local(s)
           after == WithResults(l, left, {}, {})
<1>1. IF left = <<>> THEN GoOn(s, "tokens", after)
      ELSE local' = [local EXCEPT ![s] = after] /\ GoTo(s, "tokens")
  BY DEF NextSearch, WithResults
<1>2. LocalOK(l)
  BY LocalIsOK
<1> HIDE DEF l
<1>3. LocalOK(after) /\ after.ops = l.ops
  BY <1>2, FS_EmptySet, ResultsOK
<1> HIDE DEF after
<1>4. CASE left = <<>>
  <2>1. GoOn(s, "tokens", after)
    BY <1>1, <1>4
  <2>2. /\ Moves(s) /\ LocalOK(local'[s])
        /\ \E buf : local'[s].ops = after.ops \o buf /\ Harmless(buf, CreatedBy(LogsData(s)))
        /\ pc'[s] \in SaveParts \ {"mainChain"}
        /\ pc'[s] = "bulk" => ReceivedTokens(Block(s)) = {}
    BY <1>3, <2>1, GoOnMoves
  <2> QED BY <1>3, <2>2, Zenon DEF Continues, l
<1>5. CASE left # <<>>
  BY <1>1, <1>3, <1>5, StaysContinues DEF l
<1> QED BY <1>4, <1>5

(* The search for documents without a type goes on like this, and writes   *)
(* nothing.                                                                *)
LEMMA TokensMove ==
  ASSUME DocumentsOK, HandlersOK, NEW s \in Shards, indexTokens(s)
  PROVE  /\ Continues(s) /\ UNCHANGED <<log, acked, docs, visible, base>>
         /\ \/ history' = history
            \/ \E search : history' = Executed(s, <<search>>)
<1> DEFINE l == Local(s)
           x == Head(l.searches)
           found == WithoutType(InIndex(visible, x.index), x.token)
           seen == Untyped(x.index)
           after == WithResults(l, l.searches, found, seen)
<1>1. /\ At(s, "tokens")
      /\ IF found = {}
           THEN /\ NextSearch(s, l, AfterEmptySearch(l.searches))
                /\ history' = Executed(s, <<Search(x, seen)>>)
           ELSE /\ local' = [local EXCEPT ![s] = [l EXCEPT !.found = found, !.seen = seen]]
                /\ GoTo(s, "types")
                /\ UNCHANGED history
      /\ UNCHANGED <<log, acked, docs, visible, base>>
  BY DEF indexTokens
<1>2. Handles(s, "SaveBlock")
  BY <1>1, AtPart DEF SaveParts
<1>3. LocalOK(l)
  BY <1>2, LocalIsOK
<1>4. IsFiniteSet(found)
  <2>1. found \in SUBSET DOMAIN visible
    BY DEF WithoutType, InIndex, Restrict
  <2> HIDE DEF found
  <2> QED BY <2>1, FS_Subset DEF DocumentsOK
<1>5. CASE found = {}
  <2>1. NextSearch(s, Local(s), AfterEmptySearch(l.searches)) /\ history' = Executed(s, <<Search(x, seen)>>)
    BY <1>1, <1>5
  <2>2. Continues(s)
    BY <1>1, <1>2, <2>1, NextSearchContinues
  <2> QED BY <1>1, <2>1, <2>2
<1>6. CASE found # {}
  <2> HIDE DEF found, seen, l
  <2>0. after = [l EXCEPT !.found = found, !.seen = seen]
    BY <1>3 DEF LocalOK, WithResults
  <2>1. LocalOK(after) /\ after.ops = l.ops
    BY <1>3, <1>4, ResultsOK
  <2> HIDE DEF after
  <2>2. local' = [local EXCEPT ![s] = after] /\ GoTo(s, "types") /\ UNCHANGED <<log, acked, history>>
    BY <1>1, <1>6, <2>0
  <2>3. Continues(s)
    BY <1>2, <2>1, <2>2, StaysContinues DEF l
  <2> QED BY <1>1, <2>2, <2>3
<1> QED BY <1>5, <1>6

(* What is written for the documents that a search found: types only.      *)
LEMMA TypeOpsAre ==
  ASSUME NEW l, IsFiniteSet(l.found)
  PROVE  IsSeq(TypeOps(l)) /\ \A i \in DOMAIN TypeOps(l) : TypeOps(l)[i].script = "type"
<1> DEFINE n == Cardinality(l.found)
           ops == TypeOps(l)
<1>1. n \in Nat
  BY SetSize
<1>2. ops = [i \in 1..n |-> ops[i]] /\ \A i \in 1..n : ops[i].script = "type"
  BY DEF TypeOps, SerializeTypeForProvidedIDs, ForEach, Operation
<1> HIDE DEF ops, n
<1>3. IsSeq(ops) /\ DOMAIN ops = 1..n
  BY <1>1, <1>2, FcnIsSeq
<1> QED BY <1>2, <1>3 DEF ops

(* The handler that writes them goes on, too.                              *)
LEMMA TypesMove ==
  ASSUME DocumentsOK, HandlersOK, NEW s \in Shards, addTokenType(s)
  PROVE  /\ Continues(s) /\ UNCHANGED <<log, acked, visible, base>>
         /\ \E search, ops :
              /\ IsSeq(ops) /\ IsSeq(<<search>> \o ops)
              /\ \A i \in DOMAIN ops : ops[i].script = "type"
              /\ docs' = BulkResult(docs, ops)
              /\ history' = Executed(s, <<search>> \o ops)
<1> DEFINE ops == TypeOps(local[s])
           search == Search(Head(local[s].searches), local[s].seen)
<1>1. /\ At(s, "types")
      /\ docs' = BulkResult(docs, ops)
      /\ history' = Executed(s, <<search>> \o ops)
      /\ NextSearch(s, local[s], Tail(local[s].searches))
      /\ UNCHANGED <<log, acked, visible, base>>
  BY DEF addTokenType
<1>2. Handles(s, "SaveBlock") /\ pc[s] = "types"
  BY <1>1, AtPart DEF SaveParts
<1>3. Local(s) = local[s] /\ LocalOK(local[s])
  BY <1>2 DEF Local, HandlersOK
<1>4. IsSeq(ops) /\ \A i \in DOMAIN ops : ops[i].script = "type"
  <2>1. IsFiniteSet(local[s].found)
    BY <1>3 DEF LocalOK
  <2> QED BY <2>1, TypeOpsAre
<1> HIDE DEF ops, search
<1>5. IsSeq(<<search>> \o ops)
  <2>1. <<search>> = [i \in 1..1 |-> <<search>>[i]] /\ 1 \in Nat
    OBVIOUS
  <2>2. IsSeq(<<search>>)
    BY <2>1, FcnIsSeq
  <2> QED BY <1>4, <2>2, ConcatSeq
<1>6. Continues(s)
  BY <1>1, <1>2, <1>3, NextSearchContinues
<1> QED BY <1>1, <1>4, <1>5, <1>6

(* serializeNewTokens copies every token that the main chain has, and      *)
(* gives an operation without id for the others.                           *)
LEMMA NewTokensSerialized ==
  ASSUME NEW K, IsFiniteSet(K)
  PROVE  /\ IsSeq(serializeNewTokens(K))
         /\ \A i \in DOMAIN serializeNewTokens(K) :
              LET op == serializeNewTokens(K)[i] IN
              /\ op.script = "index"
              /\ \/ op.key = NoId
                 \/ /\ op.key \in K /\ op.key \in DOMAIN MainChainTokens
                    /\ op.params = formatToken(MainChainTokens[op.key])
         /\ \A k \in K : k \in DOMAIN MainChainTokens =>
              \E i \in DOMAIN serializeNewTokens(K) : serializeNewTokens(K)[i].key = k
<1> DEFINE n == Cardinality(K)
           f == SetToSeq(K)
           op(k) == IF DoGet(MainChainTokens, k) = NoDoc THEN Operation(NoId, "index", EmptyDoc)
                    ELSE Operation(k, "index", formatToken(DoGet(MainChainTokens, k)))
           q == serializeNewTokens(K)
<1>1. n \in Nat /\ (\A i \in 1..n : f[i] \in K) /\ \A k \in K : \E i \in 1..n : f[i] = k
  BY SetToSeqIsFcn
<1>2. q = [i \in 1..n |-> op(f[i])]
  BY DEF serializeNewTokens, ForEach
<1>3. \A k : /\ k \in DOMAIN MainChainTokens => op(k) = Operation(k, "index", formatToken(MainChainTokens[k]))
             /\ k \notin DOMAIN MainChainTokens => op(k) = Operation(NoId, "index", EmptyDoc)
  BY MainChainAssumption DEF DoGet
<1> HIDE DEF q, n, f, op
<1>4. q = [i \in 1..n |-> q[i]]
  BY <1>2
<1>5. IsSeq(q) /\ DOMAIN q = 1..n
  BY <1>1, <1>4, FcnIsSeq
<1>6. ASSUME NEW i \in 1..n
      PROVE  /\ q[i].script = "index"
             /\ \/ q[i].key = NoId
                \/ /\ q[i].key \in K /\ q[i].key \in DOMAIN MainChainTokens
                   /\ q[i].params = formatToken(MainChainTokens[q[i].key])
  BY <1>1, <1>2, <1>3 DEF Operation
<1>7. ASSUME NEW k \in K, k \in DOMAIN MainChainTokens
      PROVE  \E i \in 1..n : q[i].key = k
  BY <1>1, <1>2, <1>3, <1>7 DEF Operation
<1> QED BY <1>5, <1>6, <1>7 DEF q
-----------------------------------------------------------------------------
(***************************************************************************)
(* The copies of one token.                                                *)
(***************************************************************************)
\* The document that is copied from the main chain.
Copy(k) == formatToken(MainChainTokens[k])

\* The operations of a buffer that replace the document of k: the NFT was
\* created here, or the document is copied from the main chain and was not
\* there at the beginning.
BufferOK(k, s, ops) ==
  \A i \in DOMAIN ops :
    /\ ops[i].script # "search"
    /\ (ops[i].key = k /\ ops[i].script = "index") =>
         \/ k \in CreatedBy(LogsData(s))
         \/ k \notin DOMAIN base /\ k \in DOMAIN MainChainTokens /\ ops[i].params = Copy(k)

\* There is a document; the block brought the token; the main chain has it.
Known(k) == k \in DOMAIN docs
Brought(k, b) == k \in ReceivedTokens(b)
OnMainChain(k) == k \in DOMAIN MainChainTokens

\* A handler that asks the main chain has the tokens that were not there, and
\* at the bulk request the copies of those that are still missing; a handled
\* block left no token out.
HandlerOf(k, s) ==
  /\ BufferOK(k, s, local[s].ops)
  /\ (pc[s] = "mainChain" /\ Brought(k, Block(s))) =>
       IF k \in local[s].newTokens THEN k \notin DOMAIN base ELSE Known(k)
  /\ (pc[s] = "bulk" /\ Brought(k, Block(s)) /\ OnMainChain(k)) =>
       Known(k) \/ \E i \in DOMAIN local[s].ops : Replaces(local[s].ops[i], k)
  /\ (pc[s] = "ack" /\ Message(s).topic = "SaveBlock" /\ Brought(k, Block(s)) /\ OnMainChain(k)) =>
       Known(k)

\* The document of k: the one of the beginning, or else a copy if there is
\* one.
DocOf(k) ==
  IF k \in DOMAIN base THEN Known(k) /\ docs[k] = base[k]
  ELSE Known(k) => OnMainChain(k) /\ docs[k] = Copy(k)

\* No acknowledged block left a token out that the main chain has.
AckedOf(k) ==
  \A p \in Places : (IsAcked(p) /\ Brought(k, BlockOf(p)) /\ OnMainChain(k)) => Known(k)

CopiesOK(k) == DocOf(k) /\ AckedOf(k) /\ \A s \in Shards : HandlerOf(k, s)

(* Buffers may be concatenated.                                            *)
LEMMA BufferConcat ==
  ASSUME NEW k, NEW s, NEW a, NEW b, IsSeq(a), IsSeq(b), BufferOK(k, s, a), BufferOK(k, s, b)
  PROVE  BufferOK(k, s, a \o b)
<1>1. \A i \in DOMAIN (a \o b) : \/ i \in DOMAIN a /\ (a \o b)[i] = a[i]
                                 \/ \E j \in DOMAIN b : (a \o b)[i] = b[j]
  BY ConcatElements
<1> QED BY <1>1 DEF BufferOK

(* Harmless operations may be in a buffer.                                 *)
LEMMA HarmlessBuffer ==
  ASSUME NEW k, k.index = "tokens", NEW s, NEW q, Harmless(q, CreatedBy(LogsData(s)))
  PROVE  BufferOK(k, s, q)
BY DEF Harmless, BufferOK

(* A step of one handler keeps what is known of the others, as long as no  *)
(* document is lost.                                                       *)
LEMMA OthersKeep ==
  ASSUME HandlersOK, NEW s \in Shards, Moves(s), base' = base, NEW k, Known(k) => Known(k)',
         NEW t \in Shards, t # s, HandlerOf(k, t)
  PROVE  HandlerOf(k, t)'
<1>1. local'[t] = local[t] /\ pc'[t] = pc[t] /\ base' = base
  BY DEF Moves, HandlersOK
<1>2. Block(t)' = Block(t) /\ Message(t)' = Message(t) /\ LogsData(t)' = LogsData(t)
  BY DEF Moves, Block, Message, LogsData
<1>3. BufferOK(k, t, local[t].ops)'
  BY <1>1, <1>2 DEF HandlerOf, BufferOK, Copy
<1>4. /\ (pc[t] = "mainChain" /\ Brought(k, Block(t))) =>
           IF k \in local[t].newTokens THEN k \notin DOMAIN base ELSE Known(k)
      /\ (pc[t] = "bulk" /\ Brought(k, Block(t)) /\ OnMainChain(k)) =>
           Known(k) \/ \E i \in DOMAIN local[t].ops : Replaces(local[t].ops[i], k)
      /\ (pc[t] = "ack" /\ Message(t).topic = "SaveBlock" /\ Brought(k, Block(t)) /\ OnMainChain(k)) =>
           Known(k)
  BY DEF HandlerOf
<1>5. /\ (pc'[t] = "mainChain" /\ Brought(k, Block(t)')) =>
           IF k \in local'[t].newTokens THEN k \notin DOMAIN base' ELSE Known(k)'
      /\ (pc'[t] = "bulk" /\ Brought(k, Block(t)') /\ OnMainChain(k)) =>
           Known(k)' \/ \E i \in DOMAIN local'[t].ops : Replaces(local'[t].ops[i], k)
      /\ (pc'[t] = "ack" /\ Message(t)'.topic = "SaveBlock" /\ Brought(k, Block(t)') /\ OnMainChain(k)) =>
           Known(k)'
  BY <1>1, <1>2, <1>4, Zenon
<1>6. Brought(k, Block(t))' = Brought(k, Block(t)') /\ OnMainChain(k)' = OnMainChain(k)
  BY DEF Brought, OnMainChain
<1> QED BY <1>3, <1>5, <1>6, Zenon DEF HandlerOf, Replaces

(* ... and what is known of the acknowledged blocks.                       *)
LEMMA AckedKeep ==
  ASSUME UNCHANGED <<log, acked>>, NEW k, Known(k) => Known(k)', AckedOf(k)
  PROVE  AckedOf(k)'
<1>1. Places' = Places /\ \A p : IsAcked(p)' = IsAcked(p) /\ BlockOf(p)' = BlockOf(p)
  BY DEF Places, IsAcked, BlockOf
<1> QED BY <1>1 DEF AckedOf, Brought, OnMainChain

(* A bulk request of a good buffer keeps the document of k, and writes it  *)
(* if it is in the buffer and does not fail.                               *)
LEMMA BulkKeeps ==
  ASSUME DocumentsOK, NEW k, NEW s, NEW ops, IsSeq(ops), BufferOK(k, s, ops), DocOf(k),
         docs' = BulkResult(docs, ops), base' = base,
         \A i \in DOMAIN ops : (ops[i].key = k /\ ops[i].script \notin {"search", "failed"}) =>
           ops[i].script = "index" /\ k \notin CreatedBy(LogsData(s))
  PROVE  /\ DocOf(k)'
         /\ Known(k) => Known(k)'
         /\ (\E i \in DOMAIN ops : Replaces(ops[i], k)) => Known(k)'
<1>1. \A i \in DOMAIN ops : ops[i].key = k =>
        \/ ops[i].script = "failed"
        \/ /\ ops[i].script = "index" /\ k \notin DOMAIN base /\ k \in DOMAIN MainChainTokens
           /\ ops[i].params = Copy(k)
  BY DEF BufferOK
<1>2. k \in DOMAIN docs => docs[k] # NoDoc
  BY LogFacts, MainChainAssumption DEF DocOf, Known, OnMainChain, Copy
<1>3. CASE \E i \in DOMAIN ops : Replaces(ops[i], k)
  <2>1. k \notin DOMAIN base /\ k \in DOMAIN MainChainTokens
    BY <1>1, <1>3 DEF Replaces
  <2>2. Copy(k) # NoDoc
    BY <2>1, MainChainAssumption DEF Copy
  <2>3. OnlyReplaces(ops, k, Copy(k))
    BY <1>1 DEF OnlyReplaces
  <2>4. k \in DOMAIN docs' /\ docs'[k] = Copy(k)
    BY <1>2, <1>3, <2>2, <2>3, BulkCopies
  <2> QED BY <2>1, <2>4 DEF DocOf, Known, OnMainChain, Copy
<1>4. CASE ~\E i \in DOMAIN ops : Replaces(ops[i], k)
  <2>1. PICK v \in {{}, {{}}} : v # NoDoc
    OBVIOUS
  <2>2. OnlyReplaces(ops, k, v)
    BY <1>1, <1>4 DEF OnlyReplaces, Replaces
  <2>3. /\ k \in DOMAIN docs' <=> k \in DOMAIN docs
        /\ k \in DOMAIN docs => docs'[k] = docs[k]
    BY <1>2, <1>4, <2>1, <2>2, BulkCopies
  <2> QED BY <1>4, <2>3 DEF DocOf, Known, OnMainChain, Copy
<1> QED BY <1>3, <1>4

(* What the steps that write nothing leave alone: the documents,           *)
LEMMA SameDocuments ==
  ASSUME DocumentsOK, UNCHANGED <<log, base, docs, visible, history>>
  PROVE  DocumentsOK'
BY DEF DocumentsOK

(* A bulk request keeps DocumentsOK.                                       *)
LEMMA WrittenDocuments ==
  ASSUME DocumentsOK, UNCHANGED <<log, base, visible>>, NEW s, NEW ops, NEW recorded,
         IsSeq(ops), IsSeq(recorded), docs' = BulkResult(docs, ops), history' = Executed(s, recorded)
  PROVE  DocumentsOK'
<1>1. IsSeq(history')
  BY ExecutedIs DEF DocumentsOK
<1>2. IsFiniteSet(DOMAIN docs')
  BY BulkFinite DEF DocumentsOK
<1> QED BY <1>1, <1>2 DEF DocumentsOK

(* ... what the history says of k,                                         *)
LEMMA SameCopied ==
  ASSUME UNCHANGED <<log, history>>, NEW k
  PROVE  OnlyCopied(k)' = OnlyCopied(k)
BY DEF OnlyCopied, NFTsCreated, DataAt, BlockAt

(* ... and the document of k.                                              *)
LEMMA SameDoc ==
  ASSUME UNCHANGED <<base, docs>>, NEW k
  PROVE  DocOf(k)' = DocOf(k) /\ Known(k)' = Known(k)
BY DEF DocOf, Known, OnMainChain, Copy

(* A step of the handler of s keeps CopiesOK if it keeps what is said of s *)
(* and of the document.                                                    *)
LEMMA CopyMove ==
  ASSUME HandlersOK, NEW s \in Shards, Moves(s), base' = base, NEW k, Known(k) => Known(k)',
         CopiesOK(k), DocOf(k)', HandlerOf(k, s)'
  PROVE  CopiesOK(k)'
<1>1. ASSUME NEW t \in Shards PROVE HandlerOf(k, t)'
  <2>1. HandlerOf(k, t)
    BY DEF CopiesOK
  <2>2. CASE t = s
    BY <2>2, Zenon
  <2>3. CASE t # s
    BY <2>1, <2>3, OthersKeep
  <2> QED BY <2>2, <2>3
<1>2. AckedOf(k)'
  BY AckedKeep DEF CopiesOK, Moves
<1> QED BY <1>1, <1>2, Zenon DEF CopiesOK

(* The block of a handler that moves is the same,                          *)
LEMMA SameBlock ==
  ASSUME NEW s, Moves(s)
  PROVE  /\ Block(s)' = Block(s) /\ Message(s)' = Message(s) /\ LogsData(s)' = LogsData(s)
         /\ \A topic : Handles(s, topic)' = Handles(s, topic)
BY DEF Moves, Block, Message, LogsData, Handles

(* ... and what is said of its buffer.                                     *)
LEMMA SameBuffer ==
  ASSUME NEW s, Moves(s), base' = base, NEW k, BufferOK(k, s, local'[s].ops)
  PROVE  BufferOK(k, s, local[s].ops)'
BY SameBlock DEF BufferOK, Copy

(* Nothing is in the buffer of a handler without local variables.          *)
LEMMA EmptyBuffer ==
  ASSUME NEW s, NEW k
  PROVE  BufferOK(k, s, NoLocal.ops)
<1>1. NoLocal.ops = <<>> /\ DOMAIN <<>> = {}
  BY DEF NoLocal
<1> QED BY <1>1 DEF BufferOK

(* The buffer at a request, also when it is the first one.                 *)
LEMMA LocalBuffer ==
  ASSUME DocumentsOK, HandlersOK, NEW s \in Shards, Handles(s, "SaveBlock"),
         NEW k, k.index = "tokens", HandlerOf(k, s)
  PROVE  BufferOK(k, s, Local(s).ops)
<1>1. CASE pc[s] # "idle"
  BY <1>1 DEF Local, HandlerOf
<1>2. CASE pc[s] = "idle"
  <2>1. WellFormed(Block(s)) /\ DataOK(LogsData(s)) /\ IsFiniteSet(local[s].txs)
    BY CurrentBlock DEF Handles, HandlersOK, LocalOK
  <2>2. Harmless(Buffered(s, 1, 1), CreatedBy(LogsData(s)))
    BY <2>1, BufferedHarmless
  <2>3. Local(s).ops = Buffered(s, 1, 1)
    BY <1>2 DEF Local, NoLocal
  <2> QED BY <2>2, <2>3, HarmlessBuffer, Zenon
<1> QED BY <1>1, <1>2

(* A handler that goes on keeps its types,                                 *)
LEMMA ContinuesTypes ==
  ASSUME HandlersOK, NEW s \in Shards, Continues(s)
  PROVE  HandlersOK'
<1>1. acked[s] < Len(log[s])
  BY DEF Continues, Handles
<1>2. pc'[s] \in SaveParts /\ pc'[s] # "mainChain"
  BY DEF Continues
<1> QED BY <1>1, <1>2, MovesOK DEF Continues

(* ... and the copies.                                                     *)
LEMMA ContinuesKeep ==
  ASSUME DocumentsOK, HandlersOK, NEW s \in Shards, Continues(s), base' = base,
         NEW k, k.index = "tokens", Known(k) => Known(k)', CopiesOK(k), DocOf(k)'
  PROVE  CopiesOK(k)'
<1>1. Moves(s) /\ Handles(s, "SaveBlock")
  BY DEF Continues
<1>2. PICK buf : local'[s].ops = Local(s).ops \o buf /\ Harmless(buf, CreatedBy(LogsData(s)))
  BY DEF Continues
<1>3. BufferOK(k, s, Local(s).ops) /\ BufferOK(k, s, buf)
  BY <1>1, <1>2, LocalBuffer, HarmlessBuffer DEF CopiesOK
<1>4. IsSeq(Local(s).ops) /\ IsSeq(buf)
  BY <1>1, <1>2, LocalIsOK DEF LocalOK, Harmless
<1>5. BufferOK(k, s, Local(s).ops \o buf)
  BY <1>3, <1>4, BufferConcat
<1>6. BufferOK(k, s, local'[s].ops)
  BY <1>2, <1>5, Zenon
<1>7. BufferOK(k, s, local[s].ops)'
  BY <1>1, <1>6, SameBuffer
<1>8. pc'[s] \notin {"mainChain", "ack"} /\ (pc'[s] = "bulk" => ReceivedTokens(Block(s)) = {})
  BY DEF Continues, SaveParts
<1>9. Block(s)' = Block(s)
  BY <1>1, SameBlock
<1>10. HandlerOf(k, s)'
  BY <1>7, <1>8, <1>9 DEF HandlerOf, Brought
<1> QED BY <1>1, <1>10, CopyMove

\* The invariant of one token.
Invs(k) == DocumentsOK /\ HandlersOK /\ (OnlyCopied(k) => CopiesOK(k))
-----------------------------------------------------------------------------
(***************************************************************************)
(* The steps.                                                              *)
(***************************************************************************)
(* indexTransactions keeps the invariant,                                  *)
LEMMA TransactionsStep ==
  ASSUME NEW k, k.index = "tokens", Invs(k), NEW s \in Shards, indexTransactions(s)
  PROVE  Invs(k)'
<1>1. /\ Moves(s) /\ LocalOK(local'[s]) /\ Handles(s, "SaveBlock")
      /\ Harmless(local'[s].ops, CreatedBy(LogsData(s)))
      /\ pc'[s] = "operations"
  BY TransactionsMove DEF Invs
<1>2. UNCHANGED <<log, base, docs, visible, history>>
  BY DEF indexTransactions
<1>3. HandlersOK'
  <2>1. pc'[s] \in SaveParts /\ acked[s] < Len(log[s]) /\ pc'[s] # "mainChain"
    BY <1>1 DEF SaveParts, Handles
  <2> QED BY <1>1, <2>1, MovesOK DEF Invs
<1>4. ASSUME CopiesOK(k) PROVE CopiesOK(k)'
  <2>1. BufferOK(k, s, local[s].ops)'
    BY <1>1, <1>2, HarmlessBuffer, SameBuffer
  <2>2. HandlerOf(k, s)'
    BY <1>1, <2>1 DEF HandlerOf
  <2> QED BY <1>1, <1>2, <1>4, <2>2, SameDoc, CopyMove DEF Invs, CopiesOK
<1> QED BY <1>2, <1>3, <1>4, SameDocuments, SameCopied DEF Invs

(* ... and so do the steps that put operations into the buffer,            *)
LEMMA BuffersStep ==
  ASSUME NEW k, k.index = "tokens", Invs(k), NEW s \in Shards, Buffers(s)
  PROVE  Invs(k)'
<1>1. Continues(s) /\ UNCHANGED <<log, acked, docs, visible, base, history>>
  BY BuffersMove DEF Invs
<1>2. HandlersOK'
  BY <1>1, ContinuesTypes DEF Invs
<1>3. ASSUME CopiesOK(k) PROVE CopiesOK(k)'
  BY <1>1, <1>3, SameDoc, ContinuesKeep DEF Invs, CopiesOK
<1> QED BY <1>1, <1>2, <1>3, SameDocuments, SameCopied DEF Invs

(* A sequence behind a sequence of length one,                             *)
LEMMA AfterOne ==
  ASSUME NEW a, NEW b, IsSeq(a), IsSeq(b)
  PROVE  Len(a) = 1 => /\ \A i \in 1..Len(b) : (a \o b)[1 + i] = b[i]
                       /\ Len(a \o b) = 1 + Len(b)
<1>1. /\ Len(a \o b) = Len(a) + Len(b)
      /\ \A i \in 1..Len(b) : (a \o b)[Len(a) + i] = b[i]
  BY ConcatSeq
<1> QED BY <1>1

(* ... and behind one element.                                             *)
LEMMA PrependedSeq ==
  ASSUME NEW x, NEW q, IsSeq(q)
  PROVE  /\ \A i \in 1..Len(q) : (<<x>> \o q)[1 + i] = q[i]
         /\ Len(<<x>> \o q) = 1 + Len(q)
<1> DEFINE one == <<x>>
<1>1. one = [i \in 1..1 |-> one[i]] /\ 1 \in Nat
  OBVIOUS
<1> HIDE DEF one
<1>2. IsSeq(one) /\ Len(one) = 1
  BY <1>1, FcnIsSeq
<1>3. /\ \A i \in 1..Len(q) : (one \o q)[1 + i] = q[i]
      /\ Len(one \o q) = 1 + Len(q)
  BY <1>2, AfterOne
<1> QED BY <1>3, Zenon DEF one

(* A sequence of one element.                                              *)
LEMMA OneIsSeq ==
  ASSUME NEW x
  PROVE  IsSeq(<<x>>)
<1> DEFINE one == <<x>>
<1>1. one = [i \in 1..1 |-> one[i]] /\ 1 \in Nat
  OBVIOUS
<1> HIDE DEF one
<1>2. IsSeq(one)
  BY <1>1, FcnIsSeq
<1> QED BY <1>2 DEF one

(* indexTokens: the search changes no document.                            *)
LEMMA TokensStep ==
  ASSUME NEW k, k.index = "tokens", Invs(k), NEW s \in Shards, indexTokens(s)
  PROVE  Invs(k)'
<1>1. Continues(s) /\ UNCHANGED <<log, acked, docs, visible, base>>
  BY TokensMove DEF Invs
<1>2. IsSeq(history') /\ (OnlyCopied(k)' => OnlyCopied(k))
  <2>1. CASE history' = history
    BY <1>1, <2>1, SameCopied DEF Invs, DocumentsOK
  <2>2. CASE history' # history
    <3>1. PICK search : history' = Executed(s, <<search>>)
      BY <2>2, TokensMove DEF Invs
    <3> QED BY <1>1, <3>1, OneIsSeq, ExecutedIs, CopiedBefore DEF Invs, DocumentsOK
  <2> QED BY <2>1, <2>2
<1>3. DocumentsOK'
  BY <1>1, <1>2 DEF Invs, DocumentsOK
<1>4. HandlersOK'
  BY <1>1, ContinuesTypes DEF Invs
<1>5. ASSUME CopiesOK(k) PROVE CopiesOK(k)'
  BY <1>1, <1>5, SameDoc, ContinuesKeep DEF Invs, CopiesOK
<1> QED BY <1>2, <1>3, <1>4, <1>5 DEF Invs

(* addTokenType: the types that it writes do not touch a token that was    *)
(* only copied.                                                            *)
LEMMA TypesStep ==
  ASSUME NEW k, k.index = "tokens", Invs(k), NEW s \in Shards, addTokenType(s)
  PROVE  Invs(k)'
<1>1. Continues(s) /\ UNCHANGED <<log, acked, visible, base>>
  BY TypesMove DEF Invs
<1>2. PICK search, ops :
        /\ IsSeq(ops) /\ IsSeq(<<search>> \o ops)
        /\ \A i \in DOMAIN ops : ops[i].script = "type"
        /\ docs' = BulkResult(docs, ops)
        /\ history' = Executed(s, <<search>> \o ops)
  BY TypesMove DEF Invs
<1>3. HandlersOK'
  BY <1>1, ContinuesTypes DEF Invs
<1>4. DocumentsOK'
  BY <1>1, <1>2, WrittenDocuments DEF Invs
<1>5. ASSUME OnlyCopied(k)' PROVE CopiesOK(k)'
  <2> DEFINE all == <<search>> \o ops
  <2>1. IsSeq(ops)
    BY <1>2
  <2>2. /\ \A i \in 1..Len(ops) : all[1 + i] = ops[i]
        /\ Len(all) = 1 + Len(ops)
    BY <2>1, PrependedSeq
  <2>3. IsSeq(all) /\ history' = Executed(s, all)
    BY <1>2
  <2> HIDE DEF all
  <2>4. /\ OnlyCopied(k)
        /\ \A i \in DOMAIN all : (all[i].key = k /\ all[i].script \notin {"search", "failed"}) =>
             all[i].script = "index" /\ k \notin CreatedBy(LogsData(s))
    BY <1>1, <1>5, <2>3, CopiedBefore DEF Invs, DocumentsOK
  <2>5. \A i \in DOMAIN ops : ops[i].key # k
    <3>1. DOMAIN ops = 1..Len(ops) /\ Len(ops) \in Nat /\ DOMAIN all = 1..Len(all)
      BY <1>2, <2>3, SeqIsFcn
    <3>2. \A i \in DOMAIN ops : 1 + i \in DOMAIN all /\ all[1 + i] = ops[i]
      BY <2>2, <3>1
    <3> QED BY <1>2, <2>4, <3>2
  <2>6. CopiesOK(k)
    BY <2>4 DEF Invs
  <2>7. BufferOK(k, s, ops)
    BY <1>2, <2>5 DEF BufferOK
  <2>8. DocOf(k)' /\ (Known(k) => Known(k)')
    BY <1>1, <1>2, <2>5, <2>6, <2>7, BulkKeeps DEF Invs, CopiesOK
  <2> QED BY <1>1, <2>6, <2>8, ContinuesKeep DEF Invs
<1> QED BY <1>3, <1>4, <1>5 DEF Invs

(* Where the handlers do not move, their types are kept,                   *)
LEMMA StutterTypes ==
  ASSUME HandlersOK, UNCHANGED <<log, acked, pc, local>>
  PROVE  HandlersOK'
<1>1. \A t : Block(t)' = Block(t) /\ Handles(t, "SaveBlock")' = Handles(t, "SaveBlock")
  BY DEF Block, Message, Handles
<1>2. \A t : Message(t)' = Message(t)
  BY DEF Message
<1> QED BY <1>1, <1>2 DEF HandlersOK

(* ... and so are the copies when no document is written.                  *)
LEMMA StutterCopies ==
  ASSUME UNCHANGED <<log, acked, pc, local, base, docs>>, NEW k, CopiesOK(k)
  PROVE  CopiesOK(k)'
<1>1. DocOf(k)'
  BY SameDoc DEF CopiesOK
<1>2. AckedOf(k)'
  BY SameDoc, AckedKeep DEF CopiesOK
<1>3. ASSUME NEW s \in Shards PROVE HandlerOf(k, s)'
  <2>1. HandlerOf(k, s)
    BY DEF CopiesOK
  <2>2. Block(s)' = Block(s) /\ Message(s)' = Message(s) /\ LogsData(s)' = LogsData(s)
    BY DEF Block, Message, LogsData
  <2>3. BufferOK(k, s, local[s].ops)'
    BY <2>1, <2>2 DEF HandlerOf, BufferOK, Copy
  <2>4. Brought(k, Block(s))' = Brought(k, Block(s)) /\ OnMainChain(k)' = OnMainChain(k) /\ Known(k)' = Known(k)
    BY <2>2 DEF Brought, OnMainChain, Known
  <2> QED BY <2>1, <2>2, <2>3, <2>4 DEF HandlerOf
<1> QED BY <1>1, <1>2, <1>3 DEF CopiesOK

(* A handler that ends, or starts again, keeps its types,                  *)
LEMMA LeavesTypes ==
  ASSUME HandlersOK, NEW s \in Shards, Moves(s), local'[s] = NoLocal,
         pc'[s] \in RevertParts \cup {"idle", "ack"}, pc'[s] # "idle" => acked[s] < Len(log[s]),
         pc'[s] \in RevertParts => Message(s).topic # "SaveBlock"
  PROVE  HandlersOK'
<1>1. pc'[s] \notin SaveParts /\ pc'[s] # "mainChain"
  BY DEF SaveParts, RevertParts
<1>2. LocalOK(local'[s])
  BY NoLocalOK
<1> QED BY <1>1, <1>2, MovesOK

(* ... and the copies, if the block left no token out.                     *)
LEMMA LeavesKeep ==
  ASSUME HandlersOK, NEW s \in Shards, Moves(s), base' = base, local'[s] = NoLocal,
         pc'[s] \in RevertParts \cup {"idle", "ack"},
         NEW k, Known(k) => Known(k)', CopiesOK(k), DocOf(k)',
         (pc'[s] = "ack" /\ Message(s).topic = "SaveBlock" /\ Brought(k, Block(s)) /\ OnMainChain(k))
           => Known(k)'
  PROVE  CopiesOK(k)'
<1>1. BufferOK(k, s, local'[s].ops)
  BY EmptyBuffer
<1>2. BufferOK(k, s, local[s].ops)'
  BY <1>1, SameBuffer
<1>3. pc'[s] \notin {"mainChain", "bulk"}
  BY DEF RevertParts
<1>4. Block(s)' = Block(s) /\ Message(s)' = Message(s)
  BY SameBlock
<1>5. HandlerOf(k, s)'
  BY <1>2, <1>3, <1>4 DEF HandlerOf, Brought, OnMainChain
<1> QED BY <1>5, CopyMove

(* The multi-get: a token that was not there was not there at the          *)
(* beginning.                                                              *)
LEMMA NewTokensStep ==
  ASSUME NEW k, k.index = "tokens", Invs(k), NEW s \in Shards, getNewTokens(s)
  PROVE  Invs(k)'
<1> DEFINE new == getNewTokensFromSCRs(Block(s), docs)
<1>1. Handles(s, "SaveBlock") /\ acked[s] < Len(log[s])
  BY AtPart DEF getNewTokens, SaveParts, Invs
<1>2. LocalOK(Local(s))
  BY <1>1, LocalIsOK DEF Invs
<1>3. /\ local' = [local EXCEPT ![s] = [Local(s) EXCEPT !.newTokens = new]]
      /\ pc' = [pc EXCEPT ![s] = IF new = {} THEN "bulk" ELSE "mainChain"]
      /\ UNCHANGED <<log, acked, base, docs, visible, history>>
  BY DEF getNewTokens, GoTo
<1>4. new \subseteq ReceivedTokens(Block(s)) /\ (Brought(k, Block(s)) => (k \in new <=> DoGet(docs, k) = NoDoc))
  BY DEF getNewTokensFromSCRs, Brought
<1> HIDE DEF new
<1>5. /\ local'[s] = [Local(s) EXCEPT !.newTokens = new]
      /\ pc'[s] = IF new = {} THEN "bulk" ELSE "mainChain"
  BY <1>3 DEF Invs, HandlersOK
<1>6. Moves(s)
  BY <1>3, <1>5 DEF Moves
<1>7. LocalOK(local'[s]) /\ local'[s].ops = Local(s).ops /\ local'[s].newTokens = new
  BY <1>2, <1>5 DEF LocalOK
<1>8. HandlersOK'
  <2>1. pc'[s] \in SaveParts
    BY <1>5 DEF SaveParts
  <2> QED BY <1>1, <1>4, <1>6, <1>7, <2>1, MovesOK DEF Invs
<1>9. ASSUME CopiesOK(k) PROVE CopiesOK(k)'
  <2>1. DocOf(k) /\ HandlerOf(k, s)
    BY <1>9 DEF CopiesOK
  <2>2. BufferOK(k, s, local'[s].ops)
    BY <1>1, <1>7, <2>1, LocalBuffer DEF Invs
  <2>3. BufferOK(k, s, local[s].ops)'
    BY <1>3, <1>6, <2>2, SameBuffer
  <2>4. Block(s)' = Block(s) /\ Known(k)' = Known(k) /\ DocOf(k)' = DocOf(k) /\ base' = base
    BY <1>3, <1>6, SameBlock, SameDoc
  <2>5. ASSUME Brought(k, Block(s)) PROVE IF k \in new THEN k \notin DOMAIN base ELSE Known(k)
    <3>1. \A x \in DOMAIN base : base[x] # NoDoc
      BY LogFacts DEF Invs
    <3> QED BY <1>4, <2>1, <2>5, <3>1 DEF DocOf, Known, DoGet
  <2>6. ASSUME Brought(k, Block(s)), pc'[s] = "bulk" PROVE Known(k)
    BY <1>5, <2>5, <2>6
  <2>7. pc'[s] # "ack"
    BY <1>5
  <2>8. HandlerOf(k, s)'
    BY <1>7, <2>3, <2>4, <2>5, <2>6, <2>7 DEF HandlerOf, Brought, OnMainChain
  <2> QED BY <1>3, <1>6, <1>9, <2>1, <2>4, <2>8, CopyMove DEF Invs
<1> QED BY <1>3, <1>8, <1>9, SameDocuments, SameCopied DEF Invs

(* The elements of the second sequence are in the concatenation.           *)
LEMMA SecondElements ==
  ASSUME NEW a, NEW b, IsSeq(a), IsSeq(b), NEW i \in DOMAIN b
  PROVE  \E j \in DOMAIN (a \o b) : (a \o b)[j] = b[i]
<1>1. /\ IsSeq(a \o b) /\ Len(a \o b) = Len(a) + Len(b)
      /\ \A j \in 1..Len(b) : (a \o b)[Len(a) + j] = b[j]
  BY ConcatSeq
<1>2. /\ DOMAIN (a \o b) = 1..Len(a \o b)
      /\ DOMAIN b = 1..Len(b) /\ Len(a) \in Nat /\ Len(b) \in Nat
  BY <1>1, SeqIsFcn
<1>3. Len(a) + i \in DOMAIN (a \o b) /\ (a \o b)[Len(a) + i] = b[i]
  BY <1>1, <1>2
<1> QED BY <1>3

(* The copies of the main chain come into the buffer: none of a token that *)
(* was there at the beginning.                                             *)
LEMMA MainChainStep ==
  ASSUME NEW k, k.index = "tokens", k # NoId, Invs(k), NEW s \in Shards, getMainChainTokens(s)
  PROVE  Invs(k)'
<1> DEFINE K == local[s].newTokens
           q == serializeNewTokens(K)
           l == local[s]
<1>1. /\ Handles(s, "SaveBlock") /\ acked[s] < Len(log[s]) /\ pc[s] = "mainChain"
  BY AtPart DEF getMainChainTokens, SaveParts, Invs
<1>2. K \subseteq ReceivedTokens(Block(s)) /\ IsFiniteSet(ReceivedTokens(Block(s)))
  BY <1>1, CurrentBlock DEF HandlersOK, Invs
<1>3. IsFiniteSet(K)
  BY <1>2, FS_Subset
<1>4. /\ IsSeq(q)
      /\ \A i \in DOMAIN q :
           /\ q[i].script = "index"
           /\ \/ q[i].key = NoId
              \/ /\ q[i].key \in K /\ q[i].key \in DOMAIN MainChainTokens
                 /\ q[i].params = formatToken(MainChainTokens[q[i].key])
      /\ \A x \in K : x \in DOMAIN MainChainTokens => \E i \in DOMAIN q : q[i].key = x
  <2> HIDE DEF K
  <2> QED BY <1>3, NewTokensSerialized
<1>5. LocalOK(l)
  BY DEF Invs, HandlersOK
<1>6. /\ local' = [local EXCEPT ![s] = [l EXCEPT !.ops = l.ops \o q]]
      /\ pc' = [pc EXCEPT ![s] = "bulk"]
      /\ UNCHANGED <<log, acked, base, docs, visible, history>>
  <2>1. local' = [local EXCEPT ![s].ops = @ \o q] /\ local = [t \in Shards |-> local[t]]
    BY DEF getMainChainTokens, Invs, HandlersOK
  <2>2. local' = [local EXCEPT ![s] = [l EXCEPT !.ops = l.ops \o q]]
    <3> HIDE DEF q
    <3> QED BY <1>5, <2>1 DEF LocalOK
  <2> QED BY <2>2 DEF getMainChainTokens, GoTo
<1> HIDE DEF q, l
<1>7. local'[s] = [l EXCEPT !.ops = l.ops \o q] /\ pc'[s] = "bulk"
  BY <1>6 DEF Invs, HandlersOK
<1>8. Moves(s)
  BY <1>6, <1>7 DEF Moves
<1>9. IsSeq(l.ops \o q)
  BY <1>4, <1>5, ConcatSeq DEF LocalOK
<1>10. LocalOK(local'[s]) /\ local'[s].ops = l.ops \o q
  BY <1>5, <1>7, <1>9 DEF LocalOK
<1>11. HandlersOK'
  <2>1. pc'[s] \in SaveParts /\ pc'[s] # "mainChain"
    BY <1>7 DEF SaveParts
  <2> QED BY <1>1, <1>8, <1>10, <2>1, MovesOK DEF Invs
<1>12. ASSUME CopiesOK(k) PROVE CopiesOK(k)'
  <2>1. DocOf(k) /\ HandlerOf(k, s)
    BY <1>12 DEF CopiesOK
  <2>2. Brought(k, Block(s)) => IF k \in K THEN k \notin DOMAIN base ELSE Known(k)
    BY <1>1, <2>1 DEF HandlerOf
  <2>3. BufferOK(k, s, q)
    BY <1>2, <1>4, <2>2 DEF BufferOK, Brought, Copy
  <2>4. BufferOK(k, s, l.ops)
    BY <2>1 DEF HandlerOf, l
  <2>5. BufferOK(k, s, l.ops \o q)
    BY <1>4, <1>5, <2>3, <2>4, BufferConcat DEF LocalOK
  <2>6. BufferOK(k, s, local[s].ops)'
    BY <1>6, <1>8, <1>10, <2>5, SameBuffer
  <2>7. Block(s)' = Block(s) /\ Known(k)' = Known(k) /\ DocOf(k)' = DocOf(k)
    BY <1>6, <1>8, SameBlock, SameDoc
  <2>8. ASSUME Brought(k, Block(s)), OnMainChain(k)
        PROVE  Known(k) \/ \E i \in DOMAIN local'[s].ops : Replaces(local'[s].ops[i], k)
    <3>1. CASE k \notin K
      BY <2>2, <2>8, <3>1
    <3>2. CASE k \in K
      <4>1. PICK i \in DOMAIN q : q[i].key = k
        BY <1>4, <2>8, <3>2 DEF OnMainChain
      <4>2. \E j \in DOMAIN (l.ops \o q) : (l.ops \o q)[j] = q[i]
        BY <1>4, <1>5, SecondElements DEF LocalOK
      <4> QED BY <1>4, <1>10, <4>1, <4>2 DEF Replaces
    <3> QED BY <3>1, <3>2
  <2>9. pc'[s] \notin {"ack", "mainChain"}
    BY <1>7
  <2>10. HandlerOf(k, s)'
    BY <2>6, <2>7, <2>8, <2>9 DEF HandlerOf, Brought, OnMainChain
  <2> QED BY <1>6, <1>8, <1>12, <2>1, <2>7, <2>10, CopyMove DEF Invs
<1> QED BY <1>6, <1>11, <1>12, SameDocuments, SameCopied DEF Invs

(* At the bulk request, a handler that had not started has no tokens to    *)
(* copy.                                                                   *)
LEMMA AtBulk ==
  ASSUME HandlersOK, NEW s \in Shards, At(s, "bulk")
  PROVE  /\ Handles(s, "SaveBlock") /\ acked[s] < Len(log[s])
         /\ pc[s] = "bulk" \/ (pc[s] = "idle" /\ ReceivedTokens(Block(s)) = {})
<1>1. Handles(s, "SaveBlock") /\ acked[s] < Len(log[s])
  BY AtPart DEF SaveParts
<1>2. CASE pc[s] = "idle" /\ "bulk" = Parts[NextRequest(s, 1)]
  <2> DEFINE n == NextRequest(s, 1)
  <2>1. n \in 1..8 /\ \A i \in 1..8 : Requests(s, Parts[i]) => n <= i
    BY NextRequestIs
  <2>2. n = 8
    <3>1. \A i \in 1..8 : Parts[i] = "bulk" => i = 8
      BY PartsAre
    <3> QED BY <1>2, <2>1, <3>1
  <2>3. ~Requests(s, Parts[7])
    <3> HIDE DEF n
    <3> QED BY <2>1, <2>2
  <2>4. ReceivedTokens(Block(s)) = {}
    BY <2>3, PartsAre DEF Requests
  <2> QED BY <1>1, <1>2, <2>4
<1> QED BY <1>1, <1>2 DEF At

(* The operations of a bulk request of which some fail.                    *)
LEMMA WithFailedIs ==
  ASSUME NEW q, IsSeq(q), NEW failed
  PROVE  /\ IsSeq(WithFailed(q, failed)) /\ DOMAIN WithFailed(q, failed) = DOMAIN q
         /\ \A i \in DOMAIN q : IF i \in failed THEN WithFailed(q, failed)[i].script = "failed"
                                ELSE WithFailed(q, failed)[i] = q[i]
<1> DEFINE r == WithFailed(q, failed)
           n == Len(q)
<1>1. n \in Nat /\ DOMAIN q = 1..n
  BY SeqIsFcn
<1>2. /\ r = [i \in 1..n |-> r[i]]
      /\ \A i \in 1..n : IF i \in failed THEN r[i].script = "failed" ELSE r[i] = q[i]
  BY <1>1 DEF WithFailed, Operation
<1> HIDE DEF r, n
<1>3. IsSeq(r) /\ DOMAIN r = 1..n
  BY <1>1, <1>2, FcnIsSeq
<1> QED BY <1>1, <1>2, <1>3 DEF r

(* What the bulk request does to the document, when all or some of its     *)
(* operations are executed.                                                *)
LEMMA BulkEffect ==
  ASSUME NEW k, k.index = "tokens", Invs(k), NEW s \in Shards, Handles(s, "SaveBlock"),
         NEW ops, NEW failed, ops = WithFailed(Local(s).ops, failed),
         docs' = BulkResult(docs, ops), history' = Executed(s, ops),
         UNCHANGED <<log, base, visible>>
  PROVE  /\ DocumentsOK'
         /\ OnlyCopied(k)' => /\ CopiesOK(k) /\ DocOf(k)'
                              /\ Known(k) => Known(k)'
                              /\ (\E i \in DOMAIN ops : Replaces(ops[i], k)) => Known(k)'
<1> DEFINE q == Local(s).ops
<1>0. /\ IsSeq(ops) /\ DOMAIN ops = DOMAIN q
      /\ \A i \in DOMAIN q : ops[i].script = "failed" \/ ops[i] = q[i]
  <2>1. IsSeq(q) /\ ops = WithFailed(q, failed)
    BY LocalIsOK DEF Invs, LocalOK
  <2> HIDE DEF q
  <2> QED BY <2>1, WithFailedIs
<1>1. DocumentsOK'
  BY <1>0, WrittenDocuments DEF Invs
<1>2. ASSUME OnlyCopied(k)'
      PROVE  /\ CopiesOK(k) /\ DocOf(k)'
             /\ Known(k) => Known(k)'
             /\ (\E i \in DOMAIN ops : Replaces(ops[i], k)) => Known(k)'
  <2>1. /\ OnlyCopied(k)
        /\ \A i \in DOMAIN ops : (ops[i].key = k /\ ops[i].script \notin {"search", "failed"}) =>
             ops[i].script = "index" /\ k \notin CreatedBy(LogsData(s))
    BY <1>0, <1>2, CopiedBefore DEF Invs, DocumentsOK
  <2>2. CopiesOK(k)
    BY <2>1 DEF Invs
  <2>3. BufferOK(k, s, Local(s).ops) /\ DocOf(k)
    BY <2>2, LocalBuffer DEF Invs, CopiesOK
  <2>4. BufferOK(k, s, ops)
    BY <1>0, <2>3 DEF BufferOK
  <2> QED BY <1>0, <2>1, <2>2, <2>3, <2>4, BulkKeeps DEF Invs
<1> QED BY <1>1, <1>2

(* The end of the handler.                                                 *)
LEMMA LeavesMoves ==
  ASSUME HandlersOK, NEW s \in Shards, local' = [local EXCEPT ![s] = NoLocal],
         NEW c, pc' = [pc EXCEPT ![s] = c], UNCHANGED <<log, acked>>
  PROVE  Moves(s) /\ local'[s] = NoLocal /\ pc'[s] = c
BY DEF HandlersOK, Moves

(* The bulk request.                                                       *)
LEMMA BulkStep ==
  ASSUME NEW k, k.index = "tokens", Invs(k), NEW s \in Shards, doBulkRequests(s)
  PROVE  Invs(k)'
<1> DEFINE q == Local(s).ops
<1>0. PICK failed \in IgnoredItems(q) : ExecuteBulk(s, WithFailed(q, failed))
  BY DEF doBulkRequests
<1> DEFINE ops == WithFailed(q, failed)
<1>1. /\ Handles(s, "SaveBlock") /\ acked[s] < Len(log[s])
      /\ pc[s] = "bulk" \/ (pc[s] = "idle" /\ ReceivedTokens(Block(s)) = {})
  BY AtBulk DEF doBulkRequests, Invs
<1>2. /\ docs' = BulkResult(docs, ops) /\ history' = Executed(s, ops)
      /\ local' = [local EXCEPT ![s] = NoLocal] /\ pc' = [pc EXCEPT ![s] = "ack"]
      /\ UNCHANGED <<log, acked, base, visible>>
  BY <1>0 DEF doBulkRequests, ExecuteBulk, GoTo
<1>3. Moves(s) /\ local'[s] = NoLocal /\ pc'[s] = "ack"
  BY <1>2, LeavesMoves DEF Invs
<1>4. HandlersOK'
  BY <1>1, <1>3, LeavesTypes DEF Invs, RevertParts
<1>5. /\ DOMAIN ops = DOMAIN q
      /\ \A i \in DOMAIN q : Replaces(q[i], k) => Replaces(ops[i], k)
  <2>1. IsSeq(q)
    BY <1>1, LocalIsOK DEF Invs, LocalOK
  <2>2. \A i \in failed : q[i].script = "delete"
    BY <1>0 DEF IgnoredItems
  <2> HIDE DEF q
  <2>3. DOMAIN ops = DOMAIN q /\ \A i \in DOMAIN q : i \notin failed => ops[i] = q[i]
    BY <2>1, WithFailedIs
  <2> QED BY <2>2, <2>3 DEF Replaces
<1>6. /\ DocumentsOK'
      /\ OnlyCopied(k)' => /\ CopiesOK(k) /\ DocOf(k)'
                           /\ Known(k) => Known(k)'
                           /\ (\E i \in DOMAIN ops : Replaces(ops[i], k)) => Known(k)'
  <2>1. ops = WithFailed(Local(s).ops, failed)
    OBVIOUS
  <2> HIDE DEF ops
  <2> QED BY <1>1, <1>2, <2>1, BulkEffect
<1>7. ASSUME OnlyCopied(k)' PROVE CopiesOK(k)'
  <2>1. ASSUME Brought(k, Block(s)), OnMainChain(k) PROVE Known(k)'
    <3>1. pc[s] = "bulk" /\ q = local[s].ops
      BY <1>1, <2>1 DEF Brought, Local
    <3>2. HandlerOf(k, s)
      BY <1>6, <1>7 DEF CopiesOK
    <3>3. Known(k) \/ \E i \in DOMAIN q : Replaces(q[i], k)
      BY <2>1, <3>1, <3>2 DEF HandlerOf
    <3> HIDE DEF ops, q
    <3> QED BY <1>5, <1>6, <1>7, <3>3
  <2> QED BY <1>2, <1>3, <1>6, <1>7, <2>1, LeavesKeep DEF Invs
<1> QED BY <1>4, <1>6, <1>7 DEF Invs

(* Types, of which some fail, leave a token alone that was only copied.    *)
LEMMA TypesEffect ==
  ASSUME NEW k, Invs(k), NEW s \in Shards, NEW q, IsSeq(q), \A i \in DOMAIN q : q[i].script = "type",
         NEW ops, NEW failed, ops = WithFailed(q, failed),
         docs' = BulkResult(docs, ops), history' = Executed(s, ops),
         UNCHANGED <<log, base, visible>>
  PROVE  /\ DocumentsOK'
         /\ OnlyCopied(k)' => CopiesOK(k) /\ DocOf(k)' /\ (Known(k) => Known(k)')
<1>1. /\ IsSeq(ops) /\ DOMAIN ops = DOMAIN q
      /\ \A i \in DOMAIN ops : ops[i].script \in {"type", "failed"}
  BY WithFailedIs
<1>2. DocumentsOK'
  BY <1>1, WrittenDocuments DEF Invs
<1>3. ASSUME OnlyCopied(k)' PROVE CopiesOK(k) /\ DocOf(k)' /\ (Known(k) => Known(k)')
  <2>1. /\ OnlyCopied(k)
        /\ \A i \in DOMAIN ops : (ops[i].key = k /\ ops[i].script \notin {"search", "failed"}) =>
             ops[i].script = "index" /\ k \notin CreatedBy(LogsData(s))
    BY <1>1, <1>3, CopiedBefore DEF Invs, DocumentsOK
  <2>2. CopiesOK(k) /\ DocOf(k)
    BY <2>1 DEF Invs, CopiesOK
  <2>3. BufferOK(k, s, ops)
    BY <1>1 DEF BufferOK
  <2> QED BY <1>1, <2>1, <2>2, <2>3, BulkKeeps DEF Invs
<1> QED BY <1>2, <1>3

(* The bulk request that fails.                                            *)
LEMMA FailBulkStep ==
  ASSUME NEW k, k.index = "tokens", Invs(k), NEW s \in Shards, FailBulk(s)
  PROVE  Invs(k)'
<1> DEFINE q == IF pc[s] = "types" THEN TypeOps(local[s]) ELSE Local(s).ops
<1>1. PICK failed \in FailedItems(Len(q)) : ExecuteBulk(s, WithFailed(q, failed))
  BY DEF FailBulk
<1> DEFINE ops == WithFailed(q, failed)
<1>2. /\ docs' = BulkResult(docs, ops) /\ history' = Executed(s, ops)
      /\ local' = [local EXCEPT ![s] = NoLocal] /\ pc' = [pc EXCEPT ![s] = "idle"]
      /\ UNCHANGED <<log, acked, base, visible>>
  BY <1>1 DEF FailBulk, Restart, ExecuteBulk, GoTo
<1>3. Moves(s) /\ local'[s] = NoLocal /\ pc'[s] = "idle"
  BY <1>2, LeavesMoves DEF Invs
<1>4. HandlersOK'
  BY <1>3, LeavesTypes DEF Invs, RevertParts
<1>5. /\ DocumentsOK'
      /\ OnlyCopied(k)' => CopiesOK(k) /\ DocOf(k)' /\ (Known(k) => Known(k)')
  <2>1. CASE pc[s] = "types"
    <3>1. q = TypeOps(local[s]) /\ IsFiniteSet(local[s].found)
      BY <2>1 DEF Invs, HandlersOK, LocalOK
    <3>2. IsSeq(q) /\ \A i \in DOMAIN q : q[i].script = "type"
      BY <3>1, TypeOpsAre
    <3>3. ops = WithFailed(q, failed)
      OBVIOUS
    <3> HIDE DEF q, ops
    <3> QED BY <1>2, <3>2, <3>3, TypesEffect
  <2>2. CASE pc[s] # "types"
    <3>1. Handles(s, "SaveBlock")
      BY <2>2, AtPart DEF FailBulk, Invs, SaveParts
    <3>2. ops = WithFailed(Local(s).ops, failed)
      BY <2>2
    <3> HIDE DEF ops
    <3> QED BY <1>2, <3>1, <3>2, BulkEffect
  <2> QED BY <2>1, <2>2
<1>6. ASSUME OnlyCopied(k)' PROVE CopiesOK(k)'
  <2>1. pc'[s] # "ack" /\ base' = base
    BY <1>2, <1>3
  <2> QED BY <1>3, <1>5, <1>6, <2>1, LeavesKeep DEF Invs
<1> QED BY <1>4, <1>5, <1>6 DEF Invs

(* The handler leaves, and no document changes.                            *)
LEMMA LeavesStep ==
  ASSUME NEW k, Invs(k), NEW s \in Shards, Moves(s), local'[s] = NoLocal,
         UNCHANGED <<base, visible, docs, history>>,
         \/ pc'[s] = "idle"
         \/ pc'[s] \in RevertParts \cup {"ack"} /\ acked[s] < Len(log[s]) /\ Message(s).topic # "SaveBlock"
  PROVE  Invs(k)'
<1>1. HandlersOK'
  BY LeavesTypes DEF Invs, RevertParts
<1>2. ASSUME CopiesOK(k) PROVE CopiesOK(k)'
  BY <1>2, SameDoc, LeavesKeep DEF Invs, CopiesOK
<1>3. log' = log
  BY DEF Moves
<1> QED BY <1>1, <1>2, <1>3, SameDocuments, SameCopied DEF Invs

(* A message that comes again, after a failure.                            *)
LEMMA RestartStep ==
  ASSUME NEW k, Invs(k), NEW s \in Shards, Restart(s), UNCHANGED <<docs, history>>
  PROVE  Invs(k)'
<1>1. Moves(s) /\ local'[s] = NoLocal /\ pc'[s] = "idle"
  BY LeavesMoves DEF Restart, GoTo, Invs
<1> QED BY <1>1, LeavesStep DEF Restart

(* A handler that is not in SaveTransactions has no local variables.       *)
LEMMA IdleMoves ==
  ASSUME HandlersOK, NEW s \in Shards, pc[s] \notin SaveParts,
         NEW c, GoTo(s, c), UNCHANGED <<log, acked, local>>
  PROVE  Moves(s) /\ local'[s] = NoLocal /\ pc'[s] = c
BY DEF HandlersOK, Moves, GoTo

(* SetOutportConfig.                                                       *)
LEMMA SettingsStep ==
  ASSUME NEW k, Invs(k), NEW s \in Shards, SetOutportConfig(s)
  PROVE  Invs(k)'
<1>1. Moves(s) /\ local'[s] = NoLocal /\ pc'[s] = "ack"
  BY IdleMoves DEF SetOutportConfig, Invs, SaveParts
<1>2. acked[s] < Len(log[s]) /\ Message(s).topic # "SaveBlock"
  BY DEF SetOutportConfig, Handles
<1> QED BY <1>1, <1>2, LeavesStep DEF SetOutportConfig

(* The next index that a revert deletes from.                              *)
LEMMA NextRemovalIs ==
  ASSUME NEW s, NEW from \in 1..5
  PROVE  NextRemoval(s, from) \in 1..5
<1> DEFINE T == {i \in from..5 : i = 5 \/ HashesForRemove(s, i) # {}}
<1>1. 5 \in T /\ T \subseteq 1..5 /\ T \subseteq Nat
  OBVIOUS
<1>2. NextRemoval(s, from) = CHOOSE x \in T : \A y \in T : x <= y
  BY DEF NextRemoval, Min
<1> HIDE DEF T
<1>3. \E x \in T : \A y \in T : x <= y
  BY <1>1, LeastNumber
<1> QED BY <1>1, <1>2, <1>3

(* RemoveTransactions removes no document of a token.                      *)
LEMMA RemoveStep ==
  ASSUME NEW k, k.index = "tokens", Invs(k), NEW s \in Shards, RemoveTransactions(s)
  PROVE  Invs(k)'
<1>1. DOMAIN Removals = 1..5 /\ \A i \in 1..5 : Removals[i] \in RevertParts
  BY DEF Removals, RevertParts
<1>2. PICK i \in 1..5 :
        /\ AtRemoval(s, i)
        /\ \E missed \in SUBSET RemovedBy(s, i) :
             docs' = Restrict(docs, DOMAIN docs \ (RemovedBy(s, i) \ missed))
        /\ GoTo(s, IF i < 5 THEN Removals[NextRemoval(s, i + 1)]
                   ELSE IF s = MetaShard /\ Block(s).hasMbs THEN "delegators" ELSE "ack")
        /\ UNCHANGED <<log, acked, local, visible, base, history>>
  BY <1>1 DEF RemoveTransactions
<1>3. PICK missed \in SUBSET RemovedBy(s, i) :
        docs' = Restrict(docs, DOMAIN docs \ (RemovedBy(s, i) \ missed))
  BY <1>2
<1>4. PICK c \in RevertParts \cup {"ack"} : GoTo(s, c)
  <2>1. i < 5 => NextRemoval(s, i + 1) \in 1..5
    BY NextRemovalIs
  <2>2. (IF i < 5 THEN Removals[NextRemoval(s, i + 1)]
         ELSE IF s = MetaShard /\ Block(s).hasMbs THEN "delegators" ELSE "ack")
          \in RevertParts \cup {"ack"}
    BY <1>1, <2>1 DEF RevertParts
  <2> QED BY <1>2, <2>2
<1>5. pc[s] \notin SaveParts /\ acked[s] < Len(log[s]) /\ Message(s).topic # "SaveBlock"
  <2>1. CASE pc[s] = Removals[i]
    <3>1. pc[s] \in RevertParts
      BY <1>1, <2>1
    <3>2. pc[s] \notin SaveParts /\ pc[s] # "idle"
      BY <3>1 DEF RevertParts, SaveParts
    <3> QED BY <3>1, <3>2 DEF Invs, HandlersOK
  <2>2. CASE pc[s] = "idle" /\ Handles(s, "RevertIndexedBlock")
    BY <2>2 DEF Handles, SaveParts
  <2> QED BY <1>2, <2>1, <2>2 DEF AtRemoval
<1>6. Moves(s) /\ local'[s] = NoLocal /\ pc'[s] = c
  BY <1>2, <1>4, <1>5, IdleMoves DEF Invs
<1>7. HandlersOK'
  BY <1>5, <1>6, LeavesTypes DEF Invs
<1>8. DocumentsOK'
  <2>1. DOMAIN docs' \in SUBSET DOMAIN docs
    BY <1>3 DEF Restrict
  <2> QED BY <1>2, <2>1, FS_Subset DEF Invs, DocumentsOK
<1>9. k \notin RemovedBy(s, i)
  <2>1. RemovalIndex[i] # "tokens"
    BY DEF RemovalIndex
  <2> QED BY <2>1 DEF RemovedBy
<1>10. (k \in DOMAIN docs' <=> k \in DOMAIN docs) /\ (k \in DOMAIN docs => docs'[k] = docs[k])
  BY <1>3, <1>9 DEF Restrict
<1>11. ASSUME CopiesOK(k) PROVE CopiesOK(k)'
  <2>1. DocOf(k)' /\ (Known(k) => Known(k)')
    BY <1>2, <1>10, <1>11 DEF CopiesOK, DocOf, Known, OnMainChain, Copy
  <2> QED BY <1>2, <1>5, <1>6, <1>11, <2>1, LeavesKeep DEF Invs
<1> QED BY <1>2, <1>7, <1>8, <1>11, SameCopied DEF Invs

(* The revert of delegators changes no document of a token.                *)
LEMMA RevertStep ==
  ASSUME NEW k, k.index = "tokens", Invs(k), NEW s \in Shards, updateDelegatorsInCaseOfRevert(s)
  PROVE  Invs(k)'
<1> DEFINE t == Block(s).timestamp
           matched == RevertMatches(InIndex(visible, "delegators"), t)
           conflict == \E x \in matched : DoGet(docs, x) # visible[x]
           revert == Operation(DocKey("delegators", ""), "revert", Current("delegators"))
<1>1. /\ At(s, "delegators")
      /\ IF conflict
           THEN GoTo(s, "idle") /\ UNCHANGED <<docs, history>>
           ELSE /\ docs' = [x \in DOMAIN docs |->
                              IF x \in matched THEN RevertScript(docs[x], t) ELSE docs[x]]
                /\ history' = Executed(s, <<revert>>)
                /\ GoTo(s, "ack")
      /\ UNCHANGED <<log, acked, local, visible, base>>
  BY DEF updateDelegatorsInCaseOfRevert
<1>2. pc[s] = "delegators"
  BY <1>1, AtPart DEF Invs
<1>3. pc[s] \notin SaveParts /\ acked[s] < Len(log[s]) /\ Message(s).topic # "SaveBlock"
  BY <1>2 DEF SaveParts, RevertParts, Invs, HandlersOK
<1>4. k \notin matched
  BY DEF RevertMatches, InIndex, Restrict
<1> HIDE DEF matched, conflict, revert, t
<1>5. CASE conflict
  <2>1. Moves(s) /\ local'[s] = NoLocal /\ pc'[s] = "idle"
    BY <1>1, <1>3, <1>5, IdleMoves DEF Invs
  <2> QED BY <1>1, <1>5, <2>1, LeavesStep
<1>6. CASE ~conflict
  <2>1. /\ docs' = [x \in DOMAIN docs |->
                      IF x \in matched THEN RevertScript(docs[x], t) ELSE docs[x]]
        /\ history' = Executed(s, <<revert>>)
        /\ GoTo(s, "ack")
    BY <1>1, <1>6
  <2>2. Moves(s) /\ local'[s] = NoLocal /\ pc'[s] = "ack"
    BY <1>1, <1>3, <2>1, IdleMoves DEF Invs
  <2>3. HandlersOK'
    BY <1>3, <2>2, LeavesTypes DEF Invs
  <2>4. IsSeq(<<revert>>)
    BY OneIsSeq
  <2>5. DocumentsOK'
    <3>1. IsSeq(history')
      BY <2>1, <2>4, ExecutedIs DEF Invs, DocumentsOK
    <3>2. DOMAIN docs' = DOMAIN docs
      BY <2>1
    <3> QED BY <1>1, <3>1, <3>2 DEF Invs, DocumentsOK
  <2>6. (k \in DOMAIN docs' <=> k \in DOMAIN docs) /\ (k \in DOMAIN docs => docs'[k] = docs[k])
    BY <1>4, <2>1
  <2>7. ASSUME OnlyCopied(k)' PROVE CopiesOK(k)'
    <3>1. OnlyCopied(k)
      BY <1>1, <2>1, <2>4, <2>7, CopiedBefore DEF Invs, DocumentsOK
    <3>2. CopiesOK(k)
      BY <3>1 DEF Invs
    <3>3. DocOf(k)' /\ (Known(k) => Known(k)')
      BY <1>1, <2>6, <3>2 DEF CopiesOK, DocOf, Known, OnMainChain, Copy
    <3> QED BY <1>1, <1>3, <2>2, <3>2, <3>3, LeavesKeep DEF Invs
  <2> QED BY <2>3, <2>5, <2>7 DEF Invs
<1> QED BY <1>5, <1>6

(* The acknowledgement: the handled block left no token out.               *)
LEMMA AckStep ==
  ASSUME NEW k, Invs(k), NEW s \in Shards, Ack(s)
  PROVE  Invs(k)'
<1>1. pc[s] = "ack" /\ acked[s] < Len(log[s])
  BY AtPart DEF Ack, Invs, HandlersOK
<1>2. /\ acked' = [acked EXCEPT ![s] = acked[s] + 1] /\ pc' = [pc EXCEPT ![s] = "idle"]
      /\ UNCHANGED <<log, local, base, docs, visible, history>>
  BY DEF Ack, GoTo
<1>3. /\ acked'[s] = acked[s] + 1 /\ pc'[s] = "idle" /\ acked[s] \in Nat
      /\ \A t \in Shards : t # s => acked'[t] = acked[t] /\ pc'[t] = pc[t]
      /\ acked' \in [Shards -> Nat] /\ pc' \in [Shards -> SaveParts \cup RevertParts \cup {"idle", "ack"}]
  BY <1>2 DEF Invs, HandlersOK
<1>4. local[s] = NoLocal
  BY <1>1 DEF Invs, HandlersOK, SaveParts
<1>5. \A t \in Shards : t # s =>
        /\ Block(t)' = Block(t) /\ Message(t)' = Message(t) /\ LogsData(t)' = LogsData(t)
        /\ Handles(t, "SaveBlock")' = Handles(t, "SaveBlock")
  BY <1>2, <1>3 DEF Block, Message, LogsData, Handles
<1>6. HandlersOK'
  <2>1. local' = [t \in Shards |-> local'[t]]
    BY <1>2 DEF Invs, HandlersOK
  <2>2. ASSUME NEW t \in Shards
        PROVE  /\ LocalOK(local'[t])
               /\ pc'[t] \in SaveParts => Handles(t, "SaveBlock")'
               /\ pc'[t] # "idle" => acked'[t] < Len(log'[t])
               /\ pc'[t] \notin SaveParts => local'[t] = NoLocal
               /\ pc'[t] \in RevertParts => Message(t)'.topic # "SaveBlock"
               /\ pc'[t] = "mainChain" => local'[t].newTokens \subseteq ReceivedTokens(Block(t)')
    <3>1. CASE t = s
      BY <1>2, <1>3, <1>4, <3>1, NoLocalOK DEF SaveParts, RevertParts
    <3>2. CASE t # s
      BY <1>2, <1>3, <1>5, <3>2 DEF Invs, HandlersOK
    <3> QED BY <3>1, <3>2
  <2> QED BY <1>3, <2>1, <2>2 DEF HandlersOK
<1>7. ASSUME CopiesOK(k) PROVE CopiesOK(k)'
  <2>1. Known(k)' = Known(k) /\ DocOf(k)' /\ base' = base /\ local' = local
    BY <1>2, <1>7, SameDoc DEF CopiesOK
  <2>2. \A t \in Shards : HandlerOf(k, t)
    BY <1>7 DEF CopiesOK
  <2>3. ASSUME NEW t \in Shards PROVE HandlerOf(k, t)'
    <3>1. CASE t = s
      <4>1. BufferOK(k, s, local[s].ops)'
        <5>1. local'[s].ops = <<>> /\ DOMAIN <<>> = {}
          BY <1>2, <1>4 DEF NoLocal
        <5> QED BY <5>1 DEF BufferOK
      <4> QED BY <1>3, <3>1, <4>1 DEF HandlerOf
    <3>2. CASE t # s
      <4>1. BufferOK(k, t, local[t].ops)'
        BY <1>5, <2>1, <2>2, <3>2 DEF HandlerOf, BufferOK, Copy
      <4>2. pc'[t] = pc[t] /\ Block(t)' = Block(t) /\ Message(t)' = Message(t)
        BY <1>3, <1>5, <3>2
      <4>3. HandlerOf(k, t)
        BY <2>2
      <4>4. Brought(k, Block(t))' = Brought(k, Block(t)) /\ OnMainChain(k)' = OnMainChain(k)
        BY <4>2 DEF Brought, OnMainChain
      <4> QED BY <2>1, <4>1, <4>2, <4>3, <4>4 DEF HandlerOf
    <3> QED BY <3>1, <3>2
  <2>4. AckedOf(k)'
    <3>1. Places' = Places /\ \A p : BlockOf(p)' = BlockOf(p)
      BY <1>2 DEF Places, BlockOf
    <3>2. ASSUME NEW p \in Places, IsAcked(p)', Brought(k, BlockOf(p)), OnMainChain(k)
          PROVE  Known(k)
      <4>1. PICK t \in Shards : \E n \in DOMAIN log[t] : p = <<t, n>> /\ log[t][n].topic = "SaveBlock"
        BY DEF Places
      <4> PICK n \in DOMAIN log[t] : p = <<t, n>> /\ log[t][n].topic = "SaveBlock"
        BY <4>1
      <4>2. n \in Nat
        <5>1. IsSeq(log[t])
          BY LogFacts DEF Invs
        <5>2. DOMAIN log[t] = 1..Len(log[t]) /\ Len(log[t]) \in Nat
          BY <5>1, SeqIsFcn
        <5> QED BY <5>2
      <4>3. CASE IsAcked(p)
        BY <1>7, <3>2, <4>3 DEF CopiesOK, AckedOf
      <4>4. CASE ~IsAcked(p)
        <5>1. n <= acked'[t] /\ ~(n <= acked[t])
          BY <3>2, <4>4 DEF IsAcked
        <5>2. t = s
          BY <1>3, <5>1
        <5>3. n = acked[s] + 1
          BY <1>3, <4>2, <5>1, <5>2
        <5>4. BlockOf(p) = Block(s) /\ Message(s).topic = "SaveBlock"
          BY <5>2, <5>3 DEF BlockOf, Block, Message
        <5>5. HandlerOf(k, s)
          BY <2>2
        <5> QED BY <1>1, <3>2, <5>4, <5>5 DEF HandlerOf
      <4> QED BY <4>3, <4>4
    <3> QED BY <2>1, <3>1, <3>2 DEF AckedOf, Brought, OnMainChain
  <2> QED BY <2>1, <2>3, <2>4 DEF CopiesOK
<1> QED BY <1>2, <1>6, <1>7, SameDocuments, SameCopied DEF Invs

(* A refresh changes what searches see only.                               *)
LEMMA RefreshStep ==
  ASSUME NEW k, Invs(k), NEW index, Refresh(index)
  PROVE  Invs(k)'
<1>1. UNCHANGED <<log, acked, pc, local, base, docs, history>>
  BY DEF Refresh
<1>2. IsFiniteSet(DOMAIN visible')
  <2> DEFINE A == {x \in DOMAIN visible : x.index # index}
             B == Findable(docs, index)
  <2>1. DOMAIN visible' = A \cup B
    BY DEF Refresh
  <2>2. IsFiniteSet(A)
    BY FS_Subset DEF Invs, DocumentsOK
  <2>3. B \in SUBSET DOMAIN docs
    BY DEF Findable
  <2> HIDE DEF A, B
  <2>4. IsFiniteSet(B)
    BY <2>3, FS_Subset DEF Invs, DocumentsOK
  <2> QED BY <2>1, <2>2, <2>4, FS_Union
<1>3. DocumentsOK'
  BY <1>1, <1>2 DEF Invs, DocumentsOK
<1> QED BY <1>1, <1>3, StutterTypes, StutterCopies, SameCopied DEF Invs

(* Nothing happens.                                                        *)
LEMMA StutterStep ==
  ASSUME NEW k, Invs(k), UNCHANGED vars
  PROVE  Invs(k)'
<1>1. UNCHANGED <<log, acked, pc, local, base, docs, visible, history>>
  BY DEF vars
<1> QED BY <1>1, SameDocuments, StutterTypes, StutterCopies, SameCopied DEF Invs

(* Every step keeps the invariant of a token.                              *)
LEMMA EveryStep ==
  ASSUME NEW k, k.index = "tokens", k # NoId, Invs(k), [Next]_vars
  PROVE  Invs(k)'
<1>1. ASSUME NEW s \in Shards, SaveTransactions(s) PROVE Invs(k)'
  BY <1>1, TransactionsStep, BuffersStep, TokensStep, TypesStep, NewTokensStep, MainChainStep, BulkStep
     DEF SaveTransactions, Buffers
<1>2. ASSUME NEW s \in Shards, RemoveTransactions(s) PROVE Invs(k)'
  BY <1>2, RemoveStep
<1>3. ASSUME NEW s \in Shards, updateDelegatorsInCaseOfRevert(s) PROVE Invs(k)'
  BY <1>3, RevertStep
<1>4. ASSUME NEW s \in Shards, SetOutportConfig(s) PROVE Invs(k)'
  BY <1>4, SettingsStep
<1>5. ASSUME NEW s \in Shards, Ack(s) PROVE Invs(k)'
  BY <1>5, AckStep
<1>6. ASSUME NEW s \in Shards, Fail(s) PROVE Invs(k)'
  BY <1>6, RestartStep DEF Fail
<1>7. ASSUME NEW s \in Shards, FailBulk(s) PROVE Invs(k)'
  BY <1>7, FailBulkStep
<1>8. ASSUME NEW s \in Shards, RefuseBulk(s) PROVE Invs(k)'
  BY <1>8, RestartStep DEF RefuseBulk
<1>9. ASSUME NEW index \in Searched, Refresh(index) PROVE Invs(k)'
  BY <1>9, RefreshStep
<1>10. CASE UNCHANGED vars
  BY <1>10, StutterStep
<1> QED BY <1>1, <1>2, <1>3, <1>4, <1>5, <1>6, <1>7, <1>8, <1>9, <1>10 DEF Next
-----------------------------------------------------------------------------
(***************************************************************************)
(* The theorem.                                                            *)
(***************************************************************************)
\* The documents that the invariant is about: it does not cover the operation
\* without id.
IsTokenKey(k) == k.index = "tokens" /\ k # NoId

\* The inductive invariant.
CopiesInv == DocumentsOK /\ HandlersOK /\ \A k : (IsTokenKey(k) /\ OnlyCopied(k)) => CopiesOK(k)

(* The tokens that blocks bring have such keys.                            *)
LEMMA ReceivedKey ==
  ASSUME DocumentsOK, NEW p \in Places, NEW k \in ReceivedTokens(BlockOf(p))
  PROVE  IsTokenKey(k)
<1>2. WellFormed(BlockOf(p))
  <2>1. \E t \in Shards : \E n \in DOMAIN log[t] : p = <<t, n>>
    BY DEF Places
  <2> QED BY <2>1, LogFacts DEF BlockOf
<1> DEFINE b == BlockOf(p)
<1> HIDE DEF b
<1>3. WellFormed(b) /\ k \in ReceivedTokens(b)
  BY <1>2 DEF b
<1>4. PICK scr \in b.scrs : \E x \in scr.tokens : k \in extractNewSovereignTokens(x)
  BY <1>3 DEF ReceivedTokens
<1> PICK x \in scr.tokens : k \in extractNewSovereignTokens(x)
  BY <1>4
<1>5. x.token # ""
  BY <1>3 DEF WellFormed
<1> DEFINE t == x.token
           u == Key("tokens", t, x.nonce, "")
           w == DocKey("tokens", t)
<1>6. k = [u EXCEPT !.holder = x.prefix] \/ k = w
  BY DEF extractNewSovereignTokens
<1>7. k.index = "tokens" /\ k.id = t
  <2>1. u = [index |-> "tokens", id |-> t, nonce |-> x.nonce, holder |-> ""]
    BY DEF Key
  <2>2. w.index = "tokens" /\ w.id = t
    BY DEF DocKey, Key
  <2> HIDE DEF u, w, t
  <2>3. CASE k = [u EXCEPT !.holder = x.prefix]
    BY <2>1, <2>3
  <2> QED BY <1>6, <2>2, <2>3
<1>8. NoId.id = ""
  BY DEF NoId, DocKey, Key
<1> QED BY <1>5, <1>7, <1>8 DEF IsTokenKey

(* The invariant holds at the beginning,                                   *)
LEMMA CopiesInit == Init => CopiesInv
<1> SUFFICES ASSUME Init PROVE CopiesInv
  OBVIOUS
<1>1. PICK sc \in Scenarios :
        /\ log = sc.log /\ docs = sc.docs /\ base = sc.docs
        /\ visible = Restrict(sc.docs, UNION {Findable(sc.docs, index) : index \in Searched})
        /\ acked = [s \in Shards |-> 0] /\ pc = [s \in Shards |-> "idle"]
        /\ local = [s \in Shards |-> NoLocal] /\ history = <<>>
  BY DEF Init
<1>2. DocumentsOK
  <2>1. IsFiniteSet(DOMAIN docs)
    BY <1>1, DocumentsAssumption
  <2>2. DOMAIN visible \in SUBSET DOMAIN docs
    BY <1>1 DEF Restrict, Findable
  <2>3. IsFiniteSet(DOMAIN visible)
    BY <2>1, <2>2, FS_Subset
  <2>4. IsSeq(history)
    BY <1>1, EmptyIsSeq
  <2> QED BY <1>1, <2>1, <2>3, <2>4 DEF DocumentsOK
<1>3. HandlersOK
  <2>1. acked \in [Shards -> Nat] /\ pc \in [Shards -> SaveParts \cup RevertParts \cup {"idle", "ack"}]
    BY <1>1
  <2>2. local = [s \in Shards |-> local[s]]
    BY <1>1
  <2>3. \A s \in Shards : pc[s] = "idle" /\ local[s] = NoLocal /\ LocalOK(local[s])
    BY <1>1, NoLocalOK
  <2> QED BY <2>1, <2>2, <2>3 DEF HandlersOK, SaveParts, RevertParts
<1>4. ASSUME NEW k PROVE CopiesOK(k)
  <2>1. DocOf(k)
    BY <1>1 DEF DocOf, Known
  <2>2. AckedOf(k)
    <3>1. ASSUME NEW p \in Places PROVE ~IsAcked(p)
      <4>1. PICK t \in Shards : \E n \in DOMAIN log[t] : p = <<t, n>>
        BY DEF Places
      <4>2. IsSeq(log[t])
        BY <1>2, LogFacts
      <4>3. DOMAIN log[t] = 1..Len(log[t]) /\ Len(log[t]) \in Nat
        BY <4>2, SeqIsFcn
      <4> QED BY <1>1, <4>1, <4>3 DEF IsAcked
    <3> QED BY <3>1 DEF AckedOf
  <2>3. ASSUME NEW s \in Shards PROVE HandlerOf(k, s)
    <3>1. pc[s] = "idle" /\ local[s] = NoLocal
      BY <1>1
    <3> QED BY <3>1, EmptyBuffer DEF HandlerOf
  <2> QED BY <2>1, <2>2, <2>3 DEF CopiesOK
<1> QED BY <1>2, <1>3, <1>4 DEF CopiesInv

(* ... every step keeps it,                                                *)
LEMMA CopiesNext == CopiesInv /\ [Next]_vars => CopiesInv'
<1> SUFFICES ASSUME CopiesInv, [Next]_vars PROVE CopiesInv'
  OBVIOUS
<1>1. ASSUME NEW k, IsTokenKey(k) PROVE Invs(k)'
  <2>1. Invs(k)
    BY <1>1 DEF CopiesInv, Invs
  <2> QED BY <1>1, <2>1, EveryStep DEF IsTokenKey
<1>2. DocumentsOK' /\ HandlersOK'
  <2>1. IsTokenKey(DocKey("tokens", "a token"))
    BY DEF IsTokenKey, NoId, DocKey, Key
  <2> QED BY <1>1, <2>1 DEF Invs
<1>3. ASSUME NEW k, IsTokenKey(k), OnlyCopied(k)' PROVE CopiesOK(k)'
  BY <1>1, <1>3 DEF Invs
<1> QED BY <1>2, <1>3 DEF CopiesInv, IsTokenKey

(* ... and it implies CrossChainTokens.                                    *)
LEMMA CopiesHold == CopiesInv => CrossChainTokens
<1> SUFFICES ASSUME CopiesInv, NEW p \in Places, IsAcked(p), NEW k \in ReceivedTokens(BlockOf(p)), OnlyCopied(k)
             PROVE  IF k \in DOMAIN base THEN DoGet(docs, k) = base[k]
                    ELSE k \in DOMAIN MainChainTokens => DoGet(docs, k) = formatToken(MainChainTokens[k])
  BY DEF CrossChainTokens
<1>1. IsTokenKey(k)
  BY ReceivedKey DEF CopiesInv
<1>2. DocOf(k) /\ AckedOf(k)
  BY <1>1 DEF CopiesInv, CopiesOK
<1>3. OnMainChain(k) => Known(k)
  BY <1>2 DEF AckedOf, Brought
<1> QED BY <1>2, <1>3 DEF DocOf, Known, OnMainChain, Copy, DoGet

(* For any shards, messages, documents and number of failures: when a      *)
(* block is acknowledged, every token that its results brought from the    *)
(* main chain has the document that was there before, or else the one of   *)
(* the main chain, unless this chain changed the token itself; whatever    *)
(* handlers copy it at the same time, and whatever fails or is repeated    *)
(* (IndexCrossChainTokens).                                                *)
THEOREM CrossChainTokensHold == Spec => []CrossChainTokens
<1>1. Init => CopiesInv
  BY CopiesInit
<1>2. CopiesInv /\ [Next]_vars => CopiesInv'
  BY CopiesNext
<1>3. CopiesInv => CrossChainTokens
  BY CopiesHold
<1> QED BY <1>1, <1>2, <1>3, PTL DEF Spec
=============================================================================
