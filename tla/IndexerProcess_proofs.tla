----------------------- MODULE IndexerProcess_proofs -----------------------
(***************************************************************************)
(* A cluster that a starter calls set up has every index with its template *)
(* and its alias, and an answer for Prometheus never has more errors than  *)
(* operations: for any starters, indexes, templates, handlers, readers,    *)
(* failures, signals and restarts.                                         *)
(***************************************************************************)
EXTENDS IndexerProcess, Integers, TLAPS

(* The elements of a concatenation.                                        *)
LEMMA Concatenation ==
  ASSUME NEW S, NEW s \in Seq(S), NEW t \in Seq(S)
  PROVE  /\ s \o t \in Seq(S) /\ Len(s \o t) = Len(s) + Len(t)
         /\ \A i \in 1..Len(s) : (s \o t)[i] = s[i]
         /\ \A i \in 1..Len(t) : (s \o t)[Len(s) + i] = t[i]
OBVIOUS

(* The steps of elasticProcessor.init: the template of OpenDistro, then a  *)
(* template, an index and an alias for every name of indexes, and the      *)
(* version last.                                                           *)
LEMMA InitSteps ==
  LET n == Len(Indexes)
  IN  /\ n \in Nat /\ DOMAIN Indexes = 1..n
      /\ Len(init) = 3 * n + 2
      /\ init[1] = Step("template", OpenDistroIndex)
      /\ \A i \in 1..n : /\ Indexes[i] \in IndexNames
                         /\ init[1 + i] = Step("template", Indexes[i])
                         /\ init[1 + (n + i)] = Step("index", Indexes[i])
                         /\ init[1 + (2 * n + i)] = Step("alias", Indexes[i])
      /\ init[1 + (3 * n + 1)] = Step("version", Values)
<1> DEFINE n == Len(Indexes)
           S == [kind : {"template", "index", "alias", "version"}, name : Names]
           O == createOpenDistroTemplates
           T == createIndexTemplates
           I == createIndexes
           A == createAliases
           V == indexVersion
<1>1. n \in Nat /\ DOMAIN Indexes = 1..n
  BY SetupAssumption
<1>2. \A i \in 1..n : Indexes[i] \in IndexNames
  BY <1>1 DEF IndexNames
<1>3. ASSUME NEW kind \in {"template", "index", "alias", "version"}
      PROVE  /\ StepsOf(kind) \in Seq(S) /\ Len(StepsOf(kind)) = n
             /\ \A i \in 1..n : StepsOf(kind)[i] = Step(kind, Indexes[i])
  BY <1>1, <1>2 DEF StepsOf, Step, Names
<1>4. /\ T \in Seq(S) /\ Len(T) = n /\ \A i \in 1..n : T[i] = Step("template", Indexes[i])
      /\ I \in Seq(S) /\ Len(I) = n /\ \A i \in 1..n : I[i] = Step("index", Indexes[i])
      /\ A \in Seq(S) /\ Len(A) = n /\ \A i \in 1..n : A[i] = Step("alias", Indexes[i])
  BY <1>3 DEF createIndexTemplates, createIndexes, createAliases
<1>5. V \in Seq(S) /\ Len(V) = 1 /\ V[1] = Step("version", Values)
  BY SetupAssumption DEF indexVersion, Step, Names
<1>o. O \in Seq(S) /\ Len(O) = 1 /\ O[1] = Step("template", OpenDistroIndex)
  BY DEF createOpenDistroTemplates, Step, Names
<1> HIDE DEF n, O, T, I, A, V, S
<1>6. init = O \o (((T \o I) \o A) \o V)
  BY DEF init, O, T, I, A, V
<1>7. /\ T \o I \in Seq(S) /\ Len(T \o I) = 2 * n
      /\ \A i \in 1..n : (T \o I)[i] = T[i] /\ (T \o I)[n + i] = I[i]
  BY <1>1, <1>4
<1> DEFINE TI == T \o I
<1> HIDE DEF TI
<1>8. /\ TI \o A \in Seq(S) /\ Len(TI \o A) = 3 * n
      /\ \A i \in 1..n : /\ (TI \o A)[i] = T[i]
                         /\ (TI \o A)[n + i] = I[i]
                         /\ (TI \o A)[2 * n + i] = A[i]
  <2>1. TI \in Seq(S) /\ Len(TI) = 2 * n /\ \A i \in 1..n : TI[i] = T[i] /\ TI[n + i] = I[i]
    BY <1>7 DEF TI
  <2>2. /\ TI \o A \in Seq(S) /\ Len(TI \o A) = Len(TI) + Len(A)
        /\ \A i \in 1..Len(TI) : (TI \o A)[i] = TI[i]
        /\ \A i \in 1..Len(A) : (TI \o A)[Len(TI) + i] = A[i]
    <3>1. TI \in Seq(S) /\ A \in Seq(S)
      BY <1>4, <2>1
    <3> QED
      BY <3>1, Concatenation
  <2>3. \A i \in 1..n : i \in 1..Len(TI) /\ n + i \in 1..Len(TI)
    BY <1>1, <2>1
  <2> QED
    <3>1. ASSUME NEW i \in 1..n
          PROVE  (TI \o A)[i] = T[i] /\ (TI \o A)[n + i] = I[i]
      BY <2>1, <2>2, <2>3
    <3>2. ASSUME NEW i \in 1..n
          PROVE  (TI \o A)[2 * n + i] = A[i]
      BY <1>4, <2>1, <2>2
    <3>3. Len(TI) + Len(A) = 3 * n
      BY <1>1, <1>4, <2>1
    <3> QED
      BY <2>2, <3>1, <3>2, <3>3
<1> DEFINE TIA == TI \o A
<1> HIDE DEF TIA
<1>9. /\ TIA \o V \in Seq(S) /\ Len(TIA \o V) = 3 * n + 1
      /\ \A i \in 1..n : /\ (TIA \o V)[i] = T[i]
                         /\ (TIA \o V)[n + i] = I[i]
                         /\ (TIA \o V)[2 * n + i] = A[i]
      /\ (TIA \o V)[3 * n + 1] = V[1]
  <2>1. /\ TIA \in Seq(S) /\ Len(TIA) = 3 * n
        /\ \A i \in 1..n : /\ TIA[i] = T[i] /\ TIA[n + i] = I[i] /\ TIA[2 * n + i] = A[i]
    BY <1>8 DEF TIA
  <2>2. /\ TIA \o V \in Seq(S) /\ Len(TIA \o V) = Len(TIA) + Len(V)
        /\ \A i \in 1..Len(TIA) : (TIA \o V)[i] = TIA[i]
        /\ \A i \in 1..Len(V) : (TIA \o V)[Len(TIA) + i] = V[i]
    BY <1>5, <2>1, Concatenation
  <2>3. \A i \in 1..n : {i, n + i, 2 * n + i} \subseteq 1..Len(TIA)
    BY <1>1, <2>1
  <2> QED
    <3>1. ASSUME NEW i \in 1..n
          PROVE  /\ (TIA \o V)[i] = T[i]
                 /\ (TIA \o V)[n + i] = I[i]
                 /\ (TIA \o V)[2 * n + i] = A[i]
      BY <2>1, <2>2, <2>3
    <3>2. (TIA \o V)[3 * n + 1] = V[1] /\ Len(TIA \o V) = 3 * n + 1
      BY <1>1, <1>5, <2>1, <2>2
    <3> QED
      BY <2>2, <3>1, <3>2
<1> DEFINE R == TIA \o V
<1> HIDE DEF R
<1>10. /\ R \in Seq(S) /\ Len(R) = 3 * n + 1
       /\ \A i \in 1..n : /\ R[i] = T[i] /\ R[n + i] = I[i] /\ R[2 * n + i] = A[i]
       /\ R[3 * n + 1] = V[1]
  BY <1>9 DEF R
<1>11. /\ Len(O \o R) = Len(O) + Len(R)
       /\ \A i \in 1..Len(O) : (O \o R)[i] = O[i]
       /\ \A i \in 1..Len(R) : (O \o R)[Len(O) + i] = R[i]
  <2>1. O \in Seq(S) /\ R \in Seq(S)
    BY <1>o, <1>10
  <2> QED
    BY <2>1, Concatenation
<1>12. Len(O \o R) = 3 * n + 2 /\ (O \o R)[1] = O[1]
  BY <1>o, <1>1, <1>10, <1>11
<1>13. \A i \in 1..(3 * n + 1) : (O \o R)[1 + i] = R[i]
  BY <1>o, <1>10, <1>11
<1>14. /\ \A i \in 1..n : {i, n + i, 2 * n + i} \subseteq 1..(3 * n + 1)
       /\ 3 * n + 1 \in 1..(3 * n + 1)
  BY <1>1
<1>15. /\ \A i \in 1..n : /\ (O \o R)[1 + i] = T[i]
                          /\ (O \o R)[1 + (n + i)] = I[i]
                          /\ (O \o R)[1 + (2 * n + i)] = A[i]
       /\ (O \o R)[1 + (3 * n + 1)] = V[1]
  BY <1>10, <1>13, <1>14
<1>16. init = O \o R
  BY <1>6 DEF R, TIA, TI
<1> QED
  BY <1>o, <1>1, <1>2, <1>4, <1>5, <1>12, <1>15, <1>16 DEF n

(* The steps of createTemplates of indices-creator: the template, the      *)
(* index and the alias of one name, then those of the next.                *)
LEMMA CreatorSteps ==
  ASSUME mapOrder \in MapOrders
  PROVE  /\ Len(mapOrder) \in Nat /\ DOMAIN mapOrder = 1..Len(mapOrder)
         /\ Len(createTemplates) = 3 * Len(mapOrder)
         /\ \A j \in 1..Len(mapOrder) :
              /\ mapOrder[j] \in Templates
              /\ createTemplates[3 * j - 2] = Step("template", mapOrder[j])
              /\ createTemplates[3 * j - 1] = Step("index", mapOrder[j])
              /\ createTemplates[3 * j] = Step("alias", mapOrder[j])
         /\ \A i \in 1..Len(createTemplates) :
              \E j \in 1..Len(mapOrder) : i \in {3 * j - 2, 3 * j - 1, 3 * j}
<1> DEFINE m == Len(mapOrder)
           kinds == <<"template", "index", "alias">>
<1>1. mapOrder \in Seq(Templates)
  BY SetupAssumption
<1>2. m \in Nat /\ DOMAIN mapOrder = 1..m /\ \A j \in 1..m : mapOrder[j] \in Templates
  BY <1>1
<1>3. /\ Len(createTemplates) = 3 * m
      /\ \A i \in 1..3 * m :
           createTemplates[i] = Step(kinds[((i - 1) % 3) + 1], mapOrder[((i - 1) \div 3) + 1])
  BY <1>2 DEF createTemplates
<1>4. ASSUME NEW j \in 1..m
      PROVE  /\ 3 * j - 2 \in 1..3 * m /\ (3 * j - 3) % 3 = 0 /\ (3 * j - 3) \div 3 = j - 1
             /\ 3 * j - 1 \in 1..3 * m /\ (3 * j - 2) % 3 = 1 /\ (3 * j - 2) \div 3 = j - 1
             /\ 3 * j \in 1..3 * m /\ (3 * j - 1) % 3 = 2 /\ (3 * j - 1) \div 3 = j - 1
  BY <1>2
<1>5. ASSUME NEW j \in 1..m
      PROVE  /\ createTemplates[3 * j - 2] = Step("template", mapOrder[j])
             /\ createTemplates[3 * j - 1] = Step("index", mapOrder[j])
             /\ createTemplates[3 * j] = Step("alias", mapOrder[j])
  <2>1. createTemplates[3 * j - 2] = Step(kinds[1], mapOrder[j])
    <3>1. (((3 * j - 2) - 1) % 3) + 1 = 1 /\ (((3 * j - 2) - 1) \div 3) + 1 = j
      BY <1>2, <1>4
    <3> QED
      BY <1>3, <1>4, <3>1
  <2>2. createTemplates[3 * j - 1] = Step(kinds[2], mapOrder[j])
    <3>1. (((3 * j - 1) - 1) % 3) + 1 = 2 /\ (((3 * j - 1) - 1) \div 3) + 1 = j
      BY <1>2, <1>4
    <3> QED
      BY <1>3, <1>4, <3>1
  <2>3. createTemplates[3 * j] = Step(kinds[3], mapOrder[j])
    <3>1. (((3 * j) - 1) % 3) + 1 = 3 /\ (((3 * j) - 1) \div 3) + 1 = j
      BY <1>2, <1>4
    <3> QED
      BY <1>3, <1>4, <3>1
  <2> QED
    BY <2>1, <2>2, <2>3
<1>6. ASSUME NEW i \in 1..3 * m
      PROVE  \E j \in 1..m : i \in {3 * j - 2, 3 * j - 1, 3 * j}
  <2>1. PICK j \in Int : 3 * j - 2 <= i /\ i <= 3 * j
    <3>1. i \in Nat /\ 3 * (((i - 1) \div 3) + 1) - 2 <= i /\ i <= 3 * (((i - 1) \div 3) + 1)
      BY <1>2
    <3> QED
      BY <3>1
  <2>2. j \in 1..m
    BY <2>1, <1>2
  <2> QED
    BY <2>1, <2>2
<1> QED
  BY <1>2, <1>3, <1>5, <1>6
-----------------------------------------------------------------------------
Kinds == {"template", "index", "alias", "version"}

(* Where the kinds of steps stand: the index of a name comes after its     *)
(* template, the version after every alias, and a starter has an index and *)
(* an alias step for every name that it handles.                           *)
LEMMA StepOrder ==
  ASSUME mapOrder \in MapOrders, NEW p \in Starters
  PROVE  LET steps == StepsFor(p)
         IN  /\ Len(steps) \in Nat
             /\ \A i \in 1..Len(steps) :
                  /\ steps[i].kind \in Kinds /\ steps[i].name \in Names
                  /\ steps[i].kind = "index" /\ steps[i].name \in Templates =>
                       \E j \in 1..(i - 1) : steps[j] = Step("template", steps[i].name)
                  /\ steps[i].kind = "version" =>
                       /\ ~IsCreator[p] /\ steps[i].name \in IndexNames
                       /\ \A x \in IndexNames : \E j \in 1..(i - 1) : steps[j] = Step("alias", x)
             /\ \A x \in NamesOf(p) :
                  /\ x \in Names
                  /\ \E i \in 1..Len(steps) : steps[i] = Step("index", x)
                  /\ \E i \in 1..Len(steps) : steps[i] = Step("alias", x)
<1>1. CASE IsCreator[p]
  <2> DEFINE m == Len(mapOrder)
             steps == createTemplates
  <2>1. StepsFor(p) = steps /\ NamesOf(p) = {mapOrder[j] : j \in 1..m}
    BY <1>1, CreatorSteps DEF StepsFor, NamesOf
  <2>2. /\ m \in Nat /\ Len(steps) = 3 * m
        /\ \A j \in 1..m : /\ mapOrder[j] \in Templates /\ mapOrder[j] \in Names
                           /\ steps[3 * j - 2] = Step("template", mapOrder[j])
                           /\ steps[3 * j - 1] = Step("index", mapOrder[j])
                           /\ steps[3 * j] = Step("alias", mapOrder[j])
        /\ \A i \in 1..3 * m : \E j \in 1..m : i \in {3 * j - 2, 3 * j - 1, 3 * j}
    BY CreatorSteps, SetupAssumption
  <2> HIDE DEF m, steps
  <2>3. ASSUME NEW i \in 1..3 * m
        PROVE  /\ steps[i].kind \in {"template", "index", "alias"} /\ steps[i].name \in Names
               /\ steps[i].kind = "index" =>
                    \E j \in 1..(i - 1) : steps[j] = Step("template", steps[i].name)
    <3>1. PICK j \in 1..m : i \in {3 * j - 2, 3 * j - 1, 3 * j}
      BY <2>2
    <3>2. CASE i = 3 * j - 2
      <4>1. steps[i] = Step("template", mapOrder[j]) /\ mapOrder[j] \in Names
        BY <3>1, <3>2, <2>2
      <4> QED
        BY <4>1 DEF Step
    <3>3. CASE i = 3 * j - 1
      <4>1. steps[i] = Step("index", mapOrder[j]) /\ mapOrder[j] \in Names
        BY <3>1, <3>3, <2>2
      <4>2. 3 * j - 2 \in 1..(i - 1) /\ steps[3 * j - 2] = Step("template", mapOrder[j])
        BY <3>1, <3>3, <2>2
      <4> QED
        BY <4>1, <4>2 DEF Step
    <3>4. CASE i = 3 * j
      <4>1. steps[i] = Step("alias", mapOrder[j]) /\ mapOrder[j] \in Names
        BY <3>1, <3>4, <2>2
      <4> QED
        BY <4>1 DEF Step
    <3> QED
      BY <3>1, <3>2, <3>3, <3>4
  <2>4. ASSUME NEW x \in NamesOf(p)
        PROVE  /\ x \in Names
               /\ \E i \in 1..Len(steps) : steps[i] = Step("index", x)
               /\ \E i \in 1..Len(steps) : steps[i] = Step("alias", x)
    <3>1. PICK j \in 1..m : x = mapOrder[j]
      BY <2>1
    <3>2. 3 * j - 1 \in 1..Len(steps) /\ 3 * j \in 1..Len(steps)
      BY <2>2
    <3> QED
      BY <3>1, <3>2, <2>2
  <2>5. \A i \in 1..Len(steps) :
          /\ steps[i].kind \in Kinds /\ steps[i].kind # "version" /\ steps[i].name \in Names
          /\ steps[i].kind = "index" =>
               \E j \in 1..(i - 1) : steps[j] = Step("template", steps[i].name)
    BY <2>2, <2>3 DEF Kinds
  <2>6. Len(steps) \in Nat
    BY <2>2
  <2> QED
    BY <1>1, <2>1, <2>4, <2>5, <2>6
<1>2. CASE ~IsCreator[p]
  <2> DEFINE n == Len(Indexes)
             steps == init
  <2>1. StepsFor(p) = steps /\ NamesOf(p) = IndexNames /\ IndexNames = {Indexes[i] : i \in 1..n}
    BY <1>2, InitSteps DEF StepsFor, NamesOf, IndexNames
  <2>2. /\ n \in Nat /\ Len(steps) = 3 * n + 2
        /\ steps[1] = Step("template", OpenDistroIndex) /\ OpenDistroIndex \in Names
        /\ \A i \in 1..n : /\ Indexes[i] \in IndexNames /\ Indexes[i] \in Names
                           /\ steps[1 + i] = Step("template", Indexes[i])
                           /\ steps[1 + (n + i)] = Step("index", Indexes[i])
                           /\ steps[1 + (2 * n + i)] = Step("alias", Indexes[i])
        /\ steps[1 + (3 * n + 1)] = Step("version", Values)
    BY InitSteps DEF Names
  <2> HIDE DEF n, steps
  <2>3. ASSUME NEW x \in IndexNames
        PROVE  /\ \E i \in 1..Len(steps) : steps[i] = Step("index", x)
               /\ \E i \in 1..(3 * n + 1) : steps[i] = Step("alias", x)
    <3>1. PICK j \in 1..n : x = Indexes[j]
      BY <2>1
    <3>2. 1 + (n + j) \in 1..Len(steps) /\ 1 + (2 * n + j) \in 1..(3 * n + 1)
      BY <2>2
    <3> QED
      BY <3>1, <3>2, <2>2
  <2>4. ASSUME NEW i \in 1..Len(steps)
        PROVE  /\ steps[i].kind \in Kinds /\ steps[i].name \in Names
               /\ steps[i].kind = "index" =>
                    \E j \in 1..(i - 1) : steps[j] = Step("template", steps[i].name)
               /\ steps[i].kind = "version" =>
                    /\ steps[i].name \in IndexNames
                    /\ \A x \in IndexNames : \E j \in 1..(i - 1) : steps[j] = Step("alias", x)
    <3>0. CASE i = 1
      BY <3>0, <2>2 DEF Step, Kinds
    <3>1. CASE i \in 2..(n + 1)
      <4>1. i - 1 \in 1..n /\ i = 1 + (i - 1)
        BY <3>1, <2>2
      <4>2. steps[i] = Step("template", Indexes[i - 1]) /\ Indexes[i - 1] \in Names
        BY <4>1, <2>2
      <4> QED
        BY <4>2 DEF Step, Kinds
    <3>2. CASE i \in (n + 2)..(2 * n + 1)
      <4> DEFINE j == i - 1 - n
      <4>1. j \in 1..n /\ i = 1 + (n + j) /\ 1 + j \in 1..(i - 1)
        BY <3>2, <2>2
      <4> HIDE DEF j
      <4>2. steps[i] = Step("index", Indexes[j]) /\ Indexes[j] \in Names
        BY <4>1, <2>2
      <4>3. steps[1 + j] = Step("template", Indexes[j])
        BY <4>1, <2>2
      <4> QED
        BY <4>1, <4>2, <4>3 DEF Step, Kinds
    <3>3. CASE i \in (2 * n + 2)..(3 * n + 1)
      <4> DEFINE j == i - 1 - 2 * n
      <4>1. j \in 1..n /\ i = 1 + (2 * n + j)
        BY <3>3, <2>2
      <4> HIDE DEF j
      <4>2. steps[i] = Step("alias", Indexes[j]) /\ Indexes[j] \in Names
        BY <4>1, <2>2
      <4> QED
        BY <4>2 DEF Step, Kinds
    <3>4. CASE i = 3 * n + 2
      <4>1. i = 1 + (3 * n + 1) /\ i - 1 = 3 * n + 1
        BY <3>4, <2>2
      <4>2. steps[i] = Step("version", Values) /\ Values \in IndexNames
        BY <4>1, <2>2, SetupAssumption
      <4>3. \A x \in IndexNames : \E j \in 1..(i - 1) : steps[j] = Step("alias", x)
        BY <4>1, <2>3
      <4>4. steps[i].kind = "version" /\ steps[i].name \in IndexNames /\ steps[i].name \in Names
        BY <4>2 DEF Step, Names
      <4> QED
        BY <4>3, <4>4 DEF Kinds
    <3> QED
      BY <3>0, <3>1, <3>2, <3>3, <3>4, <2>2
  <2>5. 1..(3 * n + 1) \subseteq 1..Len(steps)
    BY <2>2
  <2>6. \A x \in IndexNames : /\ x \in Names
                              /\ \E i \in 1..Len(steps) : steps[i] = Step("index", x)
                              /\ \E i \in 1..Len(steps) : steps[i] = Step("alias", x)
    BY <2>3, <2>5 DEF Names
  <2>7. Len(steps) \in Nat
    BY <2>2
  <2> QED
    BY <1>2, <2>1, <2>4, <2>6, <2>7
<1> QED
  BY <1>1, <1>2
-----------------------------------------------------------------------------
(* What a step of a starter leaves in the cluster.                         *)
Done(p, s) ==
  /\ s.kind = "template" => s.name \in templates \cup legacy \/ s.name \notin Templates
  /\ s.kind = "index" => index[s.name] # "none"
  /\ s.kind = "alias" => s.name \in alias \/ (IsCreator[p] /\ s.name \in aliasLost)

(* A starter is somewhere in its steps, and those before are accomplished. *)
Progress(p) ==
  /\ setup[p] \in [at : Nat \ {0}, create : BOOLEAN]
  /\ setup[p].at <= Len(StepsFor(p)) + 1
  /\ \A i \in 1..(setup[p].at - 1) : Done(p, StepsFor(p)[i])

ClusterInv ==
  /\ mapOrder \in MapOrders
  /\ DOMAIN setup = Starters
  /\ index \in [Names -> {"none", "from template", "dynamic"}]
  /\ \A x \in Names : index[x] = "dynamic" => x \notin Templates
  /\ implicit = {}
  /\ \A p \in Starters : Progress(p)

(* The invariant of the set-up: the cluster, and a process with a handler  *)
(* of messages has set it up.                                              *)
SetupInv == ClusterInv /\ (Handling => SetUp(self))

(* Nothing is taken from the cluster.                                      *)
Grows ==
  /\ mapOrder' = mapOrder
  /\ legacy \subseteq legacy' /\ templates \subseteq templates'
  /\ alias \subseteq alias' /\ aliasLost \subseteq aliasLost'
  /\ \A x \in Names : index[x] # "none" => index'[x] # "none"

(* What was accomplished stays so.                                         *)
LEMMA DoneStays ==
  ASSUME Grows, NEW p \in Starters, NEW s, s.name \in Names, Done(p, s)
  PROVE  Done(p, s)'
BY DEF Done, Grows

(* A starter that does not move keeps its progress, one that begins again  *)
(* has none to show, and one that goes on has to show its last step.       *)
LEMMA ProgressStays ==
  ASSUME ClusterInv, Grows, NEW p \in Starters,
         \/ setup'[p] = setup[p]
         \/ setup'[p] = NotStarted
         \/ setup'[p] = [setup[p] EXCEPT !.create = TRUE]
         \/ /\ ~SetUp(p) /\ setup'[p] = [at |-> setup[p].at + 1, create |-> FALSE]
            /\ \E s : s = StepsFor(p)[setup[p].at] /\ Done(p, s)'
  PROVE  Progress(p)'
<1> DEFINE steps == StepsFor(p)
           at == setup[p].at
<1>1. steps' = steps
  BY DEF Grows, StepsFor, createTemplates
<1>2. /\ Len(steps) \in Nat /\ at \in Nat \ {0} /\ at <= Len(steps) + 1
      /\ \A i \in 1..(at - 1) : Done(p, steps[i])
      /\ setup[p] \in [at : Nat \ {0}, create : BOOLEAN]
  BY StepOrder DEF ClusterInv, Progress
<1>3. \A i \in 1..(at - 1) : \E s : s = steps[i] /\ Done(p, s)'
  <2>1. SUFFICES ASSUME NEW i \in 1..(at - 1), NEW s, s = steps[i]
                 PROVE  Done(p, s)'
    OBVIOUS
  <2>2. Done(p, s)
    BY <1>2, <2>1
  <2>3. i \in 1..Len(steps)
    BY <1>2
  <2>4. s.name \in Names
    BY <2>1, <2>3, StepOrder DEF ClusterInv
  <2> QED
    BY <2>2, <2>4, DoneStays
<1> HIDE DEF steps, at
<1>p. ASSUME setup'[p] \in [at : Nat \ {0}, create : BOOLEAN], setup'[p].at <= Len(steps) + 1,
             \A i \in 1..(setup'[p].at - 1) : \E s : s = steps[i] /\ Done(p, s)'
      PROVE  Progress(p)'
  <2>1. ASSUME NEW i \in 1..(setup'[p].at - 1)
        PROVE  Done(p, steps[i])'
    <3>1. PICK s : s = steps[i] /\ Done(p, s)'
      BY <1>p
    <3>2. s = steps'[i]
      BY <3>1, <1>1
    <3> QED
      BY <3>1, <3>2
  <2> QED
    BY <2>1, <1>1, <1>p DEF Progress, steps
<1>4. CASE setup'[p] = setup[p]
  BY <1>p, <1>2, <1>3, <1>4 DEF at
<1>5. CASE setup'[p] = NotStarted
  <2>1. setup'[p].at = 1 /\ setup'[p] \in [at : Nat \ {0}, create : BOOLEAN]
    BY <1>5 DEF NotStarted
  <2> QED
    BY <1>p, <1>2, <2>1
<1>6. CASE setup'[p] = [setup[p] EXCEPT !.create = TRUE]
  <2>1. setup'[p].at = at /\ setup'[p] \in [at : Nat \ {0}, create : BOOLEAN]
    BY <1>2, <1>6 DEF at
  <2> QED
    BY <1>p, <1>2, <1>3, <2>1
<1>7. CASE /\ ~SetUp(p) /\ setup'[p] = [at |-> setup[p].at + 1, create |-> FALSE]
           /\ \E s : s = StepsFor(p)[setup[p].at] /\ Done(p, s)'
  <2>1. at <= Len(steps)
    BY <1>2, <1>7 DEF SetUp, at, steps
  <2>2. setup'[p].at = at + 1 /\ setup'[p] \in [at : Nat \ {0}, create : BOOLEAN]
    BY <1>2, <1>7 DEF at
  <2>3. \E s : s = steps[at] /\ Done(p, s)'
    BY <1>7 DEF at, steps
  <2>4. \A i \in 1..at : i \in 1..(at - 1) \/ i = at
    BY <1>2
  <2>5. \A i \in 1..at : \E s : s = steps[i] /\ Done(p, s)'
    BY <1>3, <2>3, <2>4
  <2> QED
    BY <1>p, <1>2, <2>1, <2>2, <2>5
<1> QED
  BY <1>4, <1>5, <1>6, <1>7
(* A cluster that nobody touches, with starters that stay or begin again.  *)
LEMMA ClusterStays ==
  ASSUME ClusterInv, UNCHANGED <<cluster, mapOrder, aliasLost>>,
         DOMAIN setup' = Starters,
         \A p \in Starters : setup'[p] = setup[p] \/ setup'[p] = NotStarted
  PROVE  ClusterInv'
<1>1. Grows
  BY DEF Grows, cluster
<1>2. \A p \in Starters : Progress(p)'
  BY <1>1, ProgressStays
<1> QED
  BY <1>2 DEF ClusterInv, cluster

(* A starter's request goes through, or what it is for is there already:   *)
(* no index comes before its template, no write before its alias.          *)
LEMMA StarterSteps ==
  ASSUME ClusterInv, NEW p \in Starters, SetupStep(p)
  PROVE  /\ ClusterInv'
         /\ \A q \in Starters : q # p => setup'[q] = setup[q]
<1> DEFINE at == setup[p].at
           Goes == /\ ~SetUp(p) /\ Continue(p)
                   /\ \E s : s = StepsFor(p)[at] /\ Done(p, s)'
<1>1. /\ at \in Nat \ {0} /\ ~SetUp(p)
      /\ \A i \in 1..(at - 1) : Done(p, StepsFor(p)[i])
  <2>1. Progress(p)
    BY DEF ClusterInv
  <2>2. ~SetUp(p)
    BY DEF SetupStep, SkipTemplate, SkipsTemplate, CheckExists, Create, CreateAliasFails
  <2> QED
    BY <2>1, <2>2 DEF Progress
<1>2. PICK s : s = StepsFor(p)[at]
  OBVIOUS
<1>3. at \in 1..Len(StepsFor(p))
  <2>1. Len(StepsFor(p)) \in Nat
    BY StepOrder DEF ClusterInv
  <2> QED
    BY <1>1, <2>1 DEF SetUp
<1>4. /\ s.kind \in Kinds /\ s.name \in Names
      /\ s.kind = "index" /\ s.name \in Templates =>
           \E j \in 1..(at - 1) : StepsFor(p)[j] = Step("template", s.name)
      /\ s.kind = "version" =>
           /\ ~IsCreator[p] /\ s.name \in IndexNames
           /\ \A x \in IndexNames : \E j \in 1..(at - 1) : StepsFor(p)[j] = Step("alias", x)
  <2> DEFINE steps == StepsFor(p)
  <2>1. mapOrder \in MapOrders
    BY DEF ClusterInv
  <2>2. \A i \in 1..Len(steps) :
          /\ steps[i].kind \in Kinds /\ steps[i].name \in Names
          /\ steps[i].kind = "index" /\ steps[i].name \in Templates =>
               \E j \in 1..(i - 1) : steps[j] = Step("template", steps[i].name)
          /\ steps[i].kind = "version" =>
               /\ ~IsCreator[p] /\ steps[i].name \in IndexNames
               /\ \A x \in IndexNames : \E j \in 1..(i - 1) : steps[j] = Step("alias", x)
    BY <2>1, StepOrder
  <2> HIDE DEF steps, at
  <2> QED
    BY <1>2, <1>3, <2>2 DEF steps
<1>5. ASSUME Grows, implicit' = {},
             index' \in [Names -> {"none", "from template", "dynamic"}],
             \A x \in Names : index'[x] = "dynamic" => x \notin Templates,
             \/ Continue(p) /\ Done(p, s)'
             \/ setup' = [setup EXCEPT ![p].create = TRUE]
      PROVE  /\ ClusterInv'
             /\ \A q \in Starters : q # p => setup'[q] = setup[q]
  <2>1. DOMAIN setup = Starters
    BY DEF ClusterInv
  <2>2. /\ DOMAIN setup' = Starters
        /\ \A q \in Starters : q # p => setup'[q] = setup[q]
    BY <1>5, <2>1 DEF Continue
  <2>3. \/ setup'[p] = [setup[p] EXCEPT !.create = TRUE]
        \/ setup'[p] = [at |-> at + 1, create |-> FALSE] /\ Done(p, s)'
    BY <1>5, <2>1 DEF Continue
  <2>4. \A q \in Starters : Progress(q)'
    BY <1>1, <1>2, <1>5, <2>2, <2>3, ProgressStays
  <2> QED
    BY <1>5, <2>2, <2>4 DEF ClusterInv, Grows
<1>6. ASSUME UNCHANGED <<cluster, mapOrder>>, aliasLost \subseteq aliasLost',
             \/ Continue(p) /\ Done(p, s)'
             \/ setup' = [setup EXCEPT ![p].create = TRUE]
      PROVE  /\ ClusterInv'
             /\ \A q \in Starters : q # p => setup'[q] = setup[q]
  <2>1. Grows
    BY <1>6 DEF Grows, cluster
  <2> QED
    BY <1>5, <1>6, <2>1 DEF ClusterInv, cluster
<1>7. CASE SkipTemplate(p)
  <2>1. Done(p, s)'
    BY <1>2, <1>7 DEF SkipTemplate, SkipsTemplate, Done
  <2> QED
    BY <1>6, <1>7, <2>1 DEF SkipTemplate
<1>8. CASE CheckExists(p)
  <2>1. CASE Continue(p) /\ exists(s)
    <3>1. Done(p, s)'
      BY <1>4, <1>8, <2>1 DEF CheckExists, exists, Done, Kinds, cluster
    <3> QED
      BY <1>6, <1>8, <2>1, <3>1 DEF CheckExists
  <2>2. CASE setup' = [setup EXCEPT ![p].create = TRUE]
    BY <1>6, <1>8, <2>2 DEF CheckExists
  <2> QED
    BY <1>2, <1>8, <2>1, <2>2 DEF CheckExists
<1>9. CASE Create(p)
  <2>1. /\ Continue(p) /\ UNCHANGED <<mapOrder, aliasLost>> /\ implicit = {}
        /\ s.kind = "template" => createIndexTemplate(s.name)
        /\ s.kind = "index" => createIndex(s.name)
        /\ s.kind = "alias" => createAlias(s.name)
        /\ s.kind = "version" => WriteTo(s.name) \/ UNCHANGED cluster
    BY <1>2, <1>9 DEF Create, ClusterInv
  <2>2. CASE s.kind = "template"
    BY <1>5, <2>1, <2>2 DEF createIndexTemplate, Grows, Done, ClusterInv
  <2>3. CASE s.kind = "index"
    <3>1. /\ index' = [index EXCEPT ![s.name] =
               IF @ # "none" THEN @
               ELSE IF s.name \in templates \cup legacy THEN "from template" ELSE "dynamic"]
          /\ UNCHANGED <<legacy, templates, alias, implicit>>
      BY <2>1, <2>3 DEF createIndex
    <3>2. s.name \in Templates => s.name \in templates \cup legacy
      <4>1. ASSUME s.name \in Templates
            PROVE  s.name \in templates \cup legacy
        <5>1. PICK j \in 1..(at - 1) : StepsFor(p)[j] = Step("template", s.name)
          BY <1>4, <2>3, <4>1
        <5>2. Done(p, Step("template", s.name))
          BY <1>1, <5>1
        <5> QED
          BY <4>1, <5>2 DEF Done, Step
      <4> QED
        BY <4>1
    <3>3. /\ index' \in [Names -> {"none", "from template", "dynamic"}]
          /\ \A x \in Names : index'[x] = "dynamic" => x \notin Templates
          /\ \A x \in Names : index[x] # "none" => index'[x] # "none"
          /\ index'[s.name] # "none"
      BY <1>4, <3>1, <3>2 DEF ClusterInv
    <3>4. Grows /\ Done(p, s)'
      BY <2>1, <2>3, <3>1, <3>3 DEF Grows, Done
    <3> QED
      BY <1>5, <2>1, <3>1, <3>3, <3>4
  <2>4. CASE s.kind = "alias"
    <3>1. /\ alias' = alias \cup {s.name}
          /\ UNCHANGED <<legacy, templates, index, implicit>>
      BY <2>1, <2>4 DEF createAlias
    <3>2. Grows /\ Done(p, s)'
      BY <2>1, <2>4, <3>1 DEF Grows, Done
    <3> QED
      BY <1>5, <2>1, <3>1, <3>2 DEF ClusterInv
  <2>5. CASE s.kind = "version"
    <3>1. s.name \in alias
      <4>1. PICK j \in 1..(at - 1) : StepsFor(p)[j] = Step("alias", s.name)
        BY <1>4, <2>5
      <4>2. Done(p, Step("alias", s.name))
        BY <1>1, <4>1
      <4> QED
        BY <1>4, <2>5, <4>2 DEF Done, Step
    <3>2. UNCHANGED cluster
      BY <2>1, <2>5, <3>1 DEF WriteTo, cluster
    <3>3. Done(p, s)'
      BY <2>5 DEF Done
    <3> QED
      BY <1>6, <2>1, <3>2, <3>3
  <2> QED
    BY <1>4, <2>2, <2>3, <2>4, <2>5 DEF Kinds
<1>10. CASE CreateAliasFails(p)
  <2>1. Done(p, s)'
    BY <1>2, <1>10 DEF CreateAliasFails, Done
  <2> QED
    BY <1>6, <1>10, <2>1 DEF CreateAliasFails
<1> QED
  BY <1>7, <1>8, <1>9, <1>10 DEF SetupStep
(* A starter that is done has everything it needs.                         *)
LEMMA SetUpIsReady ==
  ASSUME ClusterInv, NEW p \in Starters, SetUp(p)
  PROVE  Ready(p)
<1> DEFINE steps == StepsFor(p)
<1>1. Len(steps) \in Nat /\ \A x \in NamesOf(p) :
        /\ x \in Names
        /\ \E i \in 1..Len(steps) : steps[i] = Step("index", x)
        /\ \E i \in 1..Len(steps) : steps[i] = Step("alias", x)
  BY StepOrder DEF ClusterInv
<1>2. \A i \in 1..Len(steps) : Done(p, steps[i])
  <2>1. Progress(p)
    BY DEF ClusterInv
  <2>2. \A i \in 1..Len(steps) : i \in 1..(setup[p].at - 1)
    BY <1>1, <2>1 DEF Progress, SetUp
  <2> QED
    BY <2>1, <2>2 DEF Progress
<1> HIDE DEF steps
<1>3. ASSUME NEW x \in NamesOf(p)
      PROVE  /\ index[x] # "none"
             /\ index[x] = "dynamic" => x \notin Templates
             /\ x \in alias \/ (IsCreator[p] /\ x \in aliasLost)
  <2>1. x \in Names /\ Done(p, Step("index", x)) /\ Done(p, Step("alias", x))
    BY <1>1, <1>2
  <2> QED
    BY <2>1 DEF Done, Step, ClusterInv
<1> QED
  BY <1>3 DEF Ready, ClusterInv

(* Every step of the process and of the other starters keeps the           *)
(* invariant: a process that is killed begins its set-up again, and no     *)
(* handler sends a request before the set-up is done.                      *)
LEMMA SetupInvStep ==
  ASSUME SetupInv, [Next]_vars
  PROVE  SetupInv'
<1> USE ProcessAssumption
<1>1. CASE UNCHANGED setupVars /\ (Handling' => Handling)
  <2>1. ClusterInv'
    BY <1>1, ClusterStays DEF SetupInv, setupVars, ClusterInv
  <2>2. SetUp(self)' <=> SetUp(self)
    BY <1>1 DEF setupVars, SetUp, StepsFor, createTemplates
  <2> QED
    BY <1>1, <2>1, <2>2 DEF SetupInv
<1>2. CASE /\ setup' = [setup EXCEPT ![self] = NotStarted] /\ ~Handling'
           /\ UNCHANGED <<cluster, mapOrder, aliasLost>>
  BY <1>2, ClusterStays DEF SetupInv, ClusterInv
<1>3. ASSUME CreateWsIndexer
      PROVE  SetupInv'
  <2>1. CASE SetupStep(self) /\ UNCHANGED main
    BY <1>3, <2>1, StarterSteps DEF SetupInv, CreateWsIndexer, Handling
  <2>2. CASE SetUp(self) /\ UNCHANGED setupVars
    <3>1. ClusterInv'
      BY <2>2, ClusterStays DEF SetupInv, setupVars, ClusterInv
    <3>2. SetUp(self)'
      BY <2>2 DEF setupVars, SetUp, StepsFor, createTemplates
    <3> QED
      BY <3>1, <3>2 DEF SetupInv
  <2> QED
    BY <1>3, <2>1, <2>2 DEF CreateWsIndexer
<1>4. ASSUME CreateWsIndexerFails
      PROVE  SetupInv'
  BY <1>2, <1>4 DEF CreateWsIndexerFails, CreateFails, ProcessEnds, Handling
<1>5. ASSUME Signal
      PROVE  SetupInv'
  <2>1. CASE UNCHANGED <<setupVars, main>>
    BY <1>1, <2>1 DEF Handling
  <2>2. CASE /\ setup' = [setup EXCEPT ![self] = NotStarted] /\ ProcessEnds
             /\ UNCHANGED <<cluster, mapOrder, failures, aliasLost>>
    BY <1>2, <2>2 DEF ProcessEnds, Handling
  <2> QED
    BY <1>5, <2>1, <2>2 DEF Signal
<1>6. ASSUME Restart
      PROVE  SetupInv'
  BY <1>2, <1>6 DEF Restart, Handling
<1>7. ASSUME NEW h \in Recorders, StartRequest(h)
      PROVE  SetupInv'
  <2>1. UNCHANGED <<mapOrder, setup, failures, aliasLost, main>> /\ SetUp(self)
    BY <1>7 DEF StartRequest, processVars, SetupInv
  <2>2. PICK x \in IndexNames : WriteTo(x)
    BY <1>7 DEF StartRequest
  <2>3. x \in alias
    BY <2>1, SetUpIsReady DEF SetupInv, Ready, NamesOf
  <2>4. UNCHANGED setupVars
    BY <2>1, <2>2, <2>3 DEF setupVars, cluster, WriteTo
  <2> QED
    BY <1>1, <2>1, <2>4 DEF Handling
<1>8. ASSUME NEW p \in Starters, OtherStarts(p)
      PROVE  SetupInv'
  <2>1. p # self /\ UNCHANGED main
    BY <1>8 DEF OtherStarts, processVars
  <2>2. ClusterInv' /\ setup'[self] = setup[self] /\ mapOrder' = mapOrder
    <3>1. CASE SetupStep(p)
      <4>1. mapOrder' = mapOrder
        BY <3>1 DEF SetupStep, SkipTemplate, CheckExists, Create, CreateAliasFails
      <4> QED
        BY <2>1, <3>1, <4>1, StarterSteps DEF SetupInv
    <3>2. CASE CreateFails(p)
      <4>1. setup' = [setup EXCEPT ![p] = NotStarted] /\ UNCHANGED <<cluster, mapOrder, aliasLost>>
        BY <3>2 DEF CreateFails
      <4> QED
        BY <2>1, <4>1, ClusterStays DEF SetupInv, ClusterInv
    <3> QED
      BY <1>8, <3>1, <3>2 DEF OtherStarts
  <2>3. SetUp(self)' <=> SetUp(self)
    BY <2>2 DEF SetUp, StepsFor, createTemplates
  <2> QED
    BY <2>1, <2>2, <2>3 DEF SetupInv, Handling
<1>9. ASSUME \/ StartHttpServer \/ StartHttpServerFails \/ Notify \/ SelectTimer \/ SelectClose \/ Send
             \/ Interrupted \/ CloseHost \/ CloseWebServer
             \/ ListenAndServe \/ TimerFires \/ Crash
             \/ \E h \in Recorders : Record(h)
             \/ \E r \in Readers : ServeRequest(r)
      PROVE  SetupInv'
  <2>1. UNCHANGED setupVars /\ (Handling' => Handling)
    BY <1>9 DEF StartHttpServer, StartHttpServerFails, Notify, SelectTimer, SelectClose, SelectsClose, Send,
       Interrupted, CloseHost, CloseWebServer, ListenAndServe, TimerFires, Crash,
       Record, ServeRequest, ProcessEnds, Handling, processVars
  <2> QED
    BY <1>1, <2>1
<1>10. CASE UNCHANGED vars
  BY <1>1, <1>10 DEF vars, processVars, Handling
<1> QED
  BY <1>3, <1>4, <1>5, <1>6, <1>7, <1>8, <1>9, <1>10 DEF Next, Main

(* Whatever the other starters do, whichever of them were killed half way  *)
(* and whichever requests failed: when a starter says that the cluster is  *)
(* set up (init of elasticProcessor, createTemplates of indices-creator),  *)
(* every index was made from its template and has its alias, and no write  *)
(* has created an index in the place of an alias.                          *)
THEOREM SetupIsComplete == Spec => []SetupComplete
<1>1. Init => SetupInv
  <2>1. ASSUME Init
        PROVE  SetupInv
    <3>1. \A p \in Starters : setup[p].at = 1 /\ setup[p] \in [at : Nat \ {0}, create : BOOLEAN]
      <4>1. setup = [p \in Starters |-> NotStarted]
        BY <2>1 DEF Init, SetupInit
      <4> QED
        BY <4>1 DEF NotStarted
    <3>2. \A p \in Starters : Progress(p)
      <4>1. mapOrder \in MapOrders
        BY <2>1 DEF Init, SetupInit
      <4>2. \A p \in Starters : Len(StepsFor(p)) \in Nat
        BY <4>1, StepOrder
      <4> QED
        BY <3>1, <4>2 DEF Progress
    <3> QED
      BY <2>1, <3>2 DEF Init, SetupInit, SetupInv, ClusterInv, Handling
  <2> QED
    BY <2>1
<1>2. SetupInv /\ [Next]_vars => SetupInv'
  BY SetupInvStep
<1>3. SetupInv => SetupComplete
  BY SetUpIsReady DEF SetupInv, SetupComplete
<1> QED
  BY <1>1, <1>2, <1>3, PTL DEF Spec
-----------------------------------------------------------------------------
(* The invariant of the counters.  Only the recorder with the lock writes, *)
(* and it counts the operation before the error; what a reader has read of *)
(* the errors is no more than there are now.                               *)
MetricsTypes ==
  /\ operations \in Nat /\ errors \in Nat
  /\ lock \in Recorders \cup {"free"}
  /\ recorder \in [Recorders -> [pc : {"idle", "operations", "errors", "codes"}, outcome : Outcomes]]
  /\ reader \in [Readers -> [pc : {"idle", "first", "second", "codes", "answered"},
                             endpoint : Endpoints, operations : Nat, errors : Nat]]

MetricsInv ==
  /\ MetricsTypes
  /\ \A h \in Recorders : recorder[h].pc # "idle" => lock = h
  /\ errors <= operations
  /\ \A h \in Recorders : recorder[h].pc = "errors" => errors < operations
  /\ \A r \in Readers :
       reader[r].endpoint = "prometheus-metrics" =>
         /\ reader[r].pc = "second" => reader[r].errors <= errors
         /\ reader[r].pc \in {"codes", "answered"} => reader[r].errors <= reader[r].operations

(* The counters of a new process.                                          *)
LEMMA MetricsFresh ==
  ASSUME operations = 0 /\ errors = 0 /\ lock = "free",
         recorder = [h \in Recorders |-> NotRecording],
         reader = [r \in Readers |-> NotReading]
  PROVE  MetricsInv
BY DEF MetricsInv, MetricsTypes, NotRecording, NotReading, Outcomes, Endpoints

(* A step of a recorder.                                                   *)
LEMMA RecorderSteps ==
  ASSUME MetricsInv, NEW h \in Recorders,
         \/ \E outcome \in Outcomes : Lock(h, outcome)
         \/ CountOperation(h) \/ CountError(h) \/ CountCode(h)
  PROVE  MetricsInv'
<1> USE MetricsAssumption DEF MetricsInv, MetricsTypes
<1>1. ASSUME NEW outcome \in Outcomes, Lock(h, outcome)
      PROVE  MetricsInv'
  BY <1>1 DEF Lock
<1>2. CASE CountOperation(h)
  <2>1. \A g \in Recorders : recorder'[g].pc = "errors" => g = h
    BY <1>2 DEF CountOperation
  <2> QED
    BY <1>2, <2>1 DEF CountOperation
<1>3. CASE CountError(h)
  <2>1. errors' \in {errors, errors + 1} /\ errors < operations /\ UNCHANGED <<operations, lock, reader>>
    BY <1>3 DEF CountError
  <2>2. \A g \in Recorders : recorder'[g].pc # "errors"
    BY <1>3 DEF CountError
  <2>3. recorder' = [recorder EXCEPT ![h].pc = "codes"] /\ lock = h
    BY <1>3 DEF CountError
  <2> QED
    BY <2>1, <2>2, <2>3
<1>4. CASE CountCode(h)
  BY <1>4 DEF CountCode, NotRecording, Outcomes
<1> QED
  BY <1>1, <1>2, <1>3, <1>4

(* A step of a reader.                                                     *)
LEMMA ReaderSteps ==
  ASSUME MetricsInv, NEW r \in Readers, Serve(r)
  PROVE  MetricsInv'
<1> DEFINE Requests == [pc : {"idle", "first", "second", "codes", "answered"},
                        endpoint : Endpoints, operations : Nat, errors : Nat]
           Good(q) == q.endpoint = "prometheus-metrics" =>
                        /\ q.pc = "second" => q.errors <= errors
                        /\ q.pc \in {"codes", "answered"} => q.errors <= q.operations
<1>1. /\ reader \in [Readers -> Requests] /\ operations \in Nat /\ errors \in Nat
      /\ errors <= operations /\ \A q \in Readers : Good(reader[q])
  BY DEF MetricsInv, MetricsTypes
<1>2. ASSUME NEW request \in Requests, Good(request),
             reader' = [reader EXCEPT ![r] = request],
             UNCHANGED <<operations, errors, lock, recorder>>
      PROVE  MetricsInv'
  <2>1. reader' \in [Readers -> Requests] /\ \A q \in Readers : Good(reader'[q])
    BY <1>1, <1>2
  <2> QED
    BY <1>2, <2>1 DEF MetricsInv, MetricsTypes
<1>3. ASSUME NEW endpoint \in Endpoints, GetAll(r, endpoint)
      PROVE  MetricsInv'
  BY <1>2, <1>3 DEF GetAll, NotReading
<1>4. CASE ReadCounter(r)
  <2>1. reader[r] \in Requests /\ Good(reader[r])
    BY <1>1
  <2>2. CASE reader[r].pc = "first" /\ ReadsOperationsFirst(r)
    BY <1>1, <1>2, <1>4, <2>1, <2>2 DEF ReadCounter, ReadsOperationsFirst
  <2>3. CASE reader[r].pc = "first" /\ ~ReadsOperationsFirst(r)
    <3> DEFINE request == [reader[r] EXCEPT !.pc = "second", !.errors = errors]
    <3>1. reader' = [reader EXCEPT ![r] = request] /\ UNCHANGED <<operations, errors, lock, recorder>>
      BY <1>1, <1>4, <2>3 DEF ReadCounter, ReadsOperationsFirst
    <3>2. request \in Requests /\ Good(request)
      <4>1. /\ request \in Requests /\ request.pc = "second"
            /\ request.errors = errors /\ request.operations = reader[r].operations
        BY <1>1, <2>1
      <4>2. reader[r].endpoint = "prometheus-metrics"
        BY <2>1, <2>3 DEF ReadsOperationsFirst, Endpoints
      <4>3. reader[r].errors \in Nat
        BY <2>1
      <4> QED
        BY <1>1, <2>1, <2>3, <4>1, <4>2, <4>3
    <3> HIDE DEF request, Requests, Good
    <3> QED
      BY <1>2, <3>1, <3>2
  <2>4. CASE reader[r].pc = "second" /\ ReadsOperationsFirst(r)
    BY <1>1, <1>2, <1>4, <2>1, <2>4 DEF ReadCounter, ReadsOperationsFirst
  <2>5. CASE reader[r].pc = "second" /\ ~ReadsOperationsFirst(r)
    <3> DEFINE request == [reader[r] EXCEPT !.pc = "codes", !.operations = operations]
    <3>1. reader' = [reader EXCEPT ![r] = request] /\ UNCHANGED <<operations, errors, lock, recorder>>
      BY <1>1, <1>4, <2>5 DEF ReadCounter, ReadsOperationsFirst
    <3>2. request \in Requests /\ Good(request)
      <4>1. /\ request \in Requests /\ request.pc = "codes"
            /\ request.errors = reader[r].errors /\ request.operations = operations
        BY <1>1, <2>1
      <4>2. reader[r].endpoint = "prometheus-metrics"
        BY <2>1, <2>5 DEF ReadsOperationsFirst, Endpoints
      <4>3. reader[r].errors \in Nat
        BY <2>1
      <4> QED
        BY <1>1, <2>1, <2>5, <4>1, <4>2, <4>3
    <3> HIDE DEF request, Requests, Good
    <3> QED
      BY <1>2, <3>1, <3>2
  <2> QED
    BY <1>4, <2>2, <2>3, <2>4, <2>5 DEF ReadCounter
<1>5. CASE IterateCodes(r)
  BY <1>1, <1>2, <1>5 DEF IterateCodes
<1>6. CASE EndRequest(r)
  BY <1>1, <1>2, <1>6 DEF EndRequest, NotReading, Endpoints
<1> QED
  BY <1>3, <1>4, <1>5, <1>6 DEF Serve

(* Every other step leaves the counters alone, or starts them afresh.      *)
LEMMA MetricsInvStep ==
  ASSUME MetricsInv, [Next]_vars
  PROVE  MetricsInv'
<1>1. ASSUME UNCHANGED metricsVars
      PROVE  MetricsInv'
  BY <1>1 DEF metricsVars, MetricsInv, MetricsTypes
<1>2. ASSUME MetricsReset
      PROVE  MetricsInv'
  BY <1>2 DEF MetricsReset, MetricsInv, MetricsTypes, NotRecording, NotReading, Outcomes, Endpoints
<1>3. ASSUME NEW h \in Recorders, StartRequest(h) \/ Record(h)
      PROVE  MetricsInv'
  BY <1>3, RecorderSteps DEF StartRequest, Record
<1>4. ASSUME NEW r \in Readers, ServeRequest(r)
      PROVE  MetricsInv'
  BY <1>4, ReaderSteps DEF ServeRequest
<1>5. ASSUME \/ Main \/ ListenAndServe \/ TimerFires \/ Signal \/ Crash \/ Restart
             \/ \E p \in Starters : OtherStarts(p)
             \/ UNCHANGED vars
      PROVE  UNCHANGED metricsVars \/ MetricsReset
  BY <1>5 DEF Main, CreateWsIndexer, CreateWsIndexerFails, StartHttpServer, StartHttpServerFails, Notify,
     SelectTimer, SelectClose, Send, Interrupted, CloseHost, CloseWebServer, ListenAndServe,
     TimerFires, Signal, Crash, Restart, OtherStarts, ProcessEnds, vars
<1> QED
  BY <1>1, <1>2, <1>3, <1>4, <1>5 DEF Next

(* An answer of the web server for Prometheus, put together counter by     *)
(* counter without the lock while any number of handlers count, never has  *)
(* more errors than operations.                                            *)
THEOREM ScrapesAreConsistent == Spec => []ScrapeConsistent
<1>1. Init => MetricsInv
  BY MetricsFresh DEF Init, MetricsInit
<1>2. MetricsInv /\ [Next]_vars => MetricsInv'
  BY MetricsInvStep
<1>3. MetricsInv => ScrapeConsistent
  BY DEF MetricsInv, ScrapeConsistent
<1> QED
  BY <1>1, <1>2, <1>3, PTL DEF Spec
=============================================================================
