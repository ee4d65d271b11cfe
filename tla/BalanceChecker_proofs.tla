------------------------ MODULE BalanceChecker_proofs ------------------------
(***************************************************************************)
(* Proofs about tools/accounts-balance-checker: its repairs do no harm     *)
(* although the gateway's answer is old when it is written, unless the     *)
(* timestamps are no guard, and with the chain at rest they are complete.  *)
(***************************************************************************)
EXTENDS BalanceChecker, FiniteSetTheorems, TLAPS

(* What the goroutines keep is a record with these fields.                 *)
IsWorker(w) ==
  DOMAIN w = {"pc", "slot", "es", "proxy", "todo", "token", "timestamp"}

(* Between done <- struct{}{} and <-done.                                  *)
Busy == {"proxy", "compare", "last", "repair"}

Blocks == [id : Ids, balance : 0..MaxBalance, timestamp : Nat, found : BOOLEAN,
           altered : BOOLEAN, step : {"operations", "accounts"}]

(* The chain, the indexer and the index.                                   *)
ChainTypes ==
  /\ mode \in {"egld", "esdt"}
  /\ time \in Nat
  /\ balance \in [Ids -> 0..MaxBalance]
  /\ operation \in [Ids -> Nat]
  /\ doc \in [Ids -> Docs \cup {NoDoc}]
  /\ alone \in [Ids -> Docs \cup {NoDoc}]
  /\ queue \in Seq(Blocks)

(* The timestamp of the last block whose operations are visible.           *)
Reached == time - Len(queue) + IF queue # <<>> /\ queue[1].step = "accounts" THEN 1 ELSE 0

(* Blocks are indexed in the order of their timestamps, no timestamp is in *)
(* the index before its block, and an operation without a document is bare.*)
TimeInv ==
  /\ Len(queue) <= time - StartTime
  /\ \A i \in DOMAIN queue :
       /\ queue[i].timestamp = time - Len(queue) + i
       /\ queue[i].step = "accounts" => i = 1 /\ queue[i].altered
       /\ queue[i].altered \/ <<queue[i].id, queue[i].timestamp>> \in bare
  /\ \A id \in Ids : /\ operation[id] <= Reached
                     /\ doc[id] # NoDoc => doc[id].timestamp <= Reached
                     /\ alone[id] # NoDoc => alone[id].timestamp <= Reached

(* A block that is still to be indexed has the balance of the chain.       *)
Pending(id) ==
  \E m \in DOMAIN queue : /\ queue[m].id = id /\ queue[m].altered /\ queue[m].balance = balance[id]
                          /\ \A i \in DOMAIN queue : i > m /\ queue[i].altered => queue[i].id # id
NotPending(id) == \A i \in DOMAIN queue : queue[i].altered => queue[i].id # id

(* The document without the tool has the balance of the chain.             *)
Indexed(id) == NotPending(id) /\ Right(alone[id], balance[id])

(* The document is as new as the operation of time t, or that operation    *)
(* is bare.                                                                *)
Covers(id, t) == t <= doc[id].timestamp \/ <<id, t>> \in bare

(* A repair with timestamp t is refused, or excused when it is wrong.      *)
Safe(id, t) == Indexed(id) /\ doc[id] # NoDoc => id \in excused \/ Covers(id, t)

Kept(id) ==
  \/ id \in excused
  \/ Pending(id)
  \/ /\ NotPending(id)
     /\ Right(alone[id], balance[id]) => Right(doc[id], balance[id])
     /\ Safe(id, operation[id])

(* An answer of the gateway may be old.                                    *)
Changed(id) ==
  \/ id \in excused
  \/ Pending(id)
  \/ Indexed(id) /\ (doc[id] # NoDoc => doc[id].timestamp # Old)

(* A goroutine's answer of the gateway is the balance, or the balance has  *)
(* changed; the timestamp it repairs with is not newer than the operation. *)
WorkerInv(w, a) ==
  /\ IsWorker(w)
  /\ w.timestamp \in Nat
  /\ w.todo \subseteq TokensOf(a)
  /\ w.pc \in Busy => w.slot
  /\ w.pc \in {"last", "repair"} => w.token \in w.todo
  /\ w.pc = "repair" => /\ w.timestamp <= operation[<<a, w.token>>]
                        /\ Safe(<<a, w.token>>, w.timestamp)
  /\ DOMAIN w.proxy \subseteq TokensOf(a)
  /\ \A t \in DOMAIN w.proxy : /\ w.proxy[t] \in 0..MaxBalance
                               /\ w.proxy[t] = balance[<<a, t>>] \/ Changed(<<a, t>>)

HarmlessInv ==
  /\ ChainTypes
  /\ TimeInv
  /\ DOMAIN worker = Accounts
  /\ \A a \in Accounts : WorkerInv(worker[a], a)
  /\ \A id \in Ids : Kept(id)

(* An id is an account and one of its tokens.                              *)
LEMMA IdsAreTokens ==
  ASSUME NEW a, NEW t
  PROVE  t \in TokensOf(a) <=> <<a, t>> \in Ids
<1>1. \A id \in Ids : id = <<id[1], id[2]>>
  BY BalanceAssumption DEF Ids
<1> QED
  BY <1>1 DEF TokensOf

LEMMA HarmlessInit == Init => HarmlessInv
<1> SUFFICES ASSUME Init PROVE HarmlessInv
  OBVIOUS
<1>1. PICK s \in Setups : /\ mode = s.mode /\ doRepair = s.doRepair /\ balance = s.balance
                          /\ operation = s.operation /\ doc = s.doc
  BY DEF Init
<1>2. /\ mode \in {"egld", "esdt"}
      /\ balance \in [Ids -> 0..MaxBalance] /\ operation \in [Ids -> 0..StartTime]
      /\ doc \in [Ids -> {NoDoc} \cup [balance : 0..MaxBalance, timestamp : 0..StartTime]]
  BY <1>1, SetupAssumption DEF IsSetup, Ids
<1>3. \A id \in Ids : doc[id] # NoDoc => doc[id] \in Docs /\ doc[id].timestamp <= StartTime
  BY <1>2, BalanceAssumption DEF Docs
<1>4. ChainTypes
  BY <1>2, <1>3, BalanceAssumption DEF Init, ChainTypes
<1>5. TimeInv
  BY <1>2, <1>3, <1>4, BalanceAssumption DEF Init, TimeInv, Reached
<1>6. \A a : WorkerInv(Idle, a)
  BY DEF WorkerInv, IsWorker, Idle, EmptyMap, Busy
<1>7. ASSUME NEW id \in Ids PROVE Kept(id)
  <2>1. /\ NotPending(id) /\ alone[id] = doc[id] /\ operation[id] \in Nat
        /\ doc[id] # NoDoc => doc[id].timestamp \in Nat
    BY <1>2, <1>3, BalanceAssumption DEF Init, NotPending, Docs
  <2>2. /\ doc[id] # NoDoc /\ doc[id].balance = balance[id] /\ doc[id].timestamp < operation[id]
        => <<id, operation[id]>> \in bare
    BY DEF Init
  <2> QED
    BY <2>1, <2>2 DEF Kept, Safe, Covers, Indexed, Right
<1> QED
  BY <1>4, <1>5, <1>6, <1>7 DEF Init, HarmlessInv
-----------------------------------------------------------------------------
(* A step that changes only the goroutines.                                *)
LEMMA GoroutinesStep ==
  ASSUME HarmlessInv, UNCHANGED <<mode, chainVars, doc, excused>>,
         NEW f, worker' = f, DOMAIN f = Accounts, \A a \in Accounts : WorkerInv(f[a], a)
  PROVE  HarmlessInv'
<1>1. UNCHANGED <<mode, balance, queue, time, operation, alone, bare, doc, excused>>
  BY DEF chainVars
<1>2. ChainTypes' /\ TimeInv'
  BY <1>1 DEF HarmlessInv, ChainTypes, TimeInv, Blocks, Ids, Reached
<1>3. \A id : /\ Kept(id)' <=> Kept(id)
              /\ Changed(id)' <=> Changed(id)
              /\ \A t : Safe(id, t)' <=> Safe(id, t)
  <2>1. \A id : /\ Indexed(id)' <=> Indexed(id)
                /\ Pending(id)' <=> Pending(id)
                /\ NotPending(id)' <=> NotPending(id)
    BY <1>1 DEF Pending, NotPending, Indexed
  <2>2. \A id, t : Safe(id, t)' <=> Safe(id, t)
    BY <1>1, <2>1 DEF Safe, Covers
  <2>3. \A id : Safe(id, operation[id])' <=> Safe(id, operation[id])
    BY <1>1, <2>1 DEF Safe, Covers
  <2> QED
    BY <1>1, <2>1, <2>2, <2>3 DEF Kept, Changed
<1>4. Ids' = Ids
  BY <1>1 DEF Ids
<1>5. ASSUME NEW a \in Accounts
      PROVE  WorkerInv(f[a], a)'
  <2>1. PICK w : w = f[a]
    OBVIOUS
  <2>2. TokensOf(a)' = TokensOf(a)
    BY <1>4 DEF TokensOf
  <2>3. WorkerInv(w, a) <=> WorkerInv(w, a)'
    BY <1>1, <1>3, <2>2 DEF WorkerInv
  <2> QED
    BY <2>1, <2>3
<1> QED
  BY <1>2, <1>3, <1>4, <1>5 DEF HarmlessInv

(* A step of one goroutine that leaves the index alone.                    *)
LEMMA GoroutineStep ==
  ASSUME HarmlessInv, UNCHANGED <<mode, chainVars, doc, excused>>, NEW a \in Accounts, NEW w2,
         worker' = [worker EXCEPT ![a] = w2], WorkerInv(w2, a)
  PROVE  HarmlessInv'
<1>1. PICK f : f = [worker EXCEPT ![a] = w2]
  OBVIOUS
<1>2. DOMAIN f = Accounts /\ \A b \in Accounts : f[b] = IF b = a THEN w2 ELSE worker[b]
  BY <1>1 DEF HarmlessInv
<1>3. \A b \in Accounts : WorkerInv(f[b], b)
  BY <1>2 DEF HarmlessInv
<1> QED
  BY <1>1, <1>2, <1>3, GoroutinesStep

LEMMA IdleInv ==
  ASSUME NEW a, NEW w, NEW es, NEW p, p \notin Busy,
         w = Idle \/ w = [Idle EXCEPT !.pc = p] \/ w = [Idle EXCEPT !.pc = p, !.es = es]
  PROVE  WorkerInv(w, a)
<1> DEFINE IdleLike == /\ IsWorker(w) /\ w.pc \in {"idle", p}
                       /\ w.todo = {} /\ w.timestamp = 0 /\ w.proxy = EmptyMap
<1>1. w = Idle => IdleLike
  BY DEF Idle, IsWorker
<1>2. w = [Idle EXCEPT !.pc = p] => IdleLike
  BY DEF Idle, IsWorker
<1>3. w = [Idle EXCEPT !.pc = p, !.es = es] => IdleLike
  BY DEF Idle, IsWorker
<1>4. IdleLike
  BY <1>1, <1>2, <1>3
<1> QED
  BY <1>4 DEF WorkerInv, EmptyMap, Busy

LEMMA ScrollKeeps == HarmlessInv /\ Scroll => HarmlessInv'
<1> SUFFICES ASSUME HarmlessInv, Scroll PROVE HarmlessInv'
  OBVIOUS
<1>1. PICK f : f = worker'
  OBVIOUS
<1>2. UNCHANGED <<mode, chainVars, doc, excused>>
  BY DEF Scroll
<1>3. DOMAIN f = Accounts /\ \A a \in Accounts : WorkerInv(f[a], a)
  <2>1. CASE UNCHANGED worker
    BY <1>1, <2>1 DEF HarmlessInv
  <2>2. CASE worker' = [a \in Accounts |-> IF InES(a, doc) = {} THEN Idle
                          ELSE [Idle EXCEPT !.pc = "listed", !.es = getBalancesForAddress(a, doc)]]
    <3>1. DOMAIN f = Accounts
      BY <1>1, <2>2
    <3>2. ASSUME NEW a \in Accounts PROVE WorkerInv(f[a], a)
      <4>1. PICK es : es = getBalancesForAddress(a, doc)
        OBVIOUS
      <4>2. f[a] = Idle \/ f[a] = [Idle EXCEPT !.pc = "listed", !.es = es]
        <5>1. f[a] = IF InES(a, doc) = {} THEN Idle
                     ELSE [Idle EXCEPT !.pc = "listed", !.es = getBalancesForAddress(a, doc)]
          BY <1>1, <2>2, Zenon
        <5> QED
          BY <4>1, <5>1
      <4> QED
        <5>1. PICK p, w : p = "listed" /\ w = f[a]
          OBVIOUS
        <5>2. p \notin Busy /\ (w = Idle \/ w = [Idle EXCEPT !.pc = p, !.es = es])
          BY <4>2, <5>1 DEF Busy
        <5>3. WorkerInv(w, a)
          BY <5>2, IdleInv
        <5> QED
          BY <5>1, <5>3
    <3> QED
      BY <3>1, <3>2
  <2> QED
    BY <2>1, <2>2 DEF Scroll
<1> QED
  BY <1>1, <1>2, <1>3, GoroutinesStep

LEMMA ExitKeeps ==
  ASSUME HarmlessInv, Exit, UNCHANGED <<mode, chainVars, doc, excused>>
  PROVE  HarmlessInv'
<1>1. PICK f : f = worker'
  OBVIOUS
<1>3. DOMAIN f = Accounts
  BY <1>1 DEF Exit
<1>4. ASSUME NEW a \in Accounts PROVE WorkerInv(f[a], a)
  <2>1. PICK w : w = worker[a]
    OBVIOUS
  <2>2. PICK p : p = IF w.slot THEN "killed" ELSE IF w.pc = "listed" THEN "idle" ELSE w.pc
    OBVIOUS
  <2>3. f[a] = [Idle EXCEPT !.pc = p]
    BY <1>1, <2>1, <2>2 DEF Exit
  <2>4. p \notin Busy
    BY <2>1, <2>2 DEF HarmlessInv, WorkerInv, Busy
  <2> QED
    BY <2>3, <2>4, IdleInv
<1> QED
  BY <1>1, <1>3, <1>4, GoroutinesStep

LEMMA StartKeeps ==
  ASSUME HarmlessInv, NEW a \in Accounts, StartGoroutine(a)
  PROVE  HarmlessInv'
<1>1. PICK w : w = worker[a]
  OBVIOUS
<1>2. WorkerInv(w, a)
  BY <1>1 DEF HarmlessInv
<1> DEFINE w2 == [w EXCEPT !.pc = "proxy", !.slot = TRUE]
<1>3. worker' = [worker EXCEPT ![a] = w2] /\ UNCHANGED <<mode, chainVars, doc, excused>>
  BY <1>1, <1>2 DEF StartGoroutine, HarmlessInv, WorkerInv, IsWorker
<1>4. WorkerInv(w2, a)
  BY <1>2 DEF WorkerInv, IsWorker
<1> QED
  BY <1>3, <1>4, GoroutineStep

(* The goroutine returns.                                                  *)
LEMMA ReturnKeeps ==
  ASSUME HarmlessInv, UNCHANGED <<mode, chainVars, doc, excused>>, NEW a \in Accounts, Return(a)
  PROVE  HarmlessInv'
<1>1. PICK w2 : w2 = [Idle EXCEPT !.pc = "returned"]
  OBVIOUS
<1>2. WorkerInv(w2, a)
  <2>1. PICK p : p = "returned"
    OBVIOUS
  <2> QED
    BY <1>1, <2>1, IdleInv DEF Busy
<1>3. worker' = [worker EXCEPT ![a] = w2]
  BY <1>1 DEF Return
<1> QED
  BY <1>2, <1>3, GoroutineStep

LEMMA AskKeeps ==
  ASSUME HarmlessInv, NEW a \in Accounts, AskProxy(a)
  PROVE  HarmlessInv'
<1>1. PICK w : w = worker[a]
  OBVIOUS
<1>2. WorkerInv(w, a)
  BY <1>1 DEF HarmlessInv
<1>3. UNCHANGED <<mode, chainVars, doc, excused>>
  BY DEF AskProxy
<1>4. CASE UNCHANGED worker
  <2>1. PICK f : f = worker
    OBVIOUS
  <2> QED
    BY <1>3, <1>4, <2>1, GoroutinesStep DEF HarmlessInv
<1>5. ASSUME NEW got, got \subseteq FromProxy(a),
             worker' = [worker EXCEPT ![a].pc = "compare", ![a].proxy =
                          BalancesOf(got, [t \in TokensOf(a) |-> balance[<<a, t>>]])]
      PROVE  HarmlessInv'
  <2>1. PICK m : m = BalancesOf(got, [t \in TokensOf(a) |-> balance[<<a, t>>]])
    OBVIOUS
  <2>2. got \subseteq TokensOf(a)
    <3>1. mode = "egld" => EGLD \in TokensOf(a)
      BY IdsAreTokens DEF Ids
    <3> QED
      BY <1>5, <3>1 DEF FromProxy
  <2>3. DOMAIN m \subseteq TokensOf(a) /\ \A t \in DOMAIN m : m[t] = balance[<<a, t>>]
    BY <2>1, <2>2 DEF BalancesOf
  <2>4. \A t \in DOMAIN m : m[t] \in 0..MaxBalance
    BY <2>3, IdsAreTokens DEF HarmlessInv, ChainTypes
  <2> DEFINE w2 == [w EXCEPT !.pc = "compare", !.proxy = m]
  <2>5. worker' = [worker EXCEPT ![a] = w2]
    BY <1>1, <1>2, <1>5, <2>1 DEF HarmlessInv, WorkerInv, IsWorker
  <2>6. /\ IsWorker(w2) /\ w2.proxy = m /\ w2.pc = "compare" /\ w2.timestamp = w.timestamp
        /\ w2.todo = w.todo /\ w2.slot = w.slot
    BY <1>2 DEF WorkerInv, IsWorker
  <2> HIDE DEF w2
  <2>7. WorkerInv(w2, a)
    <3>1. w.pc = "proxy"
      BY <1>1 DEF AskProxy
    <3> QED
      BY <1>2, <2>3, <2>4, <2>6, <3>1 DEF WorkerInv, Busy
  <2> QED
    BY <1>3, <2>5, <2>7, GoroutineStep
<1>6. CASE Return(a)
  BY <1>3, <1>6, ReturnKeeps
<1>7. \/ UNCHANGED worker
      \/ Return(a)
      \/ \E got : /\ got \subseteq FromProxy(a)
                  /\ worker' = [worker EXCEPT ![a].pc = "compare", ![a].proxy =
                                  BalancesOf(got, [t \in TokensOf(a) |-> balance[<<a, t>>]])]
  BY Zenon DEF AskProxy
<1> QED
  BY <1>4, <1>5, <1>6, <1>7

LEMMA CompareKeeps ==
  ASSUME HarmlessInv, NEW a \in Accounts, Compare(a)
  PROVE  HarmlessInv'
<1>1. PICK w, es : w = worker[a] /\ es = getBalancesForAddress(a, doc)
  OBVIOUS
<1>2. WorkerInv(w, a) /\ UNCHANGED <<mode, chainVars, doc, excused>>
  BY <1>1 DEF HarmlessInv, Compare
<1>3. CASE Return(a)
  BY <1>2, <1>3, ReturnKeeps
<1>4. ASSUME NEW token \in ToRepair(es, w.proxy), w.pc = "compare",
             worker' = [worker EXCEPT ![a] = [w EXCEPT
               !.pc = "last", !.es = es, !.todo = ToRepair(es, w.proxy), !.token = token]]
      PROVE  HarmlessInv'
  <2>1. PICK todo : todo = ToRepair(es, w.proxy)
    OBVIOUS
  <2>2. todo \subseteq TokensOf(a)
    BY <1>1, <2>1 DEF ToRepair, getBalancesForAddress, InES
  <2> DEFINE w2 == [w EXCEPT !.pc = "last", !.es = es, !.todo = todo, !.token = token]
  <2>3. worker' = [worker EXCEPT ![a] = w2]
    BY <1>4, <2>1
  <2>4. /\ IsWorker(w2) /\ w2.pc = "last" /\ w2.slot = w.slot /\ w2.todo = todo
        /\ w2.token = token /\ w2.proxy = w.proxy /\ w2.timestamp = w.timestamp
    BY <1>2 DEF WorkerInv, IsWorker
  <2> HIDE DEF w2
  <2>5. WorkerInv(w2, a)
    BY <1>2, <1>4, <2>1, <2>2, <2>4 DEF WorkerInv, Busy
  <2> QED
    BY <1>2, <2>3, <2>5, GoroutineStep
<1>5. \/ Return(a)
      \/ /\ w.pc = "compare"
         /\ \E token \in ToRepair(es, w.proxy) :
              worker' = [worker EXCEPT ![a] = [w EXCEPT
                !.pc = "last", !.es = es, !.todo = ToRepair(es, w.proxy), !.token = token]]
  BY <1>1 DEF Compare
<1> QED
  BY <1>3, <1>4, <1>5

LEMMA LastKeeps ==
  ASSUME HarmlessInv, NEW a \in Accounts, getLasTimeWhenBalanceWasChanged(a)
  PROVE  HarmlessInv'
<1>1. PICK w : w = worker[a]
  OBVIOUS
<1>2. /\ WorkerInv(w, a) /\ UNCHANGED <<mode, chainVars, doc, excused>> /\ w.pc = "last"
      /\ w.token \in TokensOf(a)
  BY <1>1 DEF HarmlessInv, getLasTimeWhenBalanceWasChanged, WorkerInv
<1>3. operation[<<a, w.token>>] \in Nat
  BY <1>2, IdsAreTokens DEF HarmlessInv, ChainTypes
<1>4. PICK t \in {0, operation[<<a, w.token>>]} :
        worker' = [worker EXCEPT ![a] = [w EXCEPT !.pc = "repair", !.timestamp = t]]
  BY <1>1 DEF getLasTimeWhenBalanceWasChanged
<1> DEFINE w2 == [w EXCEPT !.pc = "repair", !.timestamp = t]
<1>5. /\ IsWorker(w2) /\ w2.pc = "repair" /\ w2.slot = w.slot /\ w2.todo = w.todo
      /\ w2.token = w.token /\ w2.proxy = w.proxy /\ w2.timestamp = t
  BY <1>2 DEF WorkerInv, IsWorker
<1> HIDE DEF w2
<1>6. Safe(<<a, w.token>>, t)
  <2>1. PICK id \in Ids : id = <<a, w.token>>
    BY <1>2, IdsAreTokens
  <2>2. Kept(id) /\ (doc[id] # NoDoc => doc[id].timestamp \in Nat)
    BY DEF HarmlessInv, ChainTypes, Docs
  <2>3. Indexed(id) => ~Pending(id)
    BY DEF Indexed, Pending, NotPending
  <2>4. Safe(id, t)
    BY <1>4, <2>1, <2>2, <2>3 DEF Kept, Safe, Covers
  <2> QED
    BY <2>1, <2>4
<1>7. WorkerInv(w2, a)
  BY <1>2, <1>3, <1>4, <1>5, <1>6 DEF WorkerInv, Busy
<1> QED
  BY <1>2, <1>4, <1>7, GoroutineStep DEF w2
-----------------------------------------------------------------------------
(* What a goroutine knows stays true when balances change by commits and   *)
(* operations only become newer.                                           *)
LEMMA WorkerStays ==
  ASSUME UNCHANGED mode, operation \in [Ids -> Nat], operation' \in [Ids -> Nat],
         \A id \in Ids : operation[id] <= operation'[id],
         \A id \in Ids : Changed(id) => Changed(id)',
         \A id \in Ids : balance'[id] = balance[id] \/ Changed(id)',
         \A id \in Ids : \A t \in Nat : t <= operation[id] /\ Safe(id, t) => Safe(id, t)',
         NEW a, NEW w, WorkerInv(w, a)
  PROVE  WorkerInv(w, a)'
<1>1. TokensOf(a)' = TokensOf(a)
  BY DEF TokensOf, Ids
<1>2. w.pc = "repair" => /\ w.timestamp <= operation'[<<a, w.token>>]
                         /\ Safe(<<a, w.token>>, w.timestamp)'
  <2> SUFFICES ASSUME w.pc = "repair"
               PROVE  w.timestamp <= operation'[<<a, w.token>>] /\ Safe(<<a, w.token>>, w.timestamp)'
    OBVIOUS
  <2>1. PICK id \in Ids : id = <<a, w.token>>
    BY IdsAreTokens DEF WorkerInv
  <2>2. PICK t \in Nat : t = w.timestamp
    BY DEF WorkerInv
  <2>3. t <= operation[id] /\ Safe(id, t)
    BY <2>1, <2>2 DEF WorkerInv
  <2>4. t <= operation'[id] /\ Safe(id, t)'
    BY <2>3
  <2> QED
    BY <2>1, <2>2, <2>4
<1>3. ASSUME NEW t \in DOMAIN w.proxy
      PROVE  w.proxy[t] = balance'[<<a, t>>] \/ Changed(<<a, t>>)'
  <2>1. PICK id \in Ids : id = <<a, t>>
    BY IdsAreTokens DEF WorkerInv
  <2>2. w.proxy[t] = balance[id] \/ Changed(id)
    BY <2>1 DEF WorkerInv
  <2>3. w.proxy[t] = balance'[id] \/ Changed(id)'
    BY <2>2
  <2> QED
    BY <2>1, <2>3
<1> QED
  BY <1>1, <1>2, <1>3 DEF WorkerInv

(* A repair of id leaves the document alone, or is excused, or does not    *)
(* make it older, nor wrong.                                               *)
Repaired(id, d) ==
  \/ d = doc[id]
  \/ id \in excused'
  \/ /\ doc[id] # NoDoc
     /\ d # NoDoc => doc[id].timestamp <= d.timestamp
     /\ Indexed(id) => Right(d, balance[id])

LEMMA DocumentRepaired ==
  ASSUME HarmlessInv, UNCHANGED <<mode, chainVars>>, excused \subseteq excused',
         NEW id \in Ids, NEW d \in Docs \cup {NoDoc}, doc' = [doc EXCEPT ![id] = d],
         d # NoDoc => d.timestamp <= Reached, Repaired(id, d),
         NEW f, worker' = f, DOMAIN f = Accounts, \A a \in Accounts : WorkerInv(f[a], a)
  PROVE  HarmlessInv'
<1>1. UNCHANGED <<mode, balance, queue, time, operation, alone, bare>> /\ Ids' = Ids
  BY DEF chainVars, Ids
<1>2. /\ doc \in [Ids -> Docs \cup {NoDoc}]
      /\ \A i \in Ids : doc'[i] = IF i = id THEN d ELSE doc[i]
  BY DEF HarmlessInv, ChainTypes
<1>3. ChainTypes'
  BY <1>1, <1>2 DEF HarmlessInv, ChainTypes, Blocks
<1>4. TimeInv'
  BY <1>1, <1>2 DEF HarmlessInv, TimeInv, Reached
<1>5. ASSUME NEW i \in Ids
      PROVE  /\ Indexed(i)' <=> Indexed(i)
             /\ Pending(i)' <=> Pending(i)
             /\ NotPending(i)' <=> NotPending(i)
  BY <1>1 DEF Indexed, Pending, NotPending
<1>6. ASSUME NEW i \in Ids, i \notin excused'
      PROVE  /\ doc'[i] # NoDoc => /\ doc[i] # NoDoc /\ doc[i].timestamp \in Nat
                                   /\ doc'[i].timestamp \in Nat
                                   /\ doc[i].timestamp <= doc'[i].timestamp
             /\ doc'[i] = doc[i] \/ (Indexed(i) => Right(doc'[i], balance[i]))
  BY <1>2, <1>6 DEF Repaired, Docs
<1>7. ASSUME NEW i \in Ids, NEW t \in Nat, Safe(i, t) PROVE Safe(i, t)'
  BY <1>1, <1>5, <1>6, <1>7 DEF Safe, Covers
<1>8. ASSUME NEW i \in Ids, Changed(i) PROVE Changed(i)'
  BY <1>1, <1>5, <1>6, <1>8 DEF Changed, Old
<1>9. ASSUME NEW i \in Ids PROVE Kept(i)'
  <2>1. Kept(i) /\ operation[i] \in Nat /\ operation'[i] = operation[i]
    BY <1>1 DEF HarmlessInv, ChainTypes
  <2>2. Safe(i, operation[i]) => Safe(i, operation[i])'
    <3>1. PICK t \in Nat : t = operation[i] /\ t = operation'[i]
      BY <2>1
    <3> QED
      BY <1>7, <3>1
  <2> QED
    BY <1>1, <1>5, <1>6, <2>1, <2>2 DEF Kept, Indexed
<1>10. ASSUME NEW a \in Accounts PROVE WorkerInv(f[a], a)'
  <2>1. PICK w : w = f[a]
    OBVIOUS
  <2>2. operation \in [Ids -> Nat] /\ \A i \in Ids : operation[i] <= operation'[i]
    BY <1>1 DEF HarmlessInv, ChainTypes
  <2>3. WorkerInv(w, a)'
    BY <1>1, <1>7, <1>8, <2>1, <2>2, WorkerStays
  <2> QED
    BY <2>1, <2>3
<1> QED
  BY <1>1, <1>3, <1>4, <1>9, <1>10 DEF HarmlessInv

LEMMA RepairKeeps ==
  ASSUME HarmlessInv, NEW a \in Accounts, Repair(a)
  PROVE  HarmlessInv'
<1>1. PICK w, id : w = worker[a] /\ id = <<a, w.token>>
  OBVIOUS
<1>2. /\ WorkerInv(w, a) /\ UNCHANGED <<mode, chainVars>> /\ w.pc = "repair"
      /\ w.token \in w.todo /\ id \in Ids
  BY <1>1, IdsAreTokens DEF HarmlessInv, Repair, WorkerInv
<1> DEFINE stored == doc[id]
           repaired == IF w.token \in DOMAIN w.proxy
                         THEN fixWrongBalance(doc[id], w.proxy[w.token], w.timestamp)
                         ELSE deleteExtraBalance(doc[id], w.timestamp)
           forced == /\ repaired # doc[id]
                     /\ IF repaired = NoDoc THEN balance[id] # 0 ELSE repaired.balance # balance[id]
                     /\ \/ <<id, w.timestamp>> \in bare
                        \/ repaired = NoDoc /\ (w.timestamp = 0 \/ doc[id].timestamp = Old)
<1>3. \/ UNCHANGED <<doc, excused>>
      \/ doc' = [doc EXCEPT ![id] = repaired] /\ excused' = IF forced THEN excused \cup {id} ELSE excused
  BY <1>1 DEF Repair
<1>4. PICK w2 : worker' = [worker EXCEPT ![a] = w2] /\ WorkerInv(w2, a)
  <2>1. CASE Return(a)
    <3>1. PICK p, w2 : p = "returned" /\ w2 = [Idle EXCEPT !.pc = p]
      OBVIOUS
    <3>2. worker' = [worker EXCEPT ![a] = w2] /\ p \notin Busy
      BY <2>1, <3>1 DEF Return, Busy
    <3>3. WorkerInv(w2, a)
      BY <3>1, <3>2, IdleInv
    <3> QED
      BY <3>2, <3>3
  <2>2. ASSUME NEW rest, rest = w.todo \ {w.token}, NEW token \in rest,
               worker' = [worker EXCEPT ![a] = [w EXCEPT !.pc = "last", !.todo = rest, !.token = token]]
        PROVE  \E w2 : worker' = [worker EXCEPT ![a] = w2] /\ WorkerInv(w2, a)
    <3> DEFINE w2 == [w EXCEPT !.pc = "last", !.todo = rest, !.token = token]
    <3>1. /\ IsWorker(w2) /\ w2.pc = "last" /\ w2.slot = w.slot /\ w2.todo = rest
          /\ w2.token = token /\ w2.proxy = w.proxy /\ w2.timestamp = w.timestamp
      BY <1>2 DEF WorkerInv, IsWorker
    <3>2. worker' = [worker EXCEPT ![a] = w2]
      BY <2>2
    <3> HIDE DEF w2
    <3>3. WorkerInv(w2, a)
      BY <1>2, <2>2, <3>1 DEF WorkerInv, Busy
    <3> QED
      BY <3>2, <3>3
  <2>3. PICK rest : rest = w.todo \ {w.token}
    OBVIOUS
  <2> QED
    BY <1>1, <2>1, <2>2, <2>3 DEF Repair
<1>5. CASE UNCHANGED <<doc, excused>>
  BY <1>2, <1>4, <1>5, GoroutineStep
<1>6. CASE doc' = [doc EXCEPT ![id] = repaired] /\ excused' = IF forced THEN excused \cup {id} ELSE excused
  <2>1. /\ stored \in Docs \cup {NoDoc}
        /\ stored # NoDoc => stored.timestamp \in Nat /\ stored.timestamp <= Reached
        /\ operation[id] \in Nat /\ operation[id] <= Reached /\ balance[id] \in Nat
        /\ w.timestamp \in Nat /\ w.timestamp <= operation[id] /\ Reached \in Int
    BY <1>1, <1>2 DEF HarmlessInv, ChainTypes, TimeInv, WorkerInv, Docs, Reached
  <2> DEFINE Good == /\ repaired \in Docs \cup {NoDoc}
                     /\ repaired # NoDoc => repaired.timestamp <= Reached
                     /\ Repaired(id, repaired)
  <2>2. repaired = stored => Good
    BY <2>1 DEF Repaired
  <2>3. /\ forced => id \in excused'
        /\ excused \subseteq excused' /\ Safe(id, w.timestamp) /\ Kept(id)
        /\ Indexed(id) => ~Pending(id)
    BY <1>1, <1>2, <1>6 DEF HarmlessInv, WorkerInv, Indexed, Pending, NotPending
  <2>4. ASSUME repaired # stored, id \notin excused', id \notin excused
        PROVE  Good
    <3>1. CASE w.token \in DOMAIN w.proxy
      <4>1. PICK b \in 0..MaxBalance : b = w.proxy[w.token] /\ (b = balance[id] \/ Changed(id))
        BY <1>1, <1>2, <3>1 DEF WorkerInv
      <4>2. /\ repaired = [balance |-> b, timestamp |-> w.timestamp] /\ stored # NoDoc
            /\ stored.timestamp = 0 \/ stored.timestamp < w.timestamp
        BY <2>4, <3>1, <4>1 DEF fixWrongBalance, Old
      <4>3. /\ repaired \in Docs /\ repaired # NoDoc /\ repaired.balance = b
            /\ repaired.timestamp = w.timestamp
        BY <2>1, <4>2, BalanceAssumption DEF Docs
      <4>4. <<id, w.timestamp>> \in bare => b = balance[id]
        BY <2>3, <2>4, <4>3
      <4>5. Indexed(id) => b = balance[id]
        <5>1. CASE stored.timestamp = 0
          BY <2>3, <2>4, <4>1, <4>2, <5>1 DEF Changed, Old
        <5>2. CASE stored.timestamp # 0
          BY <2>1, <2>3, <2>4, <4>2, <4>4, <5>2 DEF Safe, Covers
        <5> QED
          BY <5>1, <5>2
      <4> HIDE DEF repaired, forced
      <4>6. Repaired(id, repaired)
        BY <2>1, <4>2, <4>3, <4>5 DEF Repaired, Right
      <4> QED
        BY <2>1, <4>3, <4>6
    <3>2. CASE w.token \notin DOMAIN w.proxy
      <4>1. /\ repaired = NoDoc /\ stored # NoDoc
            /\ stored.timestamp = 0 \/ stored.timestamp < w.timestamp \/ w.timestamp = 0
        BY <2>4, <3>2 DEF deleteExtraBalance, Old
      <4>2. Indexed(id) => balance[id] = 0
        BY <2>1, <2>3, <2>4, <4>1 DEF Safe, Covers, Old
      <4> HIDE DEF repaired, forced
      <4> QED
        BY <4>1, <4>2 DEF Repaired, Right
    <3> QED
      BY <3>1, <3>2
  <2>11. id \in excused' => Repaired(id, repaired)
    BY DEF Repaired
  <2>12. repaired \in Docs \cup {NoDoc} /\ (repaired # NoDoc => repaired.timestamp <= Reached)
    <3>1. w.token \in DOMAIN w.proxy => w.proxy[w.token] \in 0..MaxBalance
      BY <1>2 DEF WorkerInv
    <3> QED
      BY <2>1, <3>1 DEF fixWrongBalance, deleteExtraBalance, Docs
  <2>5. Good /\ excused \subseteq excused'
    BY <2>2, <2>3, <2>4, <2>11, <2>12
  <2>6. PICK f : f = [worker EXCEPT ![a] = w2]
    OBVIOUS
  <2>7. DOMAIN f = Accounts /\ \A b \in Accounts : f[b] = IF b = a THEN w2 ELSE worker[b]
    BY <2>6 DEF HarmlessInv
  <2>8. \A b \in Accounts : WorkerInv(f[b], b)
    BY <1>4, <2>7 DEF HarmlessInv
  <2>9. PICK d : d = repaired
    OBVIOUS
  <2> HIDE DEF repaired
  <2>10. doc' = [doc EXCEPT ![id] = d] /\ worker' = f
    BY <1>4, <1>6, <2>6, <2>9
  <2> QED
    BY <1>2, <2>5, <2>7, <2>8, <2>9, <2>10, DocumentRepaired
<1> QED
  BY <1>3, <1>5, <1>6
-----------------------------------------------------------------------------
(* A block is committed.                                                   *)
LEMMA CommitKeeps ==
  ASSUME HarmlessInv, NEW id \in Ids, NEW new \in 0..MaxBalance, NEW isSender \in BOOLEAN,
         NEW altered \in BOOLEAN, Commit(id, new, isSender, altered)
  PROVE  HarmlessInv'
<1>1. PICK block : block =
        [id |-> id, balance |-> new, timestamp |-> time + 1, found |-> isSender \/ mode = "egld",
         altered |-> altered, step |-> "operations"]
  OBVIOUS
<1>2. /\ time' = time + 1 /\ balance' = [balance EXCEPT ![id] = new]
      /\ queue' = Append(queue, block) /\ (new # balance[id] => altered)
      /\ bare' = IF altered THEN bare ELSE bare \cup {<<id, time + 1>>}
      /\ UNCHANGED <<mode, operation, alone, doc, worker, excused>>
  BY <1>1 DEF Commit, toolVars
<1>3. /\ time \in Nat /\ queue \in Seq(Blocks) /\ balance \in [Ids -> 0..MaxBalance] /\ Ids' = Ids
      /\ bare \subseteq bare'
  BY <1>2 DEF HarmlessInv, ChainTypes, Ids
<1>4. block \in Blocks
  BY <1>1, <1>3 DEF Blocks
<1>5. /\ Len(queue') = Len(queue) + 1 /\ DOMAIN queue' = 1..Len(queue) + 1
      /\ \A i \in DOMAIN queue : queue'[i] = queue[i] /\ i \in DOMAIN queue'
      /\ queue'[Len(queue) + 1] = block /\ DOMAIN queue = 1..Len(queue) /\ Len(queue) \in Nat
      /\ queue' \in Seq(Blocks)
  BY <1>2, <1>3, <1>4
<1>6. ChainTypes'
  BY <1>2, <1>3, <1>5 DEF HarmlessInv, ChainTypes, Blocks
<1>7. Reached' = Reached
  <2>1. queue' # <<>>
    BY <1>5
  <2>2. queue = <<>> <=> Len(queue) = 0
    BY <1>3
  <2>3. block.step = "operations"
    BY <1>1
  <2> QED
    BY <1>2, <1>3, <1>5, <2>1, <2>2, <2>3 DEF Reached
<1>8. TimeInv'
  <2>1. /\ block.timestamp = time + 1 /\ block.step = "operations" /\ block.id = id
        /\ block.altered \/ <<block.id, block.timestamp>> \in bare'
    BY <1>1, <1>2
  <2>2. ASSUME NEW i \in DOMAIN queue'
        PROVE  /\ queue'[i].timestamp = time' - Len(queue') + i
               /\ queue'[i].step = "accounts" => i = 1 /\ queue'[i].altered
               /\ queue'[i].altered \/ <<queue'[i].id, queue'[i].timestamp>> \in bare'
    <3>1. CASE i = Len(queue) + 1
      <4>1. queue'[i] = block
        BY <1>5, <3>1
      <4>2. block.timestamp = time' - Len(queue') + i
        BY <1>2, <1>3, <1>5, <2>1, <3>1
      <4> QED
        BY <2>1, <4>1, <4>2
    <3>2. CASE i # Len(queue) + 1
      <4>1. i \in DOMAIN queue /\ queue'[i] = queue[i]
        BY <1>5, <3>2
      <4> QED
        BY <1>2, <1>3, <1>5, <4>1 DEF HarmlessInv, TimeInv
    <3> QED
      BY <3>1, <3>2
  <2>3. Len(queue') <= time' - StartTime
    BY <1>2, <1>3, <1>5, BalanceAssumption DEF HarmlessInv, TimeInv
  <2>4. \A i \in Ids : /\ operation'[i] <= Reached'
                       /\ doc'[i] # NoDoc => doc'[i].timestamp <= Reached'
                       /\ alone'[i] # NoDoc => alone'[i].timestamp <= Reached'
    BY <1>2, <1>7 DEF HarmlessInv, TimeInv
  <2> QED
    BY <1>3, <2>2, <2>3, <2>4 DEF TimeInv
<1>9. altered => Pending(id)' /\ ~Indexed(id)'
  <2> SUFFICES ASSUME altered PROVE Pending(id)' /\ ~Indexed(id)'
    OBVIOUS
  <2>1. PICK m \in DOMAIN queue' : m = Len(queue) + 1
    BY <1>5
  <2>2. queue'[m].id = id /\ queue'[m].balance = balance'[id] /\ queue'[m].altered
    BY <1>1, <1>2, <1>3, <1>5, <2>1
  <2>3. \A i \in DOMAIN queue' : ~(i > m)
    BY <1>5, <2>1
  <2>4. Pending(id)'
    BY <2>2, <2>3 DEF Pending
  <2> QED
    BY <2>2, <2>4 DEF Indexed, NotPending
<1>10. ASSUME NEW i \in Ids, i # id \/ ~altered
       PROVE  /\ balance'[i] = balance[i]
              /\ Pending(i) => Pending(i)'
              /\ NotPending(i)' <=> NotPending(i)
  <2>1. balance'[i] = balance[i]
    BY <1>2, <1>3, <1>10
  <2>2. block.altered => block.id # i
    BY <1>1, <1>10
  <2>3. NotPending(i)' <=> NotPending(i)
    BY <1>5, <2>2 DEF NotPending
  <2>4. Pending(i) => Pending(i)'
    BY <1>5, <2>1, <2>2 DEF Pending
  <2> QED
    BY <2>1, <2>3, <2>4
<1>11. ASSUME NEW i \in Ids, NEW t, Safe(i, t) PROVE Safe(i, t)'
  <2>1. CASE i = id /\ altered
    BY <1>9, <2>1 DEF Safe
  <2>2. CASE i # id \/ ~altered
    BY <1>2, <1>3, <1>10, <1>11, <2>2 DEF Safe, Covers, Indexed
  <2> QED
    BY <2>1, <2>2
<1>12. ASSUME NEW i \in Ids
       PROVE  (Changed(i) => Changed(i)') /\ Kept(i)'
  <2>1. CASE i = id /\ altered
    BY <1>9, <2>1 DEF Changed, Kept
  <2>2. CASE i # id \/ ~altered
    <3>1. Changed(i) => Changed(i)'
      BY <1>2, <1>10, <2>2 DEF Changed, Indexed
    <3>2. Safe(i, operation[i]) => Safe(i, operation[i])'
      <4>1. PICK t : t = operation[i] /\ t = operation'[i]
        BY <1>2
      <4> QED
        BY <1>11, <4>1
    <3>3. Kept(i)
      BY DEF HarmlessInv
    <3>4. Kept(i)'
      BY <1>2, <1>10, <2>2, <3>2, <3>3 DEF Kept
    <3> QED
      BY <3>1, <3>4
  <2> QED
    BY <2>1, <2>2
<1>13. ASSUME NEW a \in Accounts PROVE WorkerInv(worker[a], a)'
  <2>1. PICK w : w = worker[a]
    OBVIOUS
  <2>2. operation \in [Ids -> Nat] /\ \A i \in Ids : operation[i] <= operation'[i]
    BY <1>2 DEF HarmlessInv, ChainTypes
  <2>3. \A i \in Ids : Changed(i) => Changed(i)'
    BY <1>12
  <2>4. \A i \in Ids : balance'[i] = balance[i] \/ Changed(i)'
    BY <1>9, <1>10 DEF Changed
  <2>5. WorkerInv(w, a)'
    BY <1>2, <1>3, <1>11, <2>1, <2>2, <2>3, <2>4, WorkerStays DEF HarmlessInv
  <2>6. w = worker'[a]
    BY <1>2, <2>1
  <2> QED
    BY <2>5, <2>6
<1> QED
  BY <1>2, <1>3, <1>6, <1>8, <1>12, <1>13 DEF HarmlessInv

(* The first block is done with.                                           *)
LEMMA BlockDone ==
  ASSUME HarmlessInv, UNCHANGED <<mode, balance, time, bare>>, queue # <<>>,
         queue' = Tail(queue)
  PROVE  /\ queue' \in Seq(Blocks) /\ Ids' = Ids /\ Len(queue) \in Nat /\ time \in Nat
         /\ Len(queue') = Len(queue) - 1 /\ Reached' = time - Len(queue) + 1
         /\ Len(queue') <= time - StartTime
         /\ \A i \in DOMAIN queue' :
              /\ queue'[i].timestamp = time - Len(queue') + i
              /\ queue'[i].step # "accounts"
              /\ queue'[i].altered \/ <<queue'[i].id, queue'[i].timestamp>> \in bare
         /\ \A id : NotPending(id) => NotPending(id)'
         /\ \A id : NotPending(id)' /\ ~(queue[1].altered /\ queue[1].id = id) => NotPending(id)
         /\ \A id : Pending(id) => Pending(id)' \/ (/\ NotPending(id)' /\ queue[1].id = id
                                                   /\ queue[1].altered
                                                   /\ queue[1].balance = balance[id])
<1>1. queue \in Seq(Blocks) /\ time \in Nat /\ Ids' = Ids /\ Len(queue) <= time - StartTime
  BY DEF HarmlessInv, ChainTypes, TimeInv, Ids
<1>2. /\ queue' \in Seq(Blocks) /\ Len(queue') = Len(queue) - 1 /\ Len(queue) \in Nat \ {0}
      /\ DOMAIN queue' = 1..Len(queue) - 1 /\ DOMAIN queue = 1..Len(queue)
      /\ \A i \in 1..Len(queue) - 1 : queue'[i] = queue[i + 1]
  BY <1>1
<1>3. \A i \in DOMAIN queue' :
        /\ queue'[i].timestamp = time - Len(queue') + i
        /\ queue'[i].step # "accounts"
        /\ queue'[i].altered \/ <<queue'[i].id, queue'[i].timestamp>> \in bare
  <2> SUFFICES ASSUME NEW i \in DOMAIN queue'
               PROVE  /\ queue'[i].timestamp = time - Len(queue') + i
                      /\ queue'[i].step # "accounts"
                      /\ queue'[i].altered \/ <<queue'[i].id, queue'[i].timestamp>> \in bare
    OBVIOUS
  <2>1. i + 1 \in DOMAIN queue /\ queue'[i] = queue[i + 1] /\ i + 1 # 1
    BY <1>2
  <2> QED
    BY <1>1, <1>2, <2>1 DEF HarmlessInv, TimeInv
<1>4. Reached' = time - Len(queue) + 1
  <2>1. ~(queue' # <<>> /\ queue'[1].step = "accounts")
    <3>1. queue' # <<>> => 1 \in DOMAIN queue'
      BY <1>2
    <3> QED
      BY <1>3, <3>1
  <2>2. Reached' = time' - Len(queue')
    <3>1. time' \in Nat /\ Len(queue') \in Nat
      BY <1>1, <1>2
    <3> QED
      BY <2>1, <3>1 DEF Reached
  <2> QED
    BY <1>1, <1>2, <2>2
<1>5. \A id : NotPending(id) => NotPending(id)'
  BY <1>2 DEF NotPending
<1>6. ASSUME NEW id, NotPending(id)', ~(queue[1].altered /\ queue[1].id = id)
      PROVE  NotPending(id)
  <2> SUFFICES ASSUME NEW i \in DOMAIN queue, queue[i].altered PROVE queue[i].id # id
    BY DEF NotPending
  <2>1. CASE i = 1
    BY <1>6, <2>1
  <2>2. CASE i # 1
    <3>1. i - 1 \in DOMAIN queue' /\ queue'[i - 1] = queue[i]
      BY <1>2, <2>2
    <3> QED
      BY <1>6, <3>1 DEF NotPending
  <2> QED
    BY <2>1, <2>2
<1>7. ASSUME NEW id, Pending(id)
      PROVE  Pending(id)' \/ (/\ NotPending(id)' /\ queue[1].id = id /\ queue[1].altered
                              /\ queue[1].balance = balance[id])
  <2>1. PICK m \in DOMAIN queue :
          /\ queue[m].id = id /\ queue[m].altered /\ queue[m].balance = balance[id]
          /\ \A i \in DOMAIN queue : i > m /\ queue[i].altered => queue[i].id # id
    BY <1>7 DEF Pending
  <2>2. CASE m = 1
    BY <1>2, <2>1, <2>2 DEF NotPending
  <2>3. CASE m # 1
    <3>1. m - 1 \in DOMAIN queue' /\ queue'[m - 1] = queue[m]
      BY <1>2, <2>3
    <3>2. \A i \in DOMAIN queue' : i > m - 1 /\ queue'[i].altered => queue'[i].id # id
      BY <1>2, <2>1
    <3> QED
      BY <2>1, <3>1, <3>2 DEF Pending
  <2> QED
    BY <2>2, <2>3
<1> QED
  BY <1>1, <1>2, <1>3, <1>4, <1>5, <1>6, <1>7, BalanceAssumption

(* The documents of a block become visible.                                *)
LEMMA IndexKeeps == HarmlessInv /\ IndexBlock => HarmlessInv'
<1> SUFFICES ASSUME HarmlessInv, IndexBlock PROVE HarmlessInv'
  OBVIOUS
<1>1. PICK b : b = queue[1]
  OBVIOUS
<1>2. /\ UNCHANGED <<mode, balance, time, bare, worker, excused>> /\ queue # <<>> /\ b = Head(queue)
      /\ queue \in Seq(Blocks)
  BY <1>1 DEF IndexBlock, toolVars, HarmlessInv, ChainTypes
<1>3. /\ b \in Blocks /\ b.id \in Ids /\ 1 \in DOMAIN queue /\ time \in Nat /\ Len(queue) \in Nat \ {0}
      /\ Len(queue) <= time - StartTime /\ b.timestamp = time - Len(queue) + 1
      /\ b.timestamp \in Nat \ {0} /\ Ids' = Ids
      /\ b.altered \/ <<b.id, b.timestamp>> \in bare
      /\ b.step = "accounts" => b.altered
  <2>1. b \in Blocks /\ 1 \in DOMAIN queue /\ Len(queue) \in Nat \ {0}
    BY <1>1, <1>2
  <2>2. b.id \in Ids /\ b.timestamp \in Nat
    BY <2>1 DEF Blocks
  <2>3. /\ time \in Nat /\ Len(queue) <= time - StartTime /\ b.timestamp = time - Len(queue) + 1
        /\ b.altered \/ <<b.id, b.timestamp>> \in bare
        /\ b.step = "accounts" => b.altered
    BY <1>1, <2>1 DEF HarmlessInv, ChainTypes, TimeInv
  <2>4. Ids' = Ids
    BY <1>2 DEF Ids
  <2> QED
    BY <2>1, <2>2, <2>3, <2>4, BalanceAssumption
<1>4. /\ doc \in [Ids -> Docs \cup {NoDoc}] /\ alone \in [Ids -> Docs \cup {NoDoc}]
      /\ operation \in [Ids -> Nat] /\ balance \in [Ids -> 0..MaxBalance]
      /\ DOMAIN worker = Accounts /\ \A a \in Accounts : WorkerInv(worker[a], a)
      /\ \A i \in Ids : Kept(i)
  BY DEF HarmlessInv, ChainTypes
<1>5. b.altered => ~NotPending(b.id)
  BY <1>1, <1>3 DEF NotPending
<1>6. ASSUME ChainTypes', TimeInv', operation' \in [Ids -> Nat],
             \A i \in Ids : operation[i] <= operation'[i],
             \A i \in Ids : Changed(i) => Changed(i)',
             \A i \in Ids : \A t \in Nat : t <= operation[i] /\ Safe(i, t) => Safe(i, t)',
             \A i \in Ids : Kept(i)'
      PROVE  HarmlessInv'
  <2>1. ASSUME NEW a \in Accounts PROVE WorkerInv(worker[a], a)'
    <3>1. PICK w : w = worker[a]
      OBVIOUS
    <3>2. WorkerInv(w, a)'
      BY <1>2, <1>4, <1>6, <3>1, WorkerStays
    <3>3. w = worker'[a]
      BY <1>2, <3>1
    <3> QED
      BY <3>2, <3>3
  <2> QED
    BY <1>2, <1>3, <1>4, <1>6, <2>1 DEF HarmlessInv
<1>7. CASE b.step = "operations"
  <2>1. /\ operation' = IF b.found THEN [operation EXCEPT ![b.id] = b.timestamp] ELSE operation
        /\ queue' = IF b.altered THEN [queue EXCEPT ![1].step = "accounts"] ELSE Tail(queue)
        /\ UNCHANGED <<doc, alone>>
    BY <1>1, <1>2, <1>7 DEF IndexBlock
  <2>2. Reached = time - Len(queue)
    BY <1>1, <1>3, <1>7 DEF Reached
  <2>3. /\ operation' \in [Ids -> Nat]
        /\ \A i \in Ids : /\ operation[i] <= operation'[i]
                          /\ operation'[i] <= b.timestamp
                          /\ \/ operation'[i] = operation[i]
                             \/ i = b.id /\ operation'[i] = b.timestamp
    BY <1>3, <1>4, <2>1, <2>2 DEF HarmlessInv, TimeInv
  <2>4. \A i \in Ids : /\ doc[i] # NoDoc => doc[i].timestamp \in Nat /\ doc[i].timestamp <= b.timestamp
                       /\ alone[i] # NoDoc => alone[i].timestamp \in Nat /\ alone[i].timestamp <= b.timestamp
    BY <1>3, <1>4, <2>2 DEF HarmlessInv, TimeInv, Docs
  <2>5. ASSUME NEW i \in Ids, NotPending(i)' <=> NotPending(i), Pending(i) => Pending(i)'
        PROVE  /\ Changed(i) => Changed(i)'
               /\ \A t \in Nat : t <= operation[i] /\ Safe(i, t) => Safe(i, t)'
               /\ Kept(i)'
    <3>1. Indexed(i)' <=> Indexed(i)
      BY <1>2, <2>1, <2>5 DEF Indexed
    <3>2. \A t : Safe(i, t) => Safe(i, t)'
      BY <1>2, <2>1, <3>1 DEF Safe, Covers
    <3>3. Changed(i) => Changed(i)'
      BY <1>2, <2>1, <2>5, <3>1 DEF Changed
    <3>4. NotPending(i) /\ Safe(i, operation[i]) => Safe(i, operation[i])'
      <4>1. CASE operation'[i] = operation[i]
        <5>1. PICK t : t = operation[i] /\ t = operation'[i]
          BY <4>1
        <5> QED
          BY <3>2, <5>1
      <4>2. CASE i = b.id /\ operation'[i] = b.timestamp
        BY <1>2, <1>3, <1>5, <4>2 DEF Safe, Covers
      <4> QED
        BY <2>3, <4>1, <4>2
    <3>5. Kept(i)'
      BY <1>2, <1>4, <2>1, <2>5, <3>4 DEF Kept
    <3> QED
      BY <3>2, <3>3, <3>5
  <2>6. CASE b.altered
    <3>1. /\ queue' = [queue EXCEPT ![1] = [b EXCEPT !.step = "accounts"]]
      BY <1>1, <2>1, <2>6
    <3>2. /\ [b EXCEPT !.step = "accounts"] \in Blocks /\ [b EXCEPT !.step = "accounts"].step = "accounts"
          /\ [b EXCEPT !.step = "accounts"].id = b.id /\ [b EXCEPT !.step = "accounts"].balance = b.balance
          /\ [b EXCEPT !.step = "accounts"].timestamp = b.timestamp
          /\ [b EXCEPT !.step = "accounts"].altered = b.altered
      BY <1>3 DEF Blocks
    <3>3. /\ queue' \in Seq(Blocks) /\ Len(queue') = Len(queue) /\ DOMAIN queue' = DOMAIN queue
          /\ queue' # <<>> /\ queue'[1].step = "accounts"
          /\ \A i \in DOMAIN queue : /\ queue'[i].id = queue[i].id /\ queue'[i].balance = queue[i].balance
                                     /\ queue'[i].timestamp = queue[i].timestamp
                                     /\ queue'[i].altered = queue[i].altered
                                     /\ i # 1 => queue'[i].step = queue[i].step
      <4>1. PICK b2 \in Blocks : b2 = [b EXCEPT !.step = "accounts"]
        BY <3>2
      <4>2. queue' \in Seq(Blocks) /\ Len(queue') = Len(queue) /\ DOMAIN queue' = DOMAIN queue
        BY <1>2, <1>3, <3>1, <4>1
      <4>3. \A i \in DOMAIN queue : queue'[i] = IF i = 1 THEN b2 ELSE queue[i]
        BY <1>2, <1>3, <3>1, <4>1
      <4>4. queue' # <<>>
        BY <1>3, <4>2
      <4> QED
        BY <1>1, <1>3, <3>2, <4>1, <4>2, <4>3, <4>4
    <3>4. Reached' = b.timestamp
      BY <1>2, <1>3, <3>3 DEF Reached
    <3>5. ChainTypes'
      BY <1>2, <1>3, <2>1, <2>3, <3>3 DEF HarmlessInv, ChainTypes, Blocks
    <3>6. TimeInv'
      <4>1. ASSUME NEW i \in DOMAIN queue'
            PROVE  /\ queue'[i].timestamp = time' - Len(queue') + i
                   /\ queue'[i].step = "accounts" => i = 1 /\ queue'[i].altered
                   /\ queue'[i].altered \/ <<queue'[i].id, queue'[i].timestamp>> \in bare'
        BY <1>1, <1>2, <1>3, <2>6, <3>3 DEF HarmlessInv, TimeInv
      <4> QED
        BY <1>2, <1>3, <2>1, <2>3, <2>4, <3>3, <3>4, <4>1 DEF TimeInv
    <3>7. \A i : (Pending(i) => Pending(i)') /\ (NotPending(i) <=> NotPending(i)')
      BY <1>2, <3>3 DEF Pending, NotPending
    <3> QED
      BY <1>6, <2>3, <2>5, <3>5, <3>6, <3>7
  <2>7. CASE ~b.altered
    <3>1. queue' = Tail(queue)
      BY <2>1, <2>7
    <3>2. ChainTypes'
      BY <1>2, <2>1, <2>3, <3>1, BlockDone DEF HarmlessInv, ChainTypes, Blocks
    <3>3. TimeInv'
      BY <1>2, <1>3, <2>1, <2>3, <2>4, <3>1, BlockDone DEF TimeInv
    <3>4. \A i : (Pending(i) => Pending(i)') /\ (NotPending(i) <=> NotPending(i)')
      BY <1>1, <1>2, <2>7, <3>1, BlockDone
    <3> QED
      BY <1>6, <2>3, <2>5, <3>2, <3>3, <3>4
  <2> QED
    BY <2>6, <2>7
<1>8. CASE b.step # "operations"
  <2>1. /\ doc' = [doc EXCEPT ![b.id] = IndexAccount(doc[b.id], b.balance, b.timestamp)]
        /\ alone' = [alone EXCEPT ![b.id] = IndexAccount(alone[b.id], b.balance, b.timestamp)]
        /\ queue' = Tail(queue) /\ UNCHANGED operation
    BY <1>1, <1>2, <1>8 DEF IndexBlock
  <2>2. b.step = "accounts" /\ Reached = b.timestamp /\ b.altered
    BY <1>1, <1>2, <1>3, <1>8 DEF Blocks, Reached
  <2>3. PICK d : d = IndexAccount(doc[b.id], b.balance, b.timestamp)
    OBVIOUS
  <2>4. /\ doc[b.id] # NoDoc => doc[b.id].timestamp \in Nat /\ doc[b.id].timestamp <= b.timestamp
        /\ alone[b.id] # NoDoc => alone[b.id].timestamp \in Nat /\ alone[b.id].timestamp <= b.timestamp
    BY <1>3, <1>4, <2>2 DEF HarmlessInv, TimeInv, Docs
  <2>5. \/ d = NoDoc /\ b.balance = 0
        \/ d = [balance |-> b.balance, timestamp |-> b.timestamp]
    BY <1>3, <2>3, <2>4 DEF IndexAccount
  <2>6. /\ d \in Docs \cup {NoDoc} /\ Right(d, b.balance)
        /\ d # NoDoc => d.timestamp = b.timestamp
    BY <1>3, <2>5, BalanceAssumption DEF Docs, Right, Blocks
  <2>7. IndexAccount(alone[b.id], b.balance, b.timestamp) = d
    BY <1>3, <2>3, <2>4 DEF IndexAccount
  <2>8. /\ doc' \in [Ids -> Docs \cup {NoDoc}] /\ alone' \in [Ids -> Docs \cup {NoDoc}]
        /\ doc'[b.id] = d /\ alone'[b.id] = d
        /\ \A i \in Ids : i # b.id => doc'[i] = doc[i] /\ alone'[i] = alone[i]
    BY <1>3, <1>4, <2>1, <2>3, <2>6, <2>7
  <2>9. ChainTypes'
    BY <1>2, <2>1, <2>8, BlockDone DEF HarmlessInv, ChainTypes, Blocks
  <2>10. TimeInv'
    <3>1. Reached' = Reached
      BY <1>2, <1>3, <2>1, <2>2, BlockDone
    <3>2. \A i \in Ids : /\ operation'[i] <= Reached'
                         /\ doc'[i] # NoDoc => doc'[i].timestamp <= Reached'
                         /\ alone'[i] # NoDoc => alone'[i].timestamp <= Reached'
      BY <1>3, <2>1, <2>2, <2>6, <2>8, <3>1 DEF HarmlessInv, TimeInv
    <3> QED
      BY <1>2, <1>3, <2>1, <3>2, BlockDone DEF TimeInv
  <2>11. ASSUME NEW i \in Ids, i # b.id
         PROVE  /\ Changed(i) => Changed(i)'
                /\ \A t \in Nat : t <= operation[i] /\ Safe(i, t) => Safe(i, t)'
                /\ Kept(i)'
    <3>1. (NotPending(i)' <=> NotPending(i)) /\ (Pending(i) => Pending(i)')
      BY <1>1, <1>2, <2>1, <2>11, BlockDone
    <3>2. doc'[i] = doc[i] /\ alone'[i] = alone[i] /\ operation'[i] = operation[i]
      BY <2>1, <2>8, <2>11
    <3>3. Indexed(i)' <=> Indexed(i)
      BY <1>2, <3>1, <3>2 DEF Indexed
    <3>4. \A t : Safe(i, t) => Safe(i, t)'
      BY <1>2, <3>2, <3>3 DEF Safe, Covers
    <3>5. Safe(i, operation[i]) => Safe(i, operation[i])'
      <4>1. PICK t : t = operation[i] /\ t = operation'[i]
        BY <3>2
      <4> QED
        BY <3>4, <4>1
    <3> QED
      BY <1>2, <1>4, <3>1, <3>2, <3>3, <3>4, <3>5 DEF Changed, Kept
  <2>12. /\ Changed(b.id) => Changed(b.id)'
         /\ \A t \in Nat : t <= operation[b.id] /\ Safe(b.id, t) => Safe(b.id, t)'
         /\ Kept(b.id)'
    <3>1. operation[b.id] <= b.timestamp /\ operation[b.id] \in Nat
      BY <1>3, <1>4, <2>2 DEF HarmlessInv, TimeInv
    <3>2. \A t \in Nat : t <= operation[b.id] => Safe(b.id, t)'
      BY <1>3, <2>6, <2>8, <3>1 DEF Safe, Covers
    <3>3. Safe(b.id, operation[b.id])'
      <4>1. PICK t \in Nat : t = operation[b.id] /\ t = operation'[b.id]
        BY <2>1, <3>1
      <4> QED
        BY <3>1, <3>2, <4>1
    <3>4. Pending(b.id) => Pending(b.id)' \/ (NotPending(b.id)' /\ b.balance = balance[b.id])
      BY <1>1, <1>2, <2>1, BlockDone
    <3>5. NotPending(b.id)' /\ b.balance = balance[b.id]
            => Changed(b.id)' /\ Kept(b.id)'
      BY <1>2, <1>3, <2>6, <2>8, <3>3 DEF Changed, Kept, Indexed, Old
    <3>6. b.id \in excused \/ Pending(b.id)
      BY <1>3, <1>4, <1>5, <2>2 DEF Kept
    <3> QED
      BY <1>2, <3>2, <3>4, <3>5, <3>6 DEF Changed, Kept
  <2>13. \A i \in Ids : operation[i] <= operation'[i]
    BY <1>4, <2>1
  <2> QED
    BY <1>3, <1>4, <1>6, <2>1, <2>9, <2>10, <2>11, <2>12, <2>13
<1> QED
  BY <1>7, <1>8

LEMMA HarmlessStep == HarmlessInv /\ [Next]_vars => HarmlessInv'
<1> SUFFICES ASSUME HarmlessInv, [Next]_vars PROVE HarmlessInv'
  OBVIOUS
<1>1. CASE UNCHANGED vars
  <2>1. PICK f : f = worker
    OBVIOUS
  <2>2. UNCHANGED <<mode, chainVars, doc, excused, worker>>
    BY <1>1 DEF vars, toolVars
  <2> QED
    BY <2>1, <2>2, GoroutinesStep DEF HarmlessInv
<1> QED
  BY <1>1, CommitKeeps, IndexKeeps, ScrollKeeps, StartKeeps, AskKeeps, CompareKeeps, LastKeeps,
     RepairKeeps, ExitKeeps DEF Next, Goroutine, End, ScrollFails

(* The repairs of tools/accounts-balance-checker do no harm.  Whatever     *)
(* the interleaving of its goroutines with the chain and the indexer, and  *)
(* however old the gateway's answer is when it is written, a balance that  *)
(* would be right in an index the tool never touched is right once the     *)
(* indexer has caught up, with the exceptions RepairHarmless names.        *)
THEOREM RepairsDoNoHarm == Spec => []RepairHarmless
<1>1. HarmlessInv => RepairHarmless
  BY DEF HarmlessInv, RepairHarmless, Kept, Pending
<1>2. HarmlessInv /\ [Next]_vars => HarmlessInv'
  BY HarmlessStep
<1> QED
  BY <1>1, <1>2, HarmlessInit, PTL DEF Spec
-----------------------------------------------------------------------------
(***************************************************************************)
(* The repair is complete when the chain is at rest and no request fails.  *)
(***************************************************************************)
(* A goroutine holds a place in the channel exactly while it is busy.      *)
HoldsPlace(w) ==
  /\ w.pc \in {"idle", "listed", "returned", "killed"} \cup Busy
  /\ w.slot \in BOOLEAN
  /\ w.slot <=> w.pc \in Busy

Killed(p) == {a \in Accounts : PageIn(a) = p /\ worker[a].pc = "killed"}
LeftBehind == IF mode = "egld" THEN MaxParallel ELSE 0

PlacesInv ==
  /\ main \in {"start", "scroll", "ended"}
  /\ \A a \in Accounts : HoldsPlace(worker[a])
  /\ \A p \in Pages : Running(p) <= MaxParallel
  /\ main # "ended" => \A a \in Accounts : worker[a].pc # "killed"
  /\ main = "ended" => /\ \A p \in Pages : Cardinality(Killed(p)) <= LeftBehind
                       /\ \A a \in Accounts : worker[a].pc \in {"idle", "returned", "killed"}

(* Nothing more can be done for this document.                             *)
Done(id) ==
  \/ Right(doc[id], balance[id])
  \/ doc[id] = NoDoc
  \/ doc[id].timestamp # Old /\ doc[id].timestamp >= operation[id]

(* The gateway has told all that the documents of a need.                  *)
Answered(w, a) ==
  \A t \in TokensOf(a) :
    IF t \in DOMAIN w.proxy THEN w.proxy[t] = balance[<<a, t>>]
                            ELSE doc[<<a, t>>] = NoDoc \/ balance[<<a, t>>] = 0

Progress(w, a) ==
  /\ w.pc = "idle" => \A t \in TokensOf(a) : doc[<<a, t>>] = NoDoc
  /\ w.pc \in {"listed", "proxy", "compare"} => w.es = getBalancesForAddress(a, doc)
  /\ w.pc \in {"compare", "last", "repair"} => Answered(w, a)
  /\ w.pc \in {"last", "repair"} => \A t \in TokensOf(a) \ w.todo : Done(<<a, t>>)
  /\ w.pc = "repair" => w.timestamp = operation[<<a, w.token>>]
  /\ w.pc = "returned" => \A t \in TokensOf(a) : Done(<<a, t>>)

AtRest == doRepair /\ failures = 0 /\ time = StartTime

CompleteInv ==
  /\ failures \in Nat
  /\ PlacesInv
  /\ main = "start" => \A a \in Accounts : worker[a] = Idle
  /\ AtRest /\ main # "start" => \A a \in Accounts : Progress(worker[a], a)

LEMMA AccountsFinite ==
  ASSUME NEW S, S \subseteq Accounts
  PROVE  /\ IsFiniteSet(S) /\ Cardinality(S) \in Nat
         /\ \A T : T \subseteq S => Cardinality(T) <= Cardinality(S)
BY BalanceAssumption, FS_Subset, FS_CardinalityType

(* No goroutine takes a place.                                             *)
LEMMA NoneTaken ==
  ASSUME UNCHANGED mode, PlacesInv,
         \A b \in Accounts : worker'[b].slot => worker[b].slot
  PROVE  \A p \in Pages : Running(p)' <= MaxParallel
<1> SUFFICES ASSUME NEW p \in Pages PROVE Running(p)' <= MaxParallel
  OBVIOUS
<1> DEFINE S == {a \in Accounts : PageIn(a) = p /\ worker[a].slot}
           T == {a \in Accounts : PageIn(a)' = p /\ worker'[a].slot}
<1>1. \A a : PageIn(a)' = PageIn(a)
  BY DEF PageIn
<1>2. T \subseteq S /\ S \subseteq Accounts
  BY <1>1
<1>3. Running(p) = Cardinality(S) /\ Running(p)' = Cardinality(T)
  BY DEF Running
<1> HIDE DEF S, T
<1>4. Cardinality(T) <= Cardinality(S) /\ Cardinality(T) \in Nat /\ Cardinality(S) \in Nat
  BY <1>2, AccountsFinite
<1> QED
  BY <1>3, <1>4, BalanceAssumption DEF PlacesInv

(* A step of one goroutine that leaves the chain and the index alone.      *)
LEMMA CompleteStep ==
  ASSUME HarmlessInv, CompleteInv, main = "scroll",
         UNCHANGED <<mode, doRepair, chainVars, doc, main>>, failures' \in Nat,
         failures' = 0 => failures = 0,
         NEW a \in Accounts, NEW w2, worker' = [worker EXCEPT ![a] = w2],
         HoldsPlace(w2), w2.pc # "killed",
         w2.slot => worker[a].slot \/ Running(PageIn(a)) < MaxParallel,
         AtRest' => Progress(w2, a)
  PROVE  CompleteInv'
<1>1. UNCHANGED <<mode, balance, queue, time, operation, alone, doc, doRepair, main>> /\ Ids' = Ids
  BY DEF chainVars, Ids
<1>2. DOMAIN worker' = Accounts /\ \A b \in Accounts : worker'[b] = IF b = a THEN w2 ELSE worker[b]
  BY DEF HarmlessInv
<1>3. \A b \in Accounts : HoldsPlace(worker'[b]) /\ worker'[b].pc # "killed"
  BY <1>2 DEF CompleteInv, PlacesInv
<1>4. \A p \in Pages : Running(p)' <= MaxParallel
  <2>1. CASE w2.slot => worker[a].slot
    <3>1. \A b \in Accounts : worker'[b].slot => worker[b].slot
      BY <1>2, <2>1
    <3> QED
      BY <1>1, <3>1, NoneTaken DEF CompleteInv
  <2>2. CASE ~worker[a].slot /\ Running(PageIn(a)) < MaxParallel
    <3> SUFFICES ASSUME NEW p \in Pages PROVE Running(p)' <= MaxParallel
      OBVIOUS
    <3> DEFINE S == {b \in Accounts : PageIn(b) = p /\ worker[b].slot}
               T == {b \in Accounts : PageIn(b)' = p /\ worker'[b].slot}
    <3>1. \A b : PageIn(b)' = PageIn(b)
      BY <1>1 DEF PageIn
    <3>2. T \subseteq S \cup {a} /\ S \subseteq Accounts /\ S \cup {a} \subseteq Accounts
      BY <1>2, <3>1
    <3>3. Running(p) = Cardinality(S) /\ Running(p)' = Cardinality(T)
      BY DEF Running
    <3>4. p # PageIn(a) => T \subseteq S
      BY <1>2, <3>1
    <3> HIDE DEF S, T
    <3>5. /\ IsFiniteSet(S) /\ Cardinality(S) \in Nat /\ Cardinality(T) \in Nat
          /\ T \subseteq S => Cardinality(T) <= Cardinality(S)
          /\ Cardinality(T) <= Cardinality(S \cup {a})
      BY <3>2, AccountsFinite
    <3>6. Cardinality(S \cup {a}) <= Cardinality(S) + 1
      <4>1. Cardinality(S \cup {a}) = IF a \in S THEN Cardinality(S) ELSE Cardinality(S) + 1
        BY <3>5, FS_AddElement
      <4> QED
        BY <3>5, <4>1
    <3>7. Cardinality(S) <= MaxParallel
      BY <3>3 DEF CompleteInv, PlacesInv
    <3>8. p = PageIn(a) => Cardinality(S) < MaxParallel
      BY <2>2, <3>3
    <3>9. Cardinality(S \cup {a}) \in Nat
      BY <3>2, AccountsFinite
    <3> QED
      BY <3>3, <3>4, <3>5, <3>6, <3>7, <3>8, <3>9, BalanceAssumption
  <2> QED
    BY <2>1, <2>2
<1>5. PlacesInv'
  <2>1. Pages' = Pages
    BY <1>1 DEF Pages
  <2> QED
    BY <1>1, <1>3, <1>4, <2>1 DEF CompleteInv, PlacesInv
<1>6. ASSUME AtRest', NEW b \in Accounts PROVE Progress(worker[b], b)'
  <2>1. PICK w : w = worker'[b]
    OBVIOUS
  <2>2. AtRest
    BY <1>1, <1>6 DEF AtRest
  <2>3. Progress(w, b)
    BY <1>2, <1>6, <2>1, <2>2 DEF CompleteInv
  <2>4. /\ TokensOf(b)' = TokensOf(b) /\ getBalancesForAddress(b, doc)' = getBalancesForAddress(b, doc)
        /\ \A id : Done(id)' <=> Done(id)
    BY <1>1 DEF TokensOf, getBalancesForAddress, InES, Done
  <2>5. Answered(w, b)' <=> Answered(w, b)
    BY <1>1, <2>4 DEF Answered
  <2>6. Progress(w, b)'
    BY <1>1, <2>3, <2>4, <2>5 DEF Progress
  <2> QED
    BY <2>1, <2>6
<1> QED
  BY <1>1, <1>5, <1>6 DEF CompleteInv

(* A goroutine that has not started, or is gone.                           *)
LEMMA IdleHoldsNone ==
  ASSUME NEW w, NEW es, NEW p \in {"listed", "returned", "killed", "idle"},
         w = Idle \/ w = [Idle EXCEPT !.pc = p] \/ w = [Idle EXCEPT !.pc = p, !.es = es]
  PROVE  HoldsPlace(w) /\ w.slot = FALSE /\ w.pc \in {"idle", p}
<1>1. w = Idle => w.pc = "idle" /\ w.slot = FALSE
  BY DEF Idle
<1>2. w = [Idle EXCEPT !.pc = p] => w.pc = p /\ w.slot = FALSE
  BY DEF Idle
<1>3. w = [Idle EXCEPT !.pc = p, !.es = es] => w.pc = p /\ w.slot = FALSE
  BY DEF Idle
<1>4. w.pc \in {"idle", p} /\ w.slot = FALSE
  BY <1>1, <1>2, <1>3
<1>5. w.slot \in BOOLEAN /\ ~w.slot
  BY <1>4, Zenon
<1>6. w.pc \in {"idle", "listed", "returned", "killed"} /\ w.pc \notin Busy
  BY <1>4 DEF Busy
<1> QED
  BY <1>4, <1>5, <1>6, Zenon DEF HoldsPlace

LEMMA NoneKilled ==
  ASSUME \A a \in Accounts : worker[a].pc # "killed"
  PROVE  \A p \in Pages : Cardinality(Killed(p)) <= LeftBehind
<1>1. \A p \in Pages : Killed(p) = {}
  BY DEF Killed
<1>2. Cardinality({}) = 0
  BY FS_EmptySet
<1> QED
  <2>1. LeftBehind \in Nat
    BY BalanceAssumption DEF LeftBehind
  <2>2. ASSUME NEW p \in Pages PROVE Cardinality(Killed(p)) = 0
    BY <1>1, <1>2
  <2> QED
    BY <2>1, <2>2

LEMMA CompleteInit == Init => CompleteInv
<1> SUFFICES ASSUME Init PROVE CompleteInv
  OBVIOUS
<1>1. /\ \A a \in Accounts : worker[a] = Idle
      /\ main = "start" /\ failures = 0
  BY DEF Init
<1>2. \A a \in Accounts : HoldsPlace(worker[a]) /\ worker[a].slot = FALSE /\ worker[a].pc # "killed"
  <2> SUFFICES ASSUME NEW a \in Accounts
               PROVE  HoldsPlace(worker[a]) /\ worker[a].slot = FALSE /\ worker[a].pc # "killed"
    OBVIOUS
  <2>1. PICK p \in {"listed", "returned", "killed", "idle"} : p = "idle"
    OBVIOUS
  <2>2. HoldsPlace(worker[a]) /\ worker[a].slot = FALSE /\ worker[a].pc \in {"idle", p}
    BY <1>1, <2>1, IdleHoldsNone
  <2> QED
    BY <2>1, <2>2
<1>3. \A p \in Pages : Running(p) <= MaxParallel
  <2>1. ASSUME NEW p PROVE {a \in Accounts : PageIn(a) = p /\ worker[a].slot} = {}
    BY <1>2
  <2> QED
    <3>1. \A p : Running(p) = 0
      BY <2>1, FS_EmptySet DEF Running
    <3> QED
      BY <3>1, BalanceAssumption
<1> QED
  BY <1>1, <1>2, <1>3 DEF CompleteInv, PlacesInv

(* The chain and the indexer: at rest they do nothing.                     *)
LEMMA ChainCompletes ==
  ASSUME HarmlessInv, CompleteInv, UNCHANGED <<mode, doRepair, main, worker, failures>>,
         ~AtRest' \/ UNCHANGED <<chainVars, doc>>
  PROVE  CompleteInv'
<1>1. UNCHANGED <<mode, doRepair, main, worker, failures>>
  OBVIOUS
<1>2. PlacesInv'
  <2>1. UNCHANGED LeftBehind /\ UNCHANGED Pages
    BY <1>1 DEF LeftBehind, Pages
  <2>2. \A p : Running(p)' = Running(p) /\ Killed(p)' = Killed(p)
    BY <1>1 DEF Running, Killed, PageIn
  <2> QED
    BY <1>1, <2>1, <2>2 DEF CompleteInv, PlacesInv
<1>3. ASSUME AtRest', main # "start", NEW b \in Accounts PROVE Progress(worker[b], b)'
  <2>1. UNCHANGED <<mode, doRepair, main, worker, failures, balance, time, operation, doc>>
    BY <1>1, <1>3 DEF chainVars
  <2>2. PICK w : w = worker[b]
    OBVIOUS
  <2>3. Progress(w, b)
    BY <1>3, <2>1, <2>2 DEF CompleteInv, AtRest
  <2>4. /\ TokensOf(b)' = TokensOf(b) /\ getBalancesForAddress(b, doc)' = getBalancesForAddress(b, doc)
        /\ \A id : Done(id)' <=> Done(id)
    BY <2>1 DEF TokensOf, getBalancesForAddress, InES, Done, Ids
  <2>5. Answered(w, b)' <=> Answered(w, b)
    BY <2>1, <2>4 DEF Answered
  <2>6. Progress(w, b)'
    BY <2>1, <2>3, <2>4, <2>5 DEF Progress
  <2> QED
    BY <2>1, <2>2, <2>6
<1> QED
  BY <1>1, <1>2, <1>3 DEF CompleteInv

LEMMA CommitCompletes ==
  ASSUME HarmlessInv, CompleteInv, NEW id, NEW new, NEW isSender, NEW altered,
         Commit(id, new, isSender, altered)
  PROVE  CompleteInv'
<1>1. UNCHANGED <<mode, doRepair, toolVars>> /\ time' = time + 1
  BY DEF Commit
<1>2. time \in Nat /\ Len(queue) \in Nat /\ Len(queue) <= time - StartTime
  BY DEF HarmlessInv, ChainTypes, TimeInv
<1>3. ~AtRest'
  BY <1>1, <1>2, BalanceAssumption DEF AtRest
<1> QED
  BY <1>1, <1>3, ChainCompletes DEF toolVars

LEMMA IndexCompletes ==
  ASSUME HarmlessInv, CompleteInv, IndexBlock
  PROVE  CompleteInv'
<1>1. UNCHANGED <<mode, doRepair, toolVars, time>> /\ queue # <<>>
  BY DEF IndexBlock
<1>2. queue \in Seq(Blocks) /\ Len(queue) <= time - StartTime /\ time \in Nat
  BY DEF HarmlessInv, ChainTypes, TimeInv
<1>3. time # StartTime
  BY <1>1, <1>2, BalanceAssumption
<1> QED
  BY <1>1, <1>3, ChainCompletes DEF AtRest, toolVars

LEMMA ScrollCompletes ==
  ASSUME HarmlessInv, CompleteInv, Scroll
  PROVE  CompleteInv'
<1>1. UNCHANGED <<mode, doRepair, chainVars, doc>> /\ main = "start"
  BY DEF Scroll
<1>2. \A a \in Accounts : worker[a] = Idle /\ worker[a].slot = FALSE /\ worker[a].pc = "idle"
  <2>1. Idle.slot = FALSE /\ Idle.pc = "idle"
    BY DEF Idle
  <2> QED
    BY <1>1, <2>1 DEF CompleteInv
<1>3. UNCHANGED LeftBehind /\ UNCHANGED Pages
  BY <1>1 DEF LeftBehind, Pages
<1>4. CASE main' = "ended" /\ Fail /\ UNCHANGED worker
  <2>1. failures' \in Nat /\ ~AtRest'
    BY <1>4 DEF CompleteInv, Fail, AtRest
  <2>2. \A p : Running(p)' = Running(p) /\ Killed(p)' = Killed(p)
    BY <1>1, <1>4 DEF Running, Killed, PageIn
  <2>3. \A p \in Pages : Cardinality(Killed(p)) <= LeftBehind
    BY <1>2, NoneKilled
  <2> QED
    BY <1>2, <1>3, <1>4, <2>1, <2>2, <2>3 DEF CompleteInv, PlacesInv
<1>5. CASE /\ main' = "scroll" /\ UNCHANGED failures
           /\ worker' = [a \in Accounts |-> IF InES(a, doc) = {} THEN Idle
                ELSE [Idle EXCEPT !.pc = "listed", !.es = getBalancesForAddress(a, doc)]]
  <2>1. ASSUME NEW a \in Accounts
        PROVE  HoldsPlace(worker'[a]) /\ worker'[a].slot = FALSE /\ worker'[a].pc # "killed"
    <3>1. PICK w, es : w = worker'[a] /\ es = getBalancesForAddress(a, doc)
      OBVIOUS
    <3>2. w = IF InES(a, doc) = {} THEN Idle
              ELSE [Idle EXCEPT !.pc = "listed", !.es = getBalancesForAddress(a, doc)]
      BY <1>5, <3>1, Zenon
    <3>3. PICK p \in {"listed", "returned", "killed", "idle"} : p = "listed"
      OBVIOUS
    <3>4. w = Idle \/ w = [Idle EXCEPT !.pc = p, !.es = es]
      BY <3>1, <3>2, <3>3
    <3> QED
      BY <3>1, <3>3, <3>4, IdleHoldsNone
  <2>2. \A p \in Pages : Running(p)' <= MaxParallel
    BY <1>1, <2>1, NoneTaken DEF CompleteInv
  <2>3. PlacesInv'
    BY <1>3, <1>5, <2>1, <2>2 DEF PlacesInv
  <2>4. ASSUME NEW a \in Accounts PROVE Progress(worker[a], a)'
    <3>1. UNCHANGED <<balance, operation>> /\ TokensOf(a)' = TokensOf(a)
      BY <1>1 DEF chainVars, TokensOf, Ids
    <3>2. getBalancesForAddress(a, doc)' = getBalancesForAddress(a, doc)
      BY <1>1, <3>1 DEF getBalancesForAddress, InES
    <3>3. CASE InES(a, doc) = {}
      <4>1. worker'[a] = Idle
        BY <1>5, <3>3
      <4>2. worker'[a].pc = "idle"
        BY <4>1 DEF Idle
      <4>3. \A t \in TokensOf(a) : doc[<<a, t>>] = NoDoc
        BY <3>3 DEF InES
      <4> QED
        BY <1>1, <3>1, <4>2, <4>3 DEF Progress
    <3>4. CASE InES(a, doc) # {}
      <4>1. PICK es : es = getBalancesForAddress(a, doc)
        OBVIOUS
      <4>2. worker'[a] = [Idle EXCEPT !.pc = "listed", !.es = es]
        BY <1>5, <3>4, <4>1
      <4>3. worker'[a].pc = "listed" /\ worker'[a].es = es
        BY <4>2 DEF Idle
      <4> QED
        BY <3>2, <4>1, <4>3 DEF Progress
    <3> QED
      BY <3>3, <3>4
  <2> QED
    BY <1>5, <2>3, <2>4 DEF CompleteInv
<1> QED
  BY <1>4, <1>5 DEF Scroll

(* The program exits, after a failure or with nothing left to be started.  *)
LEMMA ExitCompletes ==
  ASSUME HarmlessInv, CompleteInv, Exit, main = "scroll",
         UNCHANGED <<mode, doRepair, chainVars, doc>>, failures' \in Nat,
         mode = "esdt" => \A a \in Accounts : ~worker[a].slot,
         \/ failures' # 0
         \/ UNCHANGED failures /\ \A a \in Accounts : worker[a].pc # "listed"
  PROVE  CompleteInv'
<1>1. main' = "ended"
  BY DEF Exit
<1>2. UNCHANGED LeftBehind /\ UNCHANGED Pages /\ \A a : PageIn(a)' = PageIn(a)
  BY DEF LeftBehind, Pages, PageIn
<1>3. ASSUME NEW a \in Accounts
      PROVE  /\ HoldsPlace(worker'[a]) /\ worker'[a].slot = FALSE
             /\ worker'[a].pc = IF worker[a].slot THEN "killed"
                                ELSE IF worker[a].pc = "listed" THEN "idle" ELSE worker[a].pc
             /\ worker'[a].pc \in {"idle", "returned", "killed"}
  <2>1. PICK w, p : /\ w = worker[a]
                    /\ p = IF w.slot THEN "killed" ELSE IF w.pc = "listed" THEN "idle" ELSE w.pc
    OBVIOUS
  <2>2. worker'[a] = [Idle EXCEPT !.pc = p]
    BY <2>1 DEF Exit
  <2>3. p \in {"returned", "killed", "idle"}
    BY <2>1 DEF CompleteInv, PlacesInv, HoldsPlace
  <2>4. worker'[a].pc = p /\ worker'[a].slot = FALSE
    BY <2>2 DEF Idle
  <2>5. worker'[a].slot \in BOOLEAN /\ ~worker'[a].slot
    BY <2>4, Zenon
  <2>6. worker'[a].pc \in {"idle", "returned", "killed"} /\ worker'[a].pc \notin Busy
    BY <2>3, <2>4 DEF Busy
  <2>7. HoldsPlace(worker'[a])
    BY <2>5, <2>6 DEF HoldsPlace
  <2> QED
    BY <2>1, <2>4, <2>6, <2>7
<1>4. \A p \in Pages : Running(p)' <= MaxParallel
  BY <1>3, NoneTaken DEF CompleteInv
<1>5. ASSUME NEW p \in Pages PROVE Cardinality(Killed(p))' <= LeftBehind
  <2>1. Killed(p)' = {a \in Accounts : PageIn(a) = p /\ worker[a].slot}
    BY <1>2, <1>3 DEF Killed, CompleteInv, PlacesInv, HoldsPlace
  <2>2. CASE mode = "egld"
    BY <2>1, <2>2 DEF LeftBehind, Running, CompleteInv, PlacesInv
  <2>3. CASE mode # "egld"
    <3>1. Killed(p)' = {}
      BY <2>1, <2>3 DEF HarmlessInv, ChainTypes
    <3> QED
      BY <2>3, <3>1, FS_EmptySet DEF LeftBehind
  <2> QED
    BY <2>2, <2>3
<1>6. PlacesInv'
  BY <1>1, <1>2, <1>3, <1>4, <1>5 DEF PlacesInv
<1>7. ASSUME AtRest', NEW b \in Accounts PROVE Progress(worker[b], b)'
  <2>1. UNCHANGED <<balance, operation, time, failures>> /\ TokensOf(b)' = TokensOf(b)
    BY <1>7 DEF chainVars, TokensOf, Ids, AtRest
  <2>2. \A id : Done(id)' <=> Done(id)
    BY <2>1 DEF Done
  <2>3. Progress(worker[b], b) /\ worker[b].pc # "listed"
    BY <1>7, <2>1 DEF CompleteInv, AtRest
  <2> QED
    BY <1>3, <2>1, <2>2, <2>3 DEF Progress
<1> QED
  BY <1>1, <1>6, <1>7 DEF CompleteInv

LEMMA EndCompletes ==
  ASSUME HarmlessInv, CompleteInv, End \/ ScrollFails
  PROVE  CompleteInv'
<1>1. CASE End
  BY <1>1, ExitCompletes DEF End, CompleteInv
<1>2. CASE ScrollFails
  <2>1. failures' \in Nat /\ failures' # 0
    BY <1>2 DEF ScrollFails, Fail, CompleteInv
  <2>2. mode # "esdt"
    BY <1>2 DEF ScrollFails
  <2> QED
    BY <1>2, <2>1, <2>2, ExitCompletes DEF ScrollFails
<1> QED
  BY <1>1, <1>2

LEMMA StartCompletes ==
  ASSUME HarmlessInv, CompleteInv, NEW a \in Accounts, StartGoroutine(a)
  PROVE  CompleteInv'
<1>1. PICK w : w = worker[a]
  OBVIOUS
<1>2. /\ WorkerInv(w, a) /\ UNCHANGED <<mode, doRepair, chainVars, doc, main, failures>>
      /\ main = "scroll" /\ w.pc = "listed" /\ Running(PageIn(a)) < MaxParallel
  BY <1>1 DEF HarmlessInv, StartGoroutine
<1> DEFINE w2 == [w EXCEPT !.pc = "proxy", !.slot = TRUE]
<1>3. worker' = [worker EXCEPT ![a] = w2]
  BY <1>1, <1>2 DEF StartGoroutine, HarmlessInv, WorkerInv, IsWorker
<1>4. w2.pc = "proxy" /\ w2.slot = TRUE /\ w2.es = w.es
  BY <1>2 DEF WorkerInv, IsWorker
<1> HIDE DEF w2
<1>5. HoldsPlace(w2)
  BY <1>4 DEF HoldsPlace, Busy
<1>6. AtRest => Progress(w, a)
  BY <1>1, <1>2 DEF CompleteInv
<1>7. AtRest' => Progress(w2, a)
  BY <1>2, <1>4, <1>6 DEF Progress, AtRest, chainVars
<1>8. failures' \in Nat /\ (failures' = 0 => failures = 0)
  BY <1>2 DEF CompleteInv
<1> QED
  BY <1>2, <1>3, <1>4, <1>5, <1>7, <1>8, CompleteStep

(* The goroutine returns.                                                  *)
LEMMA ReturnCompletes ==
  ASSUME HarmlessInv, CompleteInv, main = "scroll",
         UNCHANGED <<mode, doRepair, chainVars, doc, main>>, failures' \in Nat,
         failures' = 0 => failures = 0,
         NEW a \in Accounts, Return(a),
         AtRest' => \A t \in TokensOf(a) : Done(<<a, t>>)
  PROVE  CompleteInv'
<1>1. PICK w2 : w2 = [Idle EXCEPT !.pc = "returned"]
  OBVIOUS
<1>2. worker' = [worker EXCEPT ![a] = w2]
  BY <1>1 DEF Return
<1>3. w2.pc = "returned" /\ w2.slot = FALSE
  BY <1>1 DEF Idle
<1>4. w2.slot \in BOOLEAN /\ ~w2.slot
  BY <1>3, Zenon
<1>5. HoldsPlace(w2)
  BY <1>3, <1>4 DEF HoldsPlace, Busy
<1>6. AtRest' => Progress(w2, a)
  BY <1>3 DEF Progress
<1> QED
  BY <1>2, <1>3, <1>4, <1>5, <1>6, CompleteStep

LEMMA AskCompletes ==
  ASSUME HarmlessInv, CompleteInv, main = "scroll", NEW a \in Accounts, AskProxy(a)
  PROVE  CompleteInv'
<1>1. PICK w : w = worker[a]
  OBVIOUS
<1>2. /\ WorkerInv(w, a) /\ HoldsPlace(w) /\ UNCHANGED <<mode, doRepair, chainVars, doc, main>>
      /\ w.pc = "proxy" /\ DOMAIN worker = Accounts
  BY <1>1 DEF HarmlessInv, CompleteInv, PlacesInv, AskProxy
<1>3. AtRest => Progress(w, a)
  BY <1>1 DEF CompleteInv
<1>4. CASE UNCHANGED <<worker, failures>>
  BY <1>2, <1>4, ChainCompletes
<1>5. ASSUME NEW got, got \subseteq FromProxy(a), UNCHANGED failures => got = FromProxy(a),
             UNCHANGED failures \/ Fail,
             worker' = [worker EXCEPT ![a].pc = "compare", ![a].proxy =
                          BalancesOf(got, [t \in TokensOf(a) |-> balance[<<a, t>>]])]
      PROVE  CompleteInv'
  <2>1. PICK m : m = BalancesOf(got, [t \in TokensOf(a) |-> balance[<<a, t>>]])
    OBVIOUS
  <2>2. got \subseteq TokensOf(a)
    <3>1. mode = "egld" => EGLD \in TokensOf(a)
      BY IdsAreTokens DEF Ids
    <3> QED
      BY <1>5, <3>1 DEF FromProxy
  <2>3. DOMAIN m = got /\ \A t \in got : m[t] = balance[<<a, t>>]
    BY <2>1, <2>2 DEF BalancesOf
  <2> DEFINE w2 == [w EXCEPT !.pc = "compare", !.proxy = m]
  <2>4. worker' = [worker EXCEPT ![a] = w2]
    BY <1>1, <1>2, <1>5, <2>1 DEF WorkerInv, IsWorker
  <2>5. w2.proxy = m /\ w2.pc = "compare" /\ w2.slot = w.slot /\ w2.es = w.es
    BY <1>2 DEF WorkerInv, IsWorker
  <2> HIDE DEF w2
  <2>6. HoldsPlace(w2)
    BY <1>2, <2>5 DEF HoldsPlace, Busy
  <2>7. failures' \in Nat /\ (failures' = 0 => failures = 0 /\ UNCHANGED failures)
    BY <1>5 DEF CompleteInv, Fail
  <2>8. AtRest' => Progress(w2, a)
    <3> SUFFICES ASSUME AtRest' PROVE Progress(w2, a)
      OBVIOUS
    <3>1. Progress(w, a) /\ got = FromProxy(a)
      BY <1>2, <1>3, <1>5, <2>7 DEF AtRest, chainVars
    <3>2. w.es = getBalancesForAddress(a, doc) /\ DOMAIN w.es = InES(a, doc)
      BY <1>2, <3>1 DEF Progress, getBalancesForAddress
    <3>3. ASSUME NEW t \in TokensOf(a), t \notin got
          PROVE  doc[<<a, t>>] = NoDoc \/ balance[<<a, t>>] = 0
      <4>1. mode # "egld"
        BY <3>1, <3>3, IdsAreTokens DEF FromProxy, Ids
      <4>2. balance[<<a, t>>] = 0 \/ t \notin DOMAIN w.es
        BY <1>1, <3>1, <3>3, <4>1 DEF FromProxy
      <4> QED
        BY <3>2, <4>2 DEF InES
    <3>4. Answered(w2, a)
      BY <2>3, <2>5, <3>3 DEF Answered
    <3> QED
      BY <2>5, <3>2, <3>4 DEF Progress
  <2> QED
    BY <1>1, <1>2, <2>4, <2>5, <2>6, <2>7, <2>8, CompleteStep
<1>6. CASE Return(a) /\ Fail
  <2>1. failures' \in Nat /\ failures' # 0
    BY <1>6 DEF CompleteInv, Fail
  <2> QED
    BY <1>2, <1>6, <2>1, ReturnCompletes DEF AtRest
<1>7. \/ UNCHANGED <<worker, failures>>
      \/ Return(a) /\ Fail
      \/ \E got : /\ got \subseteq FromProxy(a) /\ (UNCHANGED failures \/ Fail)
                  /\ UNCHANGED failures => got = FromProxy(a)
                  /\ worker' = [worker EXCEPT ![a].pc = "compare", ![a].proxy =
                                  BalancesOf(got, [t \in TokensOf(a) |-> balance[<<a, t>>]])]
  <2>1. Fail => failures' # failures
    BY DEF CompleteInv, Fail
  <2> QED
    BY <2>1, Zenon DEF AskProxy
<1> QED
  BY <1>4, <1>5, <1>6, <1>7

LEMMA CompareCompletes ==
  ASSUME HarmlessInv, CompleteInv, main = "scroll", NEW a \in Accounts, Compare(a)
  PROVE  CompleteInv'
<1>1. PICK w, es : w = worker[a] /\ es = getBalancesForAddress(a, doc)
  OBVIOUS
<1>2. /\ WorkerInv(w, a) /\ HoldsPlace(w) /\ UNCHANGED <<mode, doRepair, chainVars, doc, main>>
      /\ w.pc = "compare"
  BY <1>1 DEF HarmlessInv, CompleteInv, PlacesInv, Compare
<1>3. /\ DOMAIN es = {t \in TokensOf(a) : doc[<<a, t>>] # NoDoc}
      /\ \A t \in DOMAIN es : es[t] = doc[<<a, t>>].balance
  BY <1>1 DEF getBalancesForAddress, InES
<1>4. AtRest => /\ w.es = es /\ Answered(w, a)
                /\ \A t \in TokensOf(a) : t \notin ToRepair(es, w.proxy) => Done(<<a, t>>)
  <2> SUFFICES ASSUME AtRest
               PROVE  /\ w.es = es /\ Answered(w, a)
                      /\ \A t \in TokensOf(a) : t \notin ToRepair(es, w.proxy) => Done(<<a, t>>)
    OBVIOUS
  <2>1. w.es = es /\ Answered(w, a)
    BY <1>1, <1>2 DEF CompleteInv, Progress
  <2>2. ASSUME NEW t \in TokensOf(a), t \notin ToRepair(es, w.proxy)
        PROVE  Done(<<a, t>>)
    <3>1. CASE doc[<<a, t>>] = NoDoc
      BY <3>1 DEF Done
    <3>2. CASE doc[<<a, t>>] # NoDoc
      <4>1. t \in DOMAIN es /\ t \in DOMAIN w.proxy /\ es[t] = w.proxy[t]
        BY <1>3, <2>2, <3>2 DEF ToRepair
      <4>2. doc[<<a, t>>].balance = balance[<<a, t>>]
        BY <1>3, <2>1, <4>1 DEF Answered
      <4> QED
        BY <3>2, <4>2 DEF Done, Right
    <3> QED
      BY <3>1, <3>2
  <2> QED
    BY <2>1, <2>2
<1>5. CASE Return(a) /\ UNCHANGED failures /\ (w.es = w.proxy \/ ToRepair(es, w.proxy) = {})
  <2>1. AtRest' => \A t \in TokensOf(a) : Done(<<a, t>>)
    <3> SUFFICES ASSUME AtRest' PROVE \A t \in TokensOf(a) : Done(<<a, t>>)
      OBVIOUS
    <3>1. AtRest
      BY <1>2, <1>5 DEF AtRest, chainVars
    <3>2. ToRepair(es, w.proxy) = {}
      BY <1>4, <1>5, <3>1 DEF ToRepair
    <3> QED
      BY <1>4, <3>1, <3>2
  <2>2. failures' \in Nat /\ (failures' = 0 => failures = 0)
    BY <1>5 DEF CompleteInv
  <2> QED
    BY <1>2, <1>5, <2>1, <2>2, ReturnCompletes
<1>6. CASE Return(a) /\ Fail
  <2>1. failures' \in Nat /\ failures' # 0
    BY <1>6 DEF CompleteInv, Fail
  <2> QED
    BY <1>2, <1>6, <2>1, ReturnCompletes DEF AtRest
<1>7. ASSUME NEW token, UNCHANGED failures,
             worker' = [worker EXCEPT ![a] = [w EXCEPT
               !.pc = "last", !.es = es, !.todo = ToRepair(es, w.proxy), !.token = token]]
      PROVE  CompleteInv'
  <2>1. PICK todo : todo = ToRepair(es, w.proxy)
    OBVIOUS
  <2> DEFINE w2 == [w EXCEPT !.pc = "last", !.es = es, !.todo = todo, !.token = token]
  <2>2. worker' = [worker EXCEPT ![a] = w2]
    BY <1>7, <2>1
  <2>3. w2.pc = "last" /\ w2.slot = w.slot /\ w2.todo = todo /\ w2.proxy = w.proxy
    BY <1>2 DEF WorkerInv, IsWorker
  <2> HIDE DEF w2
  <2>4. HoldsPlace(w2)
    BY <1>2, <2>3 DEF HoldsPlace, Busy
  <2>5. AtRest' => AtRest
    BY <1>2, <1>7 DEF AtRest, chainVars
  <2>6. Answered(w, a) => Answered(w2, a)
    BY <2>3 DEF Answered
  <2>7. AtRest' => Progress(w2, a)
    BY <1>4, <2>1, <2>3, <2>5, <2>6 DEF Progress
  <2>8. failures' \in Nat /\ (failures' = 0 => failures = 0)
    BY <1>7 DEF CompleteInv
  <2> QED
    BY <1>1, <1>2, <2>2, <2>3, <2>4, <2>7, <2>8, CompleteStep
<1>8. \/ Return(a) /\ UNCHANGED failures /\ (w.es = w.proxy \/ ToRepair(es, w.proxy) = {})
      \/ Return(a) /\ Fail
      \/ /\ UNCHANGED failures
         /\ \E token :
              worker' = [worker EXCEPT ![a] = [w EXCEPT
                !.pc = "last", !.es = es, !.todo = ToRepair(es, w.proxy), !.token = token]]
  BY <1>1 DEF Compare
<1> QED
  BY <1>5, <1>6, <1>7, <1>8

LEMMA LastCompletes ==
  ASSUME HarmlessInv, CompleteInv, main = "scroll", NEW a \in Accounts,
         getLasTimeWhenBalanceWasChanged(a)
  PROVE  CompleteInv'
<1>1. PICK w : w = worker[a]
  OBVIOUS
<1>2. /\ WorkerInv(w, a) /\ HoldsPlace(w) /\ UNCHANGED <<mode, doRepair, chainVars, doc, main>>
      /\ w.pc = "last"
  BY <1>1 DEF HarmlessInv, CompleteInv, PlacesInv, getLasTimeWhenBalanceWasChanged
<1>3. PICK t : /\ worker' = [worker EXCEPT ![a] = [w EXCEPT !.pc = "repair", !.timestamp = t]]
               /\ \/ t = operation[<<a, w.token>>] /\ UNCHANGED failures
                  \/ Fail
  BY <1>1 DEF getLasTimeWhenBalanceWasChanged
<1> DEFINE w2 == [w EXCEPT !.pc = "repair", !.timestamp = t]
<1>4. /\ w2.pc = "repair" /\ w2.slot = w.slot /\ w2.todo = w.todo
      /\ w2.token = w.token /\ w2.proxy = w.proxy /\ w2.timestamp = t
  BY <1>2 DEF WorkerInv, IsWorker
<1>5. worker' = [worker EXCEPT ![a] = w2]
  BY <1>3
<1> HIDE DEF w2
<1>6. HoldsPlace(w2)
  BY <1>2, <1>4 DEF HoldsPlace, Busy
<1>7. /\ failures' \in Nat
      /\ failures' = 0 => failures = 0 /\ t = operation[<<a, w.token>>]
  BY <1>3 DEF CompleteInv, Fail
<1>8. Answered(w, a) => Answered(w2, a)
  BY <1>4 DEF Answered
<1>9. AtRest => Progress(w, a)
  BY <1>1 DEF CompleteInv
<1>10. AtRest' => Progress(w2, a)
  BY <1>2, <1>4, <1>7, <1>8, <1>9 DEF Progress, AtRest, chainVars
<1> QED
  BY <1>1, <1>2, <1>4, <1>5, <1>6, <1>7, <1>10, CompleteStep

LEMMA RepairCompletes ==
  ASSUME HarmlessInv, CompleteInv, main = "scroll", NEW a \in Accounts, Repair(a)
  PROVE  CompleteInv'
<1>1. PICK w, id : w = worker[a] /\ id = <<a, w.token>>
  OBVIOUS
<1>2. /\ WorkerInv(w, a) /\ HoldsPlace(w) /\ UNCHANGED <<mode, doRepair, chainVars, main>>
      /\ w.pc = "repair" /\ w.token \in w.todo /\ w.todo \subseteq TokensOf(a) /\ id \in Ids
      /\ DOMAIN worker = Accounts
  BY <1>1, IdsAreTokens DEF HarmlessInv, CompleteInv, PlacesInv, Repair, WorkerInv
<1>3. /\ UNCHANGED <<balance, operation, time>> /\ Ids' = Ids
      /\ \A b : TokensOf(b)' = TokensOf(b)
  BY <1>2 DEF chainVars, Ids, TokensOf
<1> DEFINE repaired == IF w.token \in DOMAIN w.proxy
                         THEN fixWrongBalance(doc[id], w.proxy[w.token], w.timestamp)
                         ELSE deleteExtraBalance(doc[id], w.timestamp)
<1>4. \/ UNCHANGED failures /\ doc' = IF doRepair THEN [doc EXCEPT ![id] = repaired] ELSE doc
      \/ Fail
  BY <1>1 DEF Repair
<1>5. failures' \in Nat /\ (failures' = 0 => failures = 0 /\ UNCHANGED failures)
  BY <1>4 DEF CompleteInv, Fail
<1>6. PICK w2 : /\ worker' = [worker EXCEPT ![a] = w2] /\ HoldsPlace(w2) /\ w2.pc # "killed"
                /\ w2.slot => w.slot
                /\ \/ w2.pc = "returned" /\ w.todo = {w.token}
                   \/ w2.pc = "last" /\ w2.todo = w.todo \ {w.token} /\ w2.proxy = w.proxy
  <2>1. ASSUME Return(a), w.todo \ {w.token} = {}
        PROVE  \E w2 : /\ worker' = [worker EXCEPT ![a] = w2] /\ HoldsPlace(w2)
                       /\ w2.pc = "returned" /\ w.todo = {w.token} /\ ~w2.slot
    <3>1. PICK p, w2 : p = "returned" /\ w2 = [Idle EXCEPT !.pc = p]
      OBVIOUS
    <3>2. worker' = [worker EXCEPT ![a] = w2] /\ p \in {"listed", "returned", "killed", "idle"}
      BY <2>1, <3>1 DEF Return
    <3>3. HoldsPlace(w2) /\ w2.slot = FALSE
      BY <3>1, <3>2, IdleHoldsNone
    <3>4. w2.pc = "returned"
      BY <3>1 DEF Idle
    <3>5. w.todo = {w.token} /\ ~w2.slot
      BY <1>2, <2>1, <3>3
    <3> QED
      BY <3>2, <3>3, <3>4, <3>5
  <2>2. ASSUME NEW rest, rest = w.todo \ {w.token}, NEW token \in rest,
               worker' = [worker EXCEPT ![a] = [w EXCEPT !.pc = "last", !.todo = rest, !.token = token]]
        PROVE  \E w2 : /\ worker' = [worker EXCEPT ![a] = w2] /\ HoldsPlace(w2)
                       /\ w2.pc = "last" /\ w2.todo = w.todo \ {w.token} /\ w2.proxy = w.proxy
                       /\ w2.slot => w.slot
    <3> DEFINE w2 == [w EXCEPT !.pc = "last", !.todo = rest, !.token = token]
    <3>1. w2.pc = "last" /\ w2.slot = w.slot /\ w2.todo = rest /\ w2.proxy = w.proxy
      BY <1>2 DEF WorkerInv, IsWorker
    <3>2. worker' = [worker EXCEPT ![a] = w2]
      BY <2>2
    <3> HIDE DEF w2
    <3>3. HoldsPlace(w2)
      BY <1>2, <3>1 DEF HoldsPlace, Busy
    <3> QED
      BY <2>2, <3>1, <3>2, <3>3
  <2>3. \/ Return(a) /\ w.todo \ {w.token} = {}
        \/ \E token \in w.todo \ {w.token} :
             worker' = [worker EXCEPT ![a] =
               [w EXCEPT !.pc = "last", !.todo = w.todo \ {w.token}, !.token = token]]
    BY <1>1 DEF Repair
  <2>4. CASE Return(a) /\ w.todo \ {w.token} = {}
    BY <2>1, <2>4
  <2>5. CASE \E token \in w.todo \ {w.token} :
               worker' = [worker EXCEPT ![a] =
                 [w EXCEPT !.pc = "last", !.todo = w.todo \ {w.token}, !.token = token]]
    <3>1. PICK rest : rest = w.todo \ {w.token}
      OBVIOUS
    <3> QED
      BY <2>2, <2>5, <3>1
  <2> QED
    BY <2>3, <2>4, <2>5
<1>7. \A b \in Accounts : worker'[b] = IF b = a THEN w2 ELSE worker[b]
  BY <1>2, <1>6
<1>8. PlacesInv'
  <2>1. \A b \in Accounts : worker'[b].slot => worker[b].slot
    BY <1>1, <1>6, <1>7
  <2>2. \A p \in Pages : Running(p)' <= MaxParallel
    BY <1>2, <2>1, NoneTaken DEF CompleteInv
  <2>3. Pages' = Pages
    BY <1>2 DEF Pages
  <2> QED
    BY <1>2, <1>6, <1>7, <2>2, <2>3 DEF CompleteInv, PlacesInv
<1>9. ASSUME AtRest', NEW b \in Accounts PROVE Progress(worker[b], b)'
  <2>1. AtRest /\ doc' = [doc EXCEPT ![id] = repaired]
    BY <1>2, <1>3, <1>4, <1>5, <1>9 DEF AtRest, Fail, CompleteInv
  <2>2. Progress(w, a) /\ Progress(worker[b], b)
    BY <1>1, <2>1 DEF CompleteInv
  <2>3. PICK d : d = repaired
    OBVIOUS
  <2>4. \A i \in Ids : doc'[i] = IF i = id THEN d ELSE doc[i]
    BY <2>1, <2>3 DEF HarmlessInv, ChainTypes
  <2>5. doc[id] = NoDoc => d = NoDoc
    BY <2>3 DEF fixWrongBalance, deleteExtraBalance
  <2>6. w.timestamp = operation[id] /\ operation[id] \in Nat
    BY <1>1, <1>2, <2>2 DEF Progress, HarmlessInv, ChainTypes
  <2>7. Done(id)'
    <3>1. doc[id] # NoDoc => doc[id].timestamp \in Nat
      BY <1>2 DEF HarmlessInv, ChainTypes, Docs
    <3>2. IF w.token \in DOMAIN w.proxy THEN w.proxy[w.token] = balance[id]
                                        ELSE doc[id] = NoDoc \/ balance[id] = 0
      BY <1>1, <1>2, <2>2 DEF Progress, Answered
    <3>3. CASE w.token \in DOMAIN w.proxy
      <4>1. \/ d = [balance |-> balance[id], timestamp |-> w.timestamp]
            \/ /\ d = doc[id]
               /\ d = NoDoc \/ (d.timestamp # Old /\ d.timestamp >= operation[id])
        BY <2>3, <2>6, <3>1, <3>2, <3>3 DEF fixWrongBalance, Old
      <4> QED
        BY <1>2, <1>3, <2>4, <4>1 DEF Done, Right
    <3>4. CASE w.token \notin DOMAIN w.proxy
      <4>1. \/ d = NoDoc
            \/ d = doc[id] /\ d.timestamp # Old /\ d.timestamp >= operation[id]
        BY <2>3, <2>6, <3>1, <3>4 DEF deleteExtraBalance, Old
      <4> QED
        BY <1>2, <1>3, <2>4, <4>1 DEF Done
    <3> QED
      BY <3>3, <3>4
  <2>8. \A i \in Ids : i # id => (Done(i)' <=> Done(i)) /\ doc'[i] = doc[i]
    BY <1>3, <2>4 DEF Done
  <2>9. CASE b # a
    <3>1. \A t \in TokensOf(b) : <<b, t>> \in Ids /\ <<b, t>> # id
      BY <1>1, <2>9, IdsAreTokens
    <3>2. PICK v : v = worker[b]
      OBVIOUS
    <3>3. getBalancesForAddress(b, doc)' = getBalancesForAddress(b, doc)
      <4>1. InES(b, doc)' = InES(b, doc)
        BY <1>3, <2>8, <3>1 DEF InES
      <4>2. \A t \in InES(b, doc) : doc'[<<b, t>>] = doc[<<b, t>>]
        BY <2>8, <3>1 DEF InES
      <4> QED
        BY <4>1, <4>2 DEF getBalancesForAddress
    <3>4. Answered(v, b)' <=> Answered(v, b)
      BY <1>3, <2>8, <3>1 DEF Answered
    <3>5. \A t \in TokensOf(b) : /\ Done(<<b, t>>)' <=> Done(<<b, t>>)
                                 /\ doc'[<<b, t>>] = doc[<<b, t>>]
      BY <2>8, <3>1
    <3>6. Progress(v, b)'
      BY <1>3, <2>2, <3>2, <3>3, <3>4, <3>5 DEF Progress
    <3>7. v = worker'[b]
      BY <1>7, <2>9, <3>2
    <3> QED
      BY <3>6, <3>7
  <2>10. CASE b = a
    <3>1. \A t \in TokensOf(a) : <<a, t>> \in Ids /\ (<<a, t>> = id <=> t = w.token)
      BY <1>1, IdsAreTokens
    <3>2. \A t \in TokensOf(a) \ w.todo : Done(<<a, t>>)'
      BY <1>2, <2>2, <2>8, <3>1 DEF Progress
    <3>3. Done(<<a, w.token>>)'
      BY <1>1, <2>7
    <3>4. Answered(w, a)'
      <4>1. Answered(w, a)
        BY <1>2, <2>2 DEF Progress
      <4>2. \A t \in TokensOf(a) : doc[<<a, t>>] = NoDoc => doc'[<<a, t>>] = NoDoc
        BY <2>4, <2>5, <3>1
      <4> QED
        BY <1>3, <4>1, <4>2 DEF Answered
    <3>5. w2.proxy = w.proxy => Answered(w2, a)'
      BY <3>4 DEF Answered
    <3>6. \A t \in TokensOf(a) : t \in w.todo \ {w.token} \/ Done(<<a, t>>)'
      BY <3>2, <3>3
    <3>7. Progress(w2, a)'
      BY <1>3, <1>6, <3>5, <3>6 DEF Progress
    <3>8. w2 = worker'[b]
      BY <1>7, <2>10
    <3> QED
      BY <2>10, <3>7, <3>8
  <2> QED
    BY <2>9, <2>10
<1> QED
  BY <1>2, <1>5, <1>8, <1>9 DEF CompleteInv

LEMMA CompletionStep == HarmlessInv /\ CompleteInv /\ [Next]_vars => CompleteInv'
<1> SUFFICES ASSUME HarmlessInv, CompleteInv, [Next]_vars PROVE CompleteInv'
  OBVIOUS
<1>1. CASE UNCHANGED vars
  BY <1>1, ChainCompletes DEF vars, toolVars
<1> QED
  BY <1>1, CommitCompletes, IndexCompletes, ScrollCompletes, StartCompletes, AskCompletes,
     CompareCompletes, LastCompletes, RepairCompletes, EndCompletes DEF Next, Goroutine

(* With the chain at rest and no failed request the repair leaves no       *)
(* balance wrong that it could put right, in any order of the goroutines;  *)
(* and CheckEGLDBalances leaves at most MaxParallel goroutines of a page   *)
(* behind, CheckESDTBalances none.                                         *)
THEOREM RepairIsComplete == Spec => []RepairComplete
<1>1. HarmlessInv /\ CompleteInv => RepairComplete
  <2> SUFFICES ASSUME HarmlessInv, CompleteInv, main = "ended", AtRest
               PROVE  RepairComplete
    BY DEF RepairComplete, AtRest
  <2>1. ASSUME NEW id \in Ids
        PROVE  Done(id) \/ worker[id[1]].pc = "killed"
    <3>1. PICK a \in Accounts, t \in Tokens \cup {EGLD} : id = <<a, t>>
      BY BalanceAssumption DEF Ids
    <3>2. t \in TokensOf(a) /\ id[1] = a
      BY <3>1, IdsAreTokens
    <3>3. Progress(worker[a], a)
      BY DEF CompleteInv
    <3>4. worker[a].pc \in {"idle", "returned", "killed"}
      BY DEF CompleteInv, PlacesInv
    <3> QED
      BY <3>1, <3>2, <3>3, <3>4 DEF Progress, Done
  <2>2. \A p \in Pages : Cardinality({a \in Accounts : PageIn(a) = p /\ worker[a].pc = "killed"})
                           <= IF mode = "egld" THEN MaxParallel ELSE 0
    BY DEF CompleteInv, PlacesInv, Killed, LeftBehind
  <2> QED
    BY <2>1, <2>2 DEF RepairComplete, Done
<1>2. HarmlessInv /\ [Next]_vars => HarmlessInv'
  BY HarmlessStep
<1>3. HarmlessInv /\ CompleteInv /\ [Next]_vars => CompleteInv'
  BY CompletionStep
<1> QED
  BY <1>1, <1>2, <1>3, HarmlessInit, CompleteInit, PTL DEF Spec
=============================================================================
