--------------------------- MODULE BalanceChecker ---------------------------
(***************************************************************************)
(* tools/accounts-balance-checker: compares the balances in Elasticsearch  *)
(* with the ones of the gateway, account by account in goroutines, and     *)
(* repairs them, while the chain goes on and the indexer writes.  A repair *)
(* has the timestamp of the last operation found for the account, and its  *)
(* script leaves a document alone that is not older.                       *)
(***************************************************************************)
EXTENDS Naturals, Sequences, FiniteSets, FiniteSetsExt

CONSTANTS
  Accounts,      \* addresses
  Contracts,     \* the addresses of contracts
  Tokens,        \* ESDT tokens
  Held,          \* <<a, token>>: what a may hold, in the mode ESDT
  Active,        \* the balances that change while the tool runs
  PageOf,        \* PageOf[a]: the page of the scroll that has the account
  Setups,        \* the flags, the chain and the index when the tool is started
  NoDoc,         \* "no document with this id"
  StartTime,     \* timestamp of the last block when the tool is started
  MaxBalance, MaxBlocks, MaxFailures, MaxThrottled,   \* bounds
  MaxParallel    \* cfg.Proxy.MaxNumberOfParallelRequests

EGLD == "egld"
Docs == [balance : 0..MaxBalance, timestamp : Nat]

ASSUME BalanceAssumption ==
  /\ IsFiniteSet(Accounts)
  /\ Contracts \subseteq Accounts /\ EGLD \notin Tokens
  /\ Held \subseteq Accounts \X Tokens
  /\ PageOf \in [Accounts -> Nat]
  /\ MaxBalance \in Nat /\ MaxBlocks \in Nat /\ MaxFailures \in Nat /\ MaxThrottled \in Nat
  /\ MaxParallel \in Nat \ {0} /\ StartTime \in Nat \ {0}
  /\ NoDoc \notin Docs

VARIABLES
  mode,      \* the flag: "egld" or "esdt"
  doRepair,  \* the flag repair
  balance,   \* balance[id]: on the chain, as the gateway returns it
  queue,     \* blocks that are still to be indexed
  time,      \* timestamp of the last block
  operation, \* operation[id]: timestamp of the last operation that the query finds, or 0
  doc,       \* doc[id]: in the index accounts or accountsesdt
  main,      \* state of CheckEGLDBalances or CheckESDTBalances
  worker,    \* worker[a]: the goroutine for account a
  alone,     \* the index without the tool: no state of the program
  bare,      \* <<id, timestamp>>: operations whose timestamp no document of the
             \* account has got, and
  excused,   \* ids that an unguarded write has made wrong: no state of the program
  failures, throttled

chainVars == <<balance, queue, time, operation, alone, bare>>
toolVars == <<main, worker, failures, throttled>>
vars == <<mode, doRepair, chainVars, doc, toolVars, excused>>

Ids == IF mode = "egld" THEN Accounts \X {EGLD} ELSE Held
TokensOf(a) == {id[2] : id \in {i \in Ids : i[1] = a}}

\* All of the blocks are indexed.  A document may be wrong, older than the last
\* operation, or from a version that stored no timestamp; an account need not
\* have sent an operation.
IsSetup(s) ==
  LET ids == IF s.mode = "egld" THEN Accounts \X {EGLD} ELSE Held
  IN  /\ s.mode \in {"egld", "esdt"} /\ s.doRepair \in BOOLEAN
      /\ s.balance \in [ids -> 0..MaxBalance]
      /\ s.operation \in [ids -> 0..StartTime]
      /\ s.doc \in [ids -> {NoDoc} \cup [balance : 0..MaxBalance, timestamp : 0..StartTime]]
ASSUME SetupAssumption == \A s \in Setups : IsSetup(s)

\* Without timestamp in the document.
Old == 0

\* A map from tokens to balances, of the tokens in have.
BalancesOf(have, f) == [token \in have |-> f[token]]
EmptyMap == [token \in {} |-> 0]

InES(a, docs) == {token \in TokensOf(a) : docs[<<a, token>>] # NoDoc}
getBalancesForAddress(a, docs) ==
  [token \in InES(a, docs) |-> docs[<<a, token>>].balance]

Idle == [pc |-> "idle", slot |-> FALSE, es |-> EmptyMap, proxy |-> EmptyMap,
         todo |-> {}, token |-> EGLD, timestamp |-> 0]

\* What the indexer makes of the document: see AccountsIndex.
IndexAccount(stored, new, t) ==
  IF stored # NoDoc /\ stored.timestamp > t THEN stored
  ELSE IF mode = "esdt" /\ new = 0 THEN NoDoc
  ELSE [balance |-> new, timestamp |-> t]

Right(stored, b) == IF stored = NoDoc THEN b = 0 ELSE stored.balance = b

Init ==
  /\ \E s \in Setups : /\ mode = s.mode /\ doRepair = s.doRepair /\ balance = s.balance
                       /\ operation = s.operation /\ doc = s.doc
  /\ alone = doc
  /\ queue = <<>>
  /\ time = StartTime
  /\ bare = {<<id, operation[id]>> : id \in {i \in Ids :
       doc[i] # NoDoc /\ doc[i].balance = balance[i] /\ doc[i].timestamp < operation[i]}}
  /\ main = "start"
  /\ worker = [a \in Accounts |-> Idle]
  /\ excused = {}
  /\ failures = 0
  /\ throttled = 0
-----------------------------------------------------------------------------
(***************************************************************************)
(* The chain and the indexer.                                              *)
(***************************************************************************)
\* A block with an operation on id.  The query for a token finds only what its
\* holder sent, the query for EGLD also what it received.  What is found need not
\* write the document of the account: a call without value, a failed transfer of
\* tokens, or the operation of a cross-shard transfer, which the shard of the
\* receiver writes again with the timestamp of its own, later block.
Commit(id, new, isSender, altered) ==
  LET found == isSender \/ mode = "egld" IN
  /\ time < StartTime + MaxBlocks
  /\ found \/ altered
  /\ new # balance[id] => altered
  /\ time' = time + 1
  /\ balance' = [balance EXCEPT ![id] = new]
  /\ queue' = Append(queue, [id |-> id, balance |-> new, timestamp |-> time + 1, found |-> found,
                             altered |-> altered, step |-> "operations"])
  /\ bare' = IF altered THEN bare ELSE bare \cup {<<id, time + 1>>}
  /\ UNCHANGED <<mode, doRepair, operation, alone, doc, toolVars, excused>>

\* The documents of a block become visible one after the other.  Blocks are
\* indexed in their order: of two shards, another order only shows operations
\* earlier that are bare in any case.
IndexBlock ==
  /\ queue # <<>>
  /\ LET b == Head(queue) IN
     IF b.step = "operations"
       THEN /\ operation' = IF b.found THEN [operation EXCEPT ![b.id] = b.timestamp]
                                       ELSE operation
            /\ queue' = IF b.altered THEN [queue EXCEPT ![1].step = "accounts"] ELSE Tail(queue)
            /\ UNCHANGED <<doc, alone>>
       ELSE /\ doc' = [doc EXCEPT ![b.id] = IndexAccount(@, b.balance, b.timestamp)]
            /\ alone' = [alone EXCEPT ![b.id] = IndexAccount(@, b.balance, b.timestamp)]
            /\ queue' = Tail(queue)
            /\ UNCHANGED operation
  /\ UNCHANGED <<mode, doRepair, balance, time, bare, toolVars, excused>>
-----------------------------------------------------------------------------
(***************************************************************************)
(* The tool.                                                               *)
(***************************************************************************)
Fail == failures < MaxFailures /\ failures' = failures + 1

Pages == IF mode = "egld" THEN {PageOf[a] : a \in Accounts} ELSE {0}
PageIn(a) == IF mode = "egld" THEN PageOf[a] ELSE 0
Running(p) == Cardinality({a \in Accounts : PageIn(a) = p /\ worker[a].slot})

\* The search.  Every page of the scroll shows the index as it was then.
Scroll ==
  /\ main = "start"
  /\ \/ /\ main' = "scroll"
        /\ worker' = [a \in Accounts |-> IF InES(a, doc) = {} THEN Idle
             ELSE [Idle EXCEPT !.pc = "listed", !.es = getBalancesForAddress(a, doc)]]
        /\ UNCHANGED failures
     \/ main' = "ended" /\ Fail /\ UNCHANGED worker
  /\ UNCHANGED <<mode, doRepair, chainVars, doc, throttled, excused>>

\* done <- struct{}{}; go ...: at most MaxParallel at a time, for each page of
\* accounts, or of all of the accounts with tokens.
StartGoroutine(a) ==
  /\ main = "scroll"
  /\ worker[a].pc = "listed"
  /\ \A b \in Accounts : worker[b].pc = "listed" => PageIn(a) <= PageIn(b)
  /\ Running(PageIn(a)) < MaxParallel
  /\ worker' = [worker EXCEPT ![a].pc = "proxy", ![a].slot = TRUE]
  /\ UNCHANGED <<mode, doRepair, chainVars, doc, main, failures, throttled, excused>>

\* Mutant: the slot is given back at the end of the function only.
returnEarly(a) ==
  worker' = [worker EXCEPT ![a] = [Idle EXCEPT !.pc = "returned", !.slot = (worker[a].pc = "compare")]]

\* The goroutine returns: <-done.
Return(a) == worker' = [worker EXCEPT ![a] = [Idle EXCEPT !.pc = "returned"]]

\* The tokens of a that the gateway answers with.  For a contract each token
\* that Elasticsearch has is asked for, and a zero is as good as no answer.
FromProxy(a) ==
  LET tokens == {token \in TokensOf(a) : balance[<<a, token>>] # 0}
  IN  IF mode = "egld" THEN {EGLD}
      ELSE IF a \in Contracts THEN tokens \cap DOMAIN worker[a].es ELSE tokens

\* CallGetRestEndPoint: after 429 and 408 the request is sent again, with no
\* limit; other failures count.  Without an answer an EGLD check returns; an
\* ESDT check goes on with the balances it has.
AskProxy(a) ==
  /\ worker[a].pc = "proxy"
  /\ \/ /\ throttled < MaxThrottled
        /\ throttled' = throttled + 1
        /\ UNCHANGED <<worker, failures>>
     \/ /\ worker' = [worker EXCEPT ![a].pc = "compare", ![a].proxy =
             BalancesOf(FromProxy(a), [t \in TokensOf(a) |-> balance[<<a, t>>]])]
        /\ UNCHANGED <<failures, throttled>>
     \/ /\ Fail
        /\ IF mode = "egld" THEN Return(a)
           ELSE \E got \in (IF a \in Contracts THEN SUBSET FromProxy(a) ELSE {{}}) :
                  worker' = [worker EXCEPT ![a].pc = "compare", ![a].proxy =
                    BalancesOf(got, [t \in TokensOf(a) |-> balance[<<a, t>>]])]
        /\ UNCHANGED throttled
  /\ UNCHANGED <<mode, doRepair, chainVars, doc, main, excused>>

\* The balances that compareBalances repairs in its second comparison.
ToRepair(es, proxy) ==
  {token \in DOMAIN es : token \notin DOMAIN proxy \/ es[token] # proxy[token]}

\* When the first comparison finds a difference the documents are read again,
\* the answer of the gateway is not.
Compare(a) ==
  LET w == worker[a]
      es == getBalancesForAddress(a, doc)
  IN
  /\ w.pc = "compare"
  /\ \/ /\ w.es = w.proxy \/ ToRepair(es, w.proxy) = {}
        /\ Return(a)
        /\ UNCHANGED failures
     \/ /\ w.es # w.proxy /\ ToRepair(es, w.proxy) # {}
        /\ \E token \in ToRepair(es, w.proxy) :
             worker' = [worker EXCEPT ![a] = [w EXCEPT
               !.pc = "last", !.es = es, !.todo = ToRepair(es, w.proxy), !.token = token]]
        /\ UNCHANGED failures
     \/ w.es # w.proxy /\ Return(a) /\ Fail
  /\ UNCHANGED <<mode, doRepair, chainVars, doc, main, throttled, excused>>

\* The last operation of the account; 0 when there is none, and on an error.
getLasTimeWhenBalanceWasChanged(a) ==
  LET w == worker[a] IN
  /\ w.pc = "last"
  /\ \/ /\ worker' = [worker EXCEPT ![a] =
             [w EXCEPT !.pc = "repair", !.timestamp = operation[<<a, w.token>>]]]
        /\ UNCHANGED failures
     \/ /\ Fail
        /\ worker' = [worker EXCEPT ![a] = [w EXCEPT !.pc = "repair", !.timestamp = 0]]
  /\ UNCHANGED <<mode, doRepair, chainVars, doc, main, throttled, excused>>

\* Mutants: a document of the same timestamp is overwritten; one without a
\* timestamp is left alone.
fixNotOlder(stored, b, t) ==
  IF stored # NoDoc /\ stored.timestamp <= t
    THEN [balance |-> b, timestamp |-> t] ELSE stored
fixWithTimestamp(stored, b, t) ==
  IF stored # NoDoc /\ stored.timestamp # Old /\ stored.timestamp < t
    THEN [balance |-> b, timestamp |-> t] ELSE stored

\* The scripts of the two repairs.
fixWrongBalance(stored, b, t) ==
  IF stored # NoDoc /\ (stored.timestamp = Old \/ stored.timestamp < t)
    THEN [balance |-> b, timestamp |-> t] ELSE stored
deleteExtraBalance(stored, t) ==
  IF stored # NoDoc /\ (stored.timestamp = Old \/ stored.timestamp < t \/ t = 0)
    THEN NoDoc ELSE stored

\* The bulk request for one balance.  When it fails it may have been executed;
\* the goroutine goes on with the next balance in any case.
Repair(a) ==
  LET w == worker[a]
      id == <<a, w.token>>
      rest == w.todo \ {w.token}
      repaired == IF w.token \in DOMAIN w.proxy
                    THEN fixWrongBalance(doc[id], w.proxy[w.token], w.timestamp)
                    ELSE deleteExtraBalance(doc[id], w.timestamp)
      wrong == IF repaired = NoDoc THEN balance[id] # 0 ELSE repaired.balance # balance[id]
      unguarded == \/ <<id, w.timestamp>> \in bare
                   \/ repaired = NoDoc /\ (w.timestamp = 0 \/ doc[id].timestamp = Old)
  IN
  /\ w.pc = "repair"
  /\ \/ /\ doc' = IF doRepair THEN [doc EXCEPT ![id] = repaired] ELSE doc
        /\ excused' = IF doRepair /\ repaired # doc[id] /\ wrong /\ unguarded
                        THEN excused \cup {id} ELSE excused
        /\ UNCHANGED failures
     \/ Fail /\ doRepair /\ UNCHANGED <<doc, excused>>
  /\ IF rest = {} THEN Return(a)
     ELSE \E token \in rest :
            worker' = [worker EXCEPT ![a] = [w EXCEPT !.pc = "last", !.todo = rest, !.token = token]]
  /\ UNCHANGED <<mode, doRepair, chainVars, main, throttled>>

\* The program exits, with the goroutines that still run.
Exit ==
  /\ main' = "ended"
  /\ worker' = [a \in Accounts |-> [Idle EXCEPT !.pc =
       IF worker[a].slot THEN "killed"
       ELSE IF worker[a].pc = "listed" THEN "idle" ELSE worker[a].pc]]

\* The check returns.  wg.Wait() of an ESDT check waits for the goroutines; an
\* EGLD check leaves those of its last ones behind.
End ==
  /\ main = "scroll"
  /\ \A a \in Accounts : worker[a].pc # "listed"
  /\ mode = "esdt" => \A a \in Accounts : ~worker[a].slot
  /\ Exit
  /\ UNCHANGED <<mode, doRepair, chainVars, doc, failures, throttled, excused>>

\* The request for the next page of an EGLD check fails; an ESDT check has all of
\* the pages before it starts a goroutine.
ScrollFails ==
  /\ main = "scroll" /\ mode = "egld"
  /\ \A a, b \in Accounts : worker[a].pc = "listed" /\ PageIn(b) = PageIn(a)
                              => worker[b].pc \in {"listed", "idle"}
  /\ Fail
  /\ Exit
  /\ UNCHANGED <<mode, doRepair, chainVars, doc, throttled, excused>>

Goroutine(a) ==
  main = "scroll" /\ (\/ AskProxy(a) \/ Compare(a)
                      \/ getLasTimeWhenBalanceWasChanged(a) \/ Repair(a))

Next ==
  \/ \E id \in Ids \cap Active, new \in 0..MaxBalance, isSender, altered \in BOOLEAN :
       Commit(id, new, isSender, altered)
  \/ IndexBlock
  \/ Scroll
  \/ \E a \in Accounts : StartGoroutine(a) \/ Goroutine(a)
  \/ End
  \/ ScrollFails

Spec == Init /\ [][Next]_vars

\* The runtime schedules the main function and every goroutine.
FairSpec ==
  /\ Spec
  /\ WF_vars(Scroll) /\ WF_vars(End)
  /\ \A a \in Accounts : WF_vars(StartGoroutine(a)) /\ WF_vars(Goroutine(a))
-----------------------------------------------------------------------------
\* What the tool does to the index does no harm: when the indexer has caught
\* up, a balance that would be right in an index the tool has not touched is
\* right, although the goroutine wrote what the gateway had said some time
\* ago.  There are two exceptions, both for an answer that is old or failed.
\* deleteExtraBalance does not look at the timestamp when no operation was
\* found, or the document has none, so that a failed request for the balances
\* of an account that only received tokens removes them.  And the timestamp of
\* an operation that has not written the document of the account (see Commit)
\* is newer than a right document, and no guard.
RepairHarmless ==
  queue = <<>> =>
    \A id \in Ids \ excused : Right(alone[id], balance[id]) => Right(doc[id], balance[id])

\* With the chain at rest and no failed request a wrong balance is repaired:
\* what is still wrong when the program exits is missing, has no newer
\* operation than itself, or is of one of the at most MaxParallel accounts in
\* each page whose goroutine an EGLD check does not wait for.
RepairComplete ==
  main = "ended" /\ doRepair /\ failures = 0 /\ time = StartTime =>
    /\ \A id \in Ids :
         \/ Right(doc[id], balance[id])
         \/ doc[id] = NoDoc
         \/ doc[id].timestamp # Old /\ doc[id].timestamp >= operation[id]
         \/ worker[id[1]].pc = "killed"
    /\ \A p \in Pages :
         Cardinality({a \in Accounts : PageIn(a) = p /\ worker[a].pc = "killed"})
           <= IF mode = "egld" THEN MaxParallel ELSE 0

\* The check ends, when the gateway does not refuse requests for ever: no
\* goroutine keeps its place in the channel after it has returned.
CheckEnds == <>(main = "ended")
=============================================================================
