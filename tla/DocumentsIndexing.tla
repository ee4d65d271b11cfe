-------------------------- MODULE DocumentsIndexing --------------------------
(***************************************************************************)
(* SaveTransactions, the revert of what it wrote, and Settings: how the    *)
(* documents of executions, tokens, delegators, contracts and tags come    *)
(* about.  As in BlockIndexing, every shard has an observer that sends its *)
(* messages one after the other and repeats one until it is acknowledged;  *)
(* messages of different shards are handled concurrently.                  *)
(*                                                                         *)
(* A step of a handler is one request, or one read of the import-db mode;  *)
(* what it computes without either is part of the step before or after.    *)
(* The documents of blocks, miniblocks and accounts are the subject of     *)
(* BlockIndexing and AccountsIndex.                                        *)
(***************************************************************************)
EXTENDS OperationsIndex, SovereignTokens, DelegatorsIndex, ContractsIndex

CONSTANTS
  Shards,        \* the shards that have an observer
  MetaShard,     \* core.MetachainShardId
  Scenarios,     \* the messages, the documents and the mode to start with
  MaxFailures,   \* bound on failures: see the last part of the actions
  MaxItems       \* bound on the items of a bulk request that fail alone, or do not

Topics == {"SaveBlock", "RevertIndexedBlock", "Settings"}

\* A block has finitely many transactions, results, events and altered accounts,
\* and a token has a name.
WellFormed(b) ==
  /\ IsFiniteSet(b.txs) /\ IsFiniteSet(b.scrs) /\ IsFiniteSet(b.altered)
  /\ IsSeq(b.events) /\ \A i \in DOMAIN b.events : RolesOK(b.events[i].event)
  /\ \A x \in b.altered : IsFiniteSet(x.tags)
  /\ \A scr \in b.scrs : IsFiniteSet(scr.tokens) /\ \A x \in scr.tokens : x.token # ""

ASSUME DocumentsAssumption ==
  /\ MetaShard \in Shards /\ MainChain \notin Shards
  /\ MaxFailures \in Nat /\ MaxItems \in Nat
  /\ \A sc \in Scenarios :
       /\ DOMAIN sc.log = Shards /\ sc.importDB \in BOOLEAN
       /\ \A s \in Shards :
            /\ IsSeq(sc.log[s])
            /\ \A i \in DOMAIN sc.log[s] :
                 sc.log[s][i].topic \in Topics /\ WellFormed(sc.log[s][i].block)
       /\ IsFiniteSet(DOMAIN sc.docs) /\ \A k \in DOMAIN sc.docs : sc.docs[k] # NoDoc

VARIABLES
  log,       \* log[s]: the messages of the observer of s
  acked,     \* acked[s]: how many of them were acknowledged
  pc,        \* pc[s]: the next step of the handler of the current message
  local,     \* local[s]: its local variables
  importDB,  \* the mode that SetOutportConfig sets
  docs,      \* the documents, by key
  visible,   \* the documents that a search sees, by key
  base,      \* the documents at the beginning: no state of the program
  history,   \* the operations and searches executed: no state of the program
  failures

vars == <<log, acked, pc, local, importDB, docs, visible, base, history, failures>>

Searched == {"tokens", "accountsesdt", "delegators"}

\* found is what the current search found.  No local variables are read, how much
\* was executed before the first multi-get, and seen, what the search could see.
NoLocal == [read |-> NoDoc, txs |-> {}, ops |-> <<>>, searches |-> <<>>, found |-> {},
            seen |-> {}, newTokens |-> {}]

\* The documents of an index that a search can find, if they are visible: the
\* queries ask for tokens that have no type, and for delegators.
Findable(ds, index) ==
  {k \in DOMAIN ds :
     k.index = index /\ (index = "delegators" \/ (ds[k].token # "" /\ ds[k].type = ""))}

Init ==
  \E sc \in Scenarios :
    /\ log = sc.log
    /\ importDB = sc.importDB
    /\ docs = sc.docs
    /\ base = sc.docs
    /\ visible = Restrict(sc.docs, UNION {Findable(sc.docs, index) : index \in Searched})
    /\ acked = [s \in Shards |-> 0]
    /\ pc = [s \in Shards |-> "idle"]
    /\ local = [s \in Shards |-> NoLocal]
    /\ history = <<>>
    /\ failures = 0
-----------------------------------------------------------------------------
(***************************************************************************)
(* Bulk requests.                                                          *)
(***************************************************************************)
Script(op, stored) ==
  CASE op.script = "index" -> op.params
    [] op.script = "delete" -> NoDoc
    [] op.script = "failed" -> stored
    [] op.script = "transaction" -> TransactionScript(stored, op.params)
    [] op.script = "status" -> StatusScript(stored, op.params)
    [] op.script = "source result" -> KeepResult(stored, op.params)
    [] op.script = "fee" -> FeeScript(stored, op.params)
    [] op.script = "log" -> NewerLog(stored, op.params)
    [] op.script = "account" -> prepareSerializedAccountInfo(stored, op.params)
    [] op.script = "delete account" -> prepareDeleteAccountInfo(stored, op.params)
    [] op.script = "nft update" -> NFTUpdateScript(stored, op.params)
    [] op.script = "tag" -> TagScript(stored, op.params)
    [] op.script = "token" -> TokenScript(stored, op.params)
    [] op.script = "type" -> TypeScript(stored, op.params)
    [] op.script = "delegator" -> prepareSerializedDelegator(stored, op.params)
    [] op.script = "role" -> serializeRoleData(stored, op.params)
    [] op.script = "properties" -> serializePropertiesData(stored, op.params)
    [] op.script = "deploy" -> serializeDeploy(stored, op.params)
    [] op.script = "change owner" -> changeOwner(stored, op.params)

\* The operations are executed one after the other.
Execute(ds, op) == Put(ds, op.key, Script(op, DoGet(ds, op.key)))
BulkResult(ds, ops) ==
  LET after[n \in 0..Len(ops)] == IF n = 0 THEN ds ELSE Execute(after[n - 1], ops[n])
  IN  after[Len(ops)]

\* What the handler of s had executed, for the record.
Entry(s, op) ==
  [shard |-> s, msg |-> acked[s] + 1, read |-> local[s].read,
   key |-> op.key, script |-> op.script, params |-> op.params]
Executed(s, ops) == history \o [i \in DOMAIN ops |-> Entry(s, ops[i])]

ExecuteBulk(s, ops) ==
  /\ docs' = BulkResult(docs, ops)
  /\ history' = Executed(s, ops)

\* The items of a bulk request fail one by one, and the others are executed.
WithFailed(ops, failed) ==
  [i \in DOMAIN ops |-> IF i \in failed THEN Operation(ops[i].key, "failed", NoDoc) ELSE ops[i]]

\* The items of n that may fail while others are executed: any, as long as the
\* ones that fail, or the others, are not more than MaxItems.
FailedItems(n) ==
  {failed \in SUBSET (1..n) :
     LET m == Cardinality(failed) IN 0 < m /\ m < n /\ (m <= MaxItems \/ n - m <= MaxItems)}

\* A delete that fails is not noticed.
IgnoredItems(ops) == SUBSET {i \in DOMAIN ops : ops[i].script = "delete"}
-----------------------------------------------------------------------------
(***************************************************************************)
(* SaveBlock: the steps of SaveTransactions.                               *)
(***************************************************************************)
Message(s) == log[s][acked[s] + 1]
Block(s) == Message(s).block
LogsData(s) == ExtractDataFromLogs(Block(s), s)
Handles(s, topic) == acked[s] < Len(log[s]) /\ Message(s).topic = topic

\* The parts of SaveTransactions, in order, and those that make a request, or
\* read the mode, for this block; the last one always does.
Parts == <<"transactions", "operations", "createInfo", "accountsESDT", "tokens",
           "burnInfo", "received", "bulk">>
Requests(s, part) ==
  LET b == Block(s)
      d == LogsData(s)
  IN  CASE part \in {"transactions", "operations"} -> b.txs \cup b.scrs # {}
        [] part = "createInfo" -> DOMAIN d.tokens # {}
        [] part = "accountsESDT" -> DOMAIN AccountsTokens(b) # {}
        [] part = "tokens" -> TypedTokens(d) # <<>>
        [] part = "burnInfo" -> DOMAIN d.tokensSupply # {}
        [] part = "received" -> ReceivedTokens(b) # {}
        [] part = "bulk" -> TRUE

\* The operations that a part puts into the buffer; the multi-gets of a part see
\* the documents of this moment.
\*  - operations: the mode is read again; the fees of transactions follow
\*  - createInfo: the new NFTs, with the types of their collections, the logs,
\*    the smart contract results
\*  - accountsESDT: with the types of the tokens; the tags
\*  - burnInfo: the delegators, the NFTs burnt, the roles, the contracts
BufferedBy(s, part) ==
  LET b == Block(s)
      d == LogsData(s)
      txs == local[s].txs
  IN  CASE part = "operations" ->
             ProcessTransactionsAndSCRs(b, txs, importDB, s)
             \o SerializeTransactionsFeeData(b, txs, "transactions")
             \o SerializeTransactionsFeeData(b, txs, "operations")
        [] part = "createInfo" ->
             SerializeNFTCreateInfo(d, docs) \o SerializeLogs(b) \o SerializeEvents(b, s)
             \o SerializeScResults(b)
        [] part = "accountsESDT" -> SerializeAccountsESDT(b, d, docs) \o SerializeTags(b)
        [] part = "tokens" -> SerializeTokens(d, "esdts") \o SerializeTokens(d, "tokens")
        [] part = "burnInfo" ->
             SerializeDelegators(d) \o SerializeSupplyData(d, docs)
             \o SerializeRolesData(d, "tokens") \o SerializeRolesData(d, "esdts")
             \o SerializeSCDeploys(d) \o SerializeChangeOwnerOperations(d)
        [] OTHER -> <<>>

Position(part) == CHOOSE i \in DOMAIN Parts : Parts[i] = part
NextRequest(s, from) == Min({i \in from..Len(Parts) : Requests(s, Parts[i])})

\* The handler of s is at a part of SaveTransactions; a message that is handled
\* from the beginning is at its first request.
At(s, part) ==
  \/ pc[s] = part
  \/ pc[s] = "idle" /\ Handles(s, "SaveBlock") /\ part = Parts[NextRequest(s, 1)]
GoTo(s, part) == pc' = [pc EXCEPT ![s] = part]

\* addTokenType returns when a search finds nothing: what was still to be
\* searched in this index is left out.
AfterEmptySearch(searches) ==
  SelectSeq(searches, LAMBDA x : x.index # Head(searches).index)

SearchesOf(d) ==
  LET tokens == TypedTokens(d)
      inIndex(index) == [i \in DOMAIN tokens |->
                           [index |-> index, token |-> tokens[i].token, type |-> tokens[i].type]]
  IN  inIndex("accountsesdt") \o inIndex("tokens")

\* What the handler buffers from part number i on until its next request, which
\* comes after part number from.
Buffered(s, i, from) ==
  FlattenSeq([j \in 1..(NextRequest(s, from) - i) |-> BufferedBy(s, Parts[i + j - 1])])

\* The local variables, when the request of the current part is made.
Local(s) ==
  IF pc[s] # "idle" THEN local[s]
  ELSE [NoLocal EXCEPT !.searches = SearchesOf(LogsData(s)), !.ops = Buffered(s, 1, 1)]

\* The request of a part is done: the handler goes on to the next request.
GoOn(s, part, l) ==
  /\ local' = [local EXCEPT ![s] =
       [l EXCEPT !.ops = @ \o Buffered(s, Position(part), Position(part) + 1)]]
  /\ GoTo(s, Parts[NextRequest(s, Position(part) + 1)])

\* PrepareTransactionsForDatabase reads the mode, then indexTransactions.
indexTransactions(s) ==
  /\ At(s, "transactions")
  /\ LET txs == PreparedTxs(Block(s), importDB, s)
     IN  local' = [local EXCEPT ![s] = [Local(s) EXCEPT !.txs = txs,
           !.ops = SerializeTransactions(txs, Block(s), s, "transactions")]]
  /\ GoTo(s, "operations")
  /\ UNCHANGED <<log, acked, importDB, docs, visible, base, history, failures>>

prepareAndIndexOperations(s) ==
  /\ At(s, "operations") /\ GoOn(s, "operations", Local(s))
  /\ UNCHANGED <<log, acked, importDB, docs, visible, base, history, failures>>

\* The types of the collections are read.
Read(l) == [l EXCEPT !.read = IF @ = NoDoc THEN Len(history) ELSE @]

indexNFTCreateInfo(s) ==
  /\ At(s, "createInfo") /\ GoOn(s, "createInfo", Read(Local(s)))
  /\ UNCHANGED <<log, acked, importDB, docs, visible, base, history, failures>>

saveAccountsESDT(s) ==
  /\ At(s, "accountsESDT") /\ GoOn(s, "accountsESDT", Read(Local(s)))
  /\ UNCHANGED <<log, acked, importDB, docs, visible, base, history, failures>>

indexNFTBurnInfo(s) ==
  /\ At(s, "burnInfo") /\ GoOn(s, "burnInfo", Local(s))
  /\ UNCHANGED <<log, acked, importDB, docs, visible, base, history, failures>>

\* The documents of an index that a search sees as they are.
Current(index) == {k \in DOMAIN visible : k.index = index /\ DoGet(docs, k) = visible[k]}
Untyped(index) == {k \in Current(index) : visible[k].type = ""}

\* What a search and the bulk request after it leave in the history.
Search(x, seen) == Operation(DocKey(x.index, x.token), "search", seen)

NextSearch(s, l, left) ==
  LET after == [l EXCEPT !.searches = left, !.found = {}, !.seen = {}]
  IN  IF left = <<>> THEN GoOn(s, "tokens", after)
      ELSE local' = [local EXCEPT ![s] = after] /\ GoTo(s, "tokens")

\* indexTokens, addTokenType: the count and the scroll of one token.
indexTokens(s) ==
  /\ At(s, "tokens")
  /\ LET l == Local(s)
         x == Head(l.searches)
         found == WithoutType(InIndex(visible, x.index), x.token)
     IN  IF found = {}
           THEN /\ NextSearch(s, l, AfterEmptySearch(l.searches))
                /\ history' = Executed(s, <<Search(x, Untyped(x.index))>>)
           ELSE /\ local' = [local EXCEPT ![s] = [l EXCEPT !.found = found, !.seen = Untyped(x.index)]]
                /\ GoTo(s, "types")
                /\ UNCHANGED history
  /\ UNCHANGED <<log, acked, importDB, docs, visible, base, failures>>

\* The bulk requests for what the scroll found do not wait for the buffer.
TypeOps(l) == SerializeTypeForProvidedIDs(l.found, Head(l.searches).type)

addTokenType(s) ==
  /\ At(s, "types")
  /\ docs' = BulkResult(docs, TypeOps(local[s]))
  /\ history' = Executed(s, <<Search(Head(local[s].searches), local[s].seen)>> \o TypeOps(local[s]))
  /\ NextSearch(s, local[s], Tail(local[s].searches))
  /\ UNCHANGED <<log, acked, importDB, visible, base, failures>>

\* IndexCrossChainTokens: a multi-get of the own index, then of the main chain's.
getNewTokens(s) ==
  /\ At(s, "received")
  /\ LET new == getNewTokensFromSCRs(Block(s), docs)
     IN  /\ local' = [local EXCEPT ![s] = [Local(s) EXCEPT !.newTokens = new]]
         /\ GoTo(s, IF new = {} THEN "bulk" ELSE "mainChain")
  /\ UNCHANGED <<log, acked, importDB, docs, visible, base, history, failures>>

getMainChainTokens(s) ==
  /\ At(s, "mainChain")
  /\ GoTo(s, "bulk")
  /\ local' = [local EXCEPT ![s].ops = @ \o serializeNewTokens(local[s].newTokens)]
  /\ UNCHANGED <<log, acked, importDB, docs, visible, base, history, failures>>

doBulkRequests(s) ==
  /\ At(s, "bulk")
  /\ \E failed \in IgnoredItems(Local(s).ops) : ExecuteBulk(s, WithFailed(Local(s).ops, failed))
  /\ GoTo(s, "ack")
  /\ local' = [local EXCEPT ![s] = NoLocal]
  /\ UNCHANGED <<log, acked, importDB, visible, base, failures>>
-----------------------------------------------------------------------------
(***************************************************************************)
(* RevertIndexedBlock and Settings.                                        *)
(***************************************************************************)
\* RemoveTransactions up to the delegators: a delete by query in each index, for
\* the hashes of what was executed here and of the results in miniblocks, if there
\* are any, and for the events of the block.
Removals == <<"remove transactions", "remove scresults", "remove operations", "remove logs",
              "remove events">>
RemovalIndex == <<"transactions", "scresults", "operations", "logs", "events">>

HashesForRemove(s, i) ==
  LET txs == {t.hash : t \in {x \in Block(s).txs : x.rcv = s}}
      scrs == {scr.hash : scr \in {x \in Block(s).scrs : x.snd # x.rcv}}
  IN  CASE i = 1 -> txs [] i = 2 -> scrs [] OTHER -> txs \cup scrs

RemovedBy(s, i) ==
  {k \in DOMAIN docs :
     /\ k.index = RemovalIndex[i]
     /\ IF i = 5 THEN k.holder = s /\ docs[k].block = Block(s).timestamp
        ELSE k.id \in HashesForRemove(s, i)}

NextRemoval(s, from) == Min({i \in from..5 : i = 5 \/ HashesForRemove(s, i) # {}})
AtRemoval(s, i) ==
  \/ pc[s] = Removals[i]
  \/ pc[s] = "idle" /\ Handles(s, "RevertIndexedBlock") /\ i = NextRemoval(s, 1)

\* A document that the search behind the delete does not see, since the refresh
\* before it failed, or that is written meanwhile, is missed: no error either way.
RemoveTransactions(s) ==
  \E i \in DOMAIN Removals :
    /\ AtRemoval(s, i)
    /\ \E missed \in SUBSET RemovedBy(s, i) :
         /\ missed # {} => failures < MaxFailures
         /\ failures' = IF missed = {} THEN failures ELSE failures + 1
         /\ docs' = Restrict(docs, DOMAIN docs \ (RemovedBy(s, i) \ missed))
    /\ GoTo(s, IF i < 5 THEN Removals[NextRemoval(s, i + 1)]
               ELSE IF s = MetaShard /\ Block(s).hasMbs THEN "delegators" ELSE "ack")
    /\ UNCHANGED <<log, acked, local, importDB, visible, base, history>>

\* The update by query takes the documents that a search sees; one that was
\* written since then is a conflict, which is an error.
updateDelegatorsInCaseOfRevert(s) ==
  LET t == Block(s).timestamp
      matched == RevertMatches(InIndex(visible, "delegators"), t)
      conflict == \E k \in matched : DoGet(docs, k) # visible[k]
      revert == Operation(DocKey("delegators", ""), "revert", Current("delegators"))
  IN  /\ At(s, "delegators")
      /\ IF conflict
           THEN GoTo(s, "idle") /\ UNCHANGED <<docs, history>>
           ELSE /\ docs' = [k \in DOMAIN docs |->
                              IF k \in matched THEN RevertScript(docs[k], t) ELSE docs[k]]
                /\ history' = Executed(s, <<revert>>)
                /\ GoTo(s, "ack")
      /\ UNCHANGED <<log, acked, local, importDB, visible, base, failures>>

SetOutportConfig(s) ==
  /\ pc[s] = "idle" /\ Handles(s, "Settings")
  /\ importDB' = Message(s).importDB
  /\ GoTo(s, "ack")
  /\ UNCHANGED <<log, acked, local, docs, visible, base, history, failures>>
-----------------------------------------------------------------------------
(***************************************************************************)
(* Acknowledgements and failures.                                          *)
(***************************************************************************)
Ack(s) ==
  /\ At(s, "ack")
  /\ acked' = [acked EXCEPT ![s] = @ + 1]
  /\ GoTo(s, "idle")
  /\ UNCHANGED <<log, local, importDB, docs, visible, base, history, failures>>

\* The message comes again.
Restart(s) ==
  /\ GoTo(s, "idle")
  /\ local' = [local EXCEPT ![s] = NoLocal]
  /\ UNCHANGED <<log, acked, importDB, visible, base>>

\* A request fails, the process stops, or the acknowledgement is lost.
Fail(s) ==
  /\ pc[s] # "idle" /\ failures < MaxFailures
  /\ failures' = failures + 1
  /\ Restart(s)
  /\ UNCHANGED <<docs, history>>

\* Some items of a bulk request fail, and with them the request.
FailBulk(s) ==
  LET ops == IF pc[s] = "types" THEN TypeOps(local[s]) ELSE Local(s).ops
  IN  /\ At(s, "types") \/ At(s, "bulk")
      /\ failures < MaxFailures
      /\ failures' = failures + 1
      /\ \E failed \in FailedItems(Len(ops)) : ExecuteBulk(s, WithFailed(ops, failed))
      /\ Restart(s)

\* Elasticsearch may refuse a bulk request that has an empty id.
RefuseBulk(s) ==
  /\ At(s, "bulk")
  /\ \E i \in DOMAIN Local(s).ops : Local(s).ops[i].key = NoId
  /\ Restart(s)
  /\ UNCHANGED <<docs, history, failures>>

\* External: Elasticsearch makes the documents of an index visible to searches;
\* it does so while a search may still come, after that nothing depends on it.
MaySearch(s, i, index) ==
  IF index = "delegators" THEN log[s][i].topic = "RevertIndexedBlock"
  ELSE log[s][i].topic = "SaveBlock" /\ TypedTokens(ExtractDataFromLogs(log[s][i].block, s)) # <<>>
Refresh(index) ==
  /\ \E s \in Shards : \E i \in (acked[s] + 1)..Len(log[s]) : MaySearch(s, i, index)
  /\ InIndex(visible, index) # Restrict(docs, Findable(docs, index))
  /\ visible' = [k \in {x \in DOMAIN visible : x.index # index} \cup Findable(docs, index) |->
                   IF k.index = index THEN docs[k] ELSE visible[k]]
  /\ UNCHANGED <<log, acked, pc, local, importDB, docs, base, history, failures>>

SaveTransactions(s) ==
  \/ indexTransactions(s) \/ prepareAndIndexOperations(s)
  \/ indexNFTCreateInfo(s) \/ saveAccountsESDT(s) \/ indexTokens(s) \/ addTokenType(s)
  \/ indexNFTBurnInfo(s) \/ getNewTokens(s) \/ getMainChainTokens(s) \/ doBulkRequests(s)

Next ==
  \/ \E s \in Shards :
       \/ SaveTransactions(s)
       \/ RemoveTransactions(s) \/ updateDelegatorsInCaseOfRevert(s) \/ SetOutportConfig(s)
       \/ Ack(s) \/ Fail(s) \/ FailBulk(s) \/ RefuseBulk(s)
  \/ \E index \in Searched : Refresh(index)

Spec == Init /\ [][Next]_vars
-----------------------------------------------------------------------------
(***************************************************************************)
(* What the properties are about.                                          *)
(***************************************************************************)
\* Message i of s is acknowledged and was not taken back; nor is it being so.
IsRevertOf(s, j, i) ==
  log[s][j].topic = "RevertIndexedBlock" /\ log[s][j].block.timestamp = log[s][i].block.timestamp
Saved(s, i) == i \in 1..acked[s] /\ log[s][i].topic = "SaveBlock"
Live(s, i) == Saved(s, i) /\ ~\E j \in (i + 1)..acked[s] : IsRevertOf(s, j, i)
Stays(s, i) ==
  Saved(s, i) /\ ~\E j \in (i + 1)..Len(log[s]) : j <= acked[s] + 1 /\ IsRevertOf(s, j, i)
BlockAt(s, i) == log[s][i].block
DataAt(s, i) == ExtractDataFromLogs(BlockAt(s, i), s)

\* Nothing of the message that s handles was executed yet.
Settled(s) == \A h \in DOMAIN history : history[h].shard = s => history[h].msg <= acked[s]

\* The executions of operations of a kind on a document.
Executions(k, scripts) ==
  {h \in DOMAIN history : history[h].key = k /\ history[h].script \in scripts}
Of(s, i) == {h \in DOMAIN history : history[h].shard = s /\ history[h].msg = i}

Places == UNION {{<<s, i>> : i \in {n \in DOMAIN log[s] : log[s][n].topic = "SaveBlock"}} : s \in Shards}
IsAcked(p) == p[2] <= acked[p[1]]
BlockOf(p) == log[p[1]][p[2]].block

AllTxs == UNION {BlockOf(p).txs : p \in Places}
HoldersOf(hash) == {p \in Places : hash \in {t.hash : t \in BlockOf(p).txs}}
LoggersOf(hash) == {p \in Places : hash \in LoggedHashes(BlockOf(p))}
ExecutedAt(p) == {t \in BlockOf(p).txs : t.rcv = p[1]}
-----------------------------------------------------------------------------
\* The blocks whose results report the outcome of a transaction.
ReportersOf(hash) == {p \in Places : hash \in DOMAIN TxHashStatusInfo(BlockOf(p))}

\* Some block wrote one of the two documents of the transaction only: the mode
\* changed between the two reads, or after items of a bulk request had failed.
WroteOne(hash) ==
  \E p \in HoldersOf(hash) :
    LET wrote(index) == Executions(DocKey(index, hash), {"transaction"}) \cap Of(p[1], p[2]) # {}
    IN  wrote("transactions") # wrote("operations")

\* The outcome was reported before the transaction was written, in an index.
ReportedFirst(hash) ==
  \E index \in {"transactions", "operations"} :
    \E r \in Executions(DocKey(index, hash), {"status"}) :
      \A w \in Executions(DocKey(index, hash), {"transaction"}) : r < w


\* The results that refund a transaction of another block.
Refunds(hash) ==
  {r \in UNION {BlockOf(p).scrs : p \in Places \ HoldersOf(hash)} :
     r.originalTx = hash /\ r.gasRefunded > 0}
TotalRefund(hash) == MapThenSumSet(LAMBDA r : r.fee, Refunds(hash))
TotalGasRefunded(hash) == MapThenSumSet(LAMBDA r : r.gasRefunded, Refunds(hash))

\* The fee of a plain transaction in both indexes, as a text and as a number, and
\* the gas it used, once its blocks and the blocks of its refunds are acknowledged:
\* when every refund was executed once, and after what the destination wrote, they
\* are what the destination wrote less the refunds; when the destination wrote
\* last, the refunds are lost; a repeated message takes its refund again, and no
\* more than that.
FeeRefunds ==
  \A p \in Places, index \in {"transactions", "operations"} :
    \A t \in {x \in ExecutedAt(p) : x.kind = "plain" /\ Refunds(x.hash) # {}} :
      LET k == DocKey(index, t.hash)
          written == Executions(k, {"transaction"}) \cap Of(p[1], p[2])
          refunded == Executions(k, {"fee"})
          concerned == HoldersOf(t.hash)
                       \cup {q \in Places : BlockOf(q).scrs \cap Refunds(t.hash) # {}}
          doc == DoGet(docs, k)
      IN  (\A q \in concerned : IsAcked(q)) =>
            /\ (/\ \A w \in written, r \in refunded : w < r
                /\ Cardinality(refunded) = Cardinality(Refunds(t.hash)))
                 => /\ doc.fee = t.fee - TotalRefund(t.hash) /\ doc.feeNum = doc.fee
                    /\ doc.gasUsed = t.gasUsed - TotalGasRefunded(t.hash)
            /\ (\A w \in written, r \in refunded : r < w) =>
                 doc.fee = t.fee /\ doc.feeNum = t.fee /\ doc.gasUsed = t.gasUsed
            /\ doc.fee + (1 + failures) * TotalRefund(t.hash) >= t.fee
            /\ doc.gasUsed + (1 + failures) * TotalGasRefunded(t.hash) >= t.gasUsed

Entries(k, P(_)) ==
  IF DoGet(docs, k) = NoDoc \/ DoGet(docs, k).unDelegateInfo = NoDoc THEN <<>>
  ELSE SelectSeq(docs[k].unDelegateInfo, P)

\* What a delegator unDelegated in an acknowledged block, and has not withdrawn,
\* is in the document, once for every delivery of the block; it is missing only
\* if the block created the document.  What a reverted block had put there is
\* gone once the revert is acknowledged, unless the search of the revert did
\* not see the document as it was, or a later block, which is reverted too, left
\* its timestamp there.
UnDelegations ==
  LET s == MetaShard IN
  Settled(s) =>
    \A i \in {n \in 1..acked[s] : Saved(s, n)} :
      \A id \in DOMAIN DataAt(s, i).delegators :
        LET delegator == DataAt(s, i).delegators[id]
            k == DelegatorKey(id)
            mine == Executions(k, {"delegator"}) \cap Of(s, i)
            existed == k \in DOMAIN base
                       \/ \E h \in Executions(k, {"delegator"}) : \A m \in mine : h < m
            gone(fund) == \E j \in (i + 1)..acked[s] : Saved(s, j) /\
                            LET later == DataAt(s, j).delegators
                            IN  id \in DOMAIN later /\ (later[id].shouldDelete
                                  \/ (later[id].withdrawn # NoDoc /\ fund \in later[id].withdrawn))
            seen == \E h \in DOMAIN history :
                      /\ history[h].script = "revert" /\ k \in history[h].params
                      /\ IsRevertOf(s, history[h].msg, i)
                      /\ \A e \in Executions(k, {"delegator"}) :
                           ~(i < history[e].msg /\ history[e].msg < history[h].msg)
        IN  delegator.unDelegated # NoDoc =>
              \A fund \in delegator.unDelegated :
                IF Live(s, i)
                  THEN ~gone(fund) =>
                         LET n == Len(Entries(k, LAMBDA x : x.id = fund))
                         IN  (existed => n >= 1) /\ n <= 1 + failures
                  ELSE seen => Entries(k, LAMBDA x : x.timestamp = delegator.timestamp) = <<>>
IssuesOf(index, token) ==
  {h \in Executions(DocKey(index, token), {"token"}) :
     ~history[h].params.transferOwnership /\ ~history[h].params.changeToDynamic}

\* An NFT, and a holding of it, has the type of its collection as soon as the
\* document of the collection has it and its block is acknowledged; it lacks
\* the type only if the handling that wrote it had read the collections before
\* the issue was executed, and no search that could see the document as it is,
\* and whose bulk request succeeded, came since then.
TokenTypesFilled ==
  \A k \in {x \in DOMAIN docs : x.index \in {"tokens", "accountsesdt"} /\ x.nonce > 0} :
    LET collection == DoGet(docs, DocKey("tokens", k.id))
        issues == {h \in IssuesOf("tokens", k.id) : history[h].msg <= acked[history[h].shard]}
        written == Max(Executions(k, {"index", "account"}))
        searches == {h \in Executions(DocKey(k.index, k.id), {"search"}) : k \in history[h].params}
    IN  (docs[k].token # "" /\ docs[k].type = "" /\ issues # {} /\ collection.type # "") =>
          /\ \A h \in issues : history[written].read < h
          /\ \A h \in searches : h < written

\* The changes of a role that the acknowledged blocks of s tell, in order.
RoleChanges(s, token, role, address) ==
  LET of(i) == LET d == DataAt(s, i)
               IN  IF Live(s, i) /\ role \in DOMAIN d.rolesData
                     THEN SelectSeq(d.rolesData[role], LAMBDA x : x.token = token /\ x.address = address)
                     ELSE <<>>
  IN  FlattenSeq([i \in 1..acked[s] |-> of(i)])

\* What the acknowledged blocks of s tell about a token.
InfosAbout(s, token) ==
  FlattenSeq([i \in 1..acked[s] |->
    IF Live(s, i) THEN SelectSeq(DataAt(s, i).tokensInfo, LAMBDA x : x.token = token) ELSE <<>>])

\* The document was there before the issue, and without roles.
IssueIgnored(index, token) ==
  \E h \in Executions(DocKey(index, token), {"nft update", "properties", "role"}) :
    /\ \A j \in IssuesOf(index, token) : h < j
    /\ \A r \in Executions(DocKey(index, token), {"role"}) :
         history[r].params.set => \E j \in IssuesOf(index, token) : j < r

TokenNames == UNION {{BlockOf(p).events[i].event.token : i \in {n \in DOMAIN BlockOf(p).events :
                        BlockOf(p).events[n].event.identifier \in RoleIdentifiers \cup IssueIdentifiers}} :
                        p \in Places}

\* In both indexes, a token has the roles that the acknowledged blocks of the
\* shard of each holder gave last, whatever came from other shards meanwhile
\* and in whatever order; it has the type of its issue and its last owner, in
\* spite of repeated messages, unless a document without roles was there before
\* the issue, which makes the issue a no-op.
TokenFollowsChain ==
  \A token \in TokenNames, index \in {"tokens", "esdts"}, s \in Shards : Settled(s) =>
    LET doc == DoGet(docs, DocKey(index, token)) IN
    /\ \A role \in {"ESDTRoleNFTCreate", "ESDTRoleBurnForAll"}, address \in DOMAIN ShardOf \cup {""} :
         LET changes == RoleChanges(s, token, role, address)
         IN  changes # <<>> => (<<role, address>> \in doc.roles <=> Last(changes).set)
    /\ LET infos == InfosAbout(s, token)
       IN  (infos # <<>> /\ ~IssueIgnored(index, token)) =>
             /\ doc.owner = Last(infos).owner
             /\ doc.type = Last(infos).type

\* How often the acknowledged messages, with or without the current ones, do
\* something that is counted.
Sum(n(_, _), withCurrent) ==
  MapThenSumSet(LAMBDA p : IF p[2] <= acked[p[1]] + withCurrent THEN n(p[1], p[2]) ELSE 0, Places)
Counted(stored, n(_, _), most) ==
  Sum(n, 0) <= stored /\ stored <= Sum(n, 1) + most * failures

\* The count of a tag, the upgrades and the owners of a contract are what the
\* chain did or more: a repeated message counts again, and nothing else does.
\* The deployment itself is the first upgrade when it is repeated.
CountsBoundedByDeliveries ==
  /\ \A tag \in UNION {ParsedTags(BlockOf(p)) : p \in Places} :
       LET doc == DoGet(docs, DocKey("tags", tag))
       IN  Counted(IF doc = NoDoc THEN 0 ELSE doc.count, LAMBDA s, i : TagCount(BlockAt(s, i), tag),
                   Max({TagCount(BlockOf(p), tag) : p \in Places}))
  /\ \A contract \in {k.id : k \in {x \in DOMAIN docs : x.index = "scdeploys"}} :
       LET doc == docs[DocKey("scdeploys", contract)]
           deploys(s, i) == IF contract \in DOMAIN DataAt(s, i).scDeploys THEN 1 ELSE 0
           changes(s, i) == IF contract \in DOMAIN DataAt(s, i).changeOwnerOperations THEN 1 ELSE 0
       IN  Counted(Len(doc.upgrades) + 1, deploys, 1) /\ Counted(Len(doc.owners), changes, 1)

\* The NFTs that message i of s created on this chain, and whether a document of
\* a token was written by nothing that happened on this chain: every operation on
\* it replaced the document, and not because the NFT was created.
NFTsCreated(s, i) == {Key("tokens", id[1], id[2], "") : id \in DOMAIN DataAt(s, i).tokens}
OnlyCopied(k) ==
  \A h \in DOMAIN history : (history[h].key = k /\ history[h].script \notin {"search", "failed"}) =>
    history[h].script = "index" /\ k \notin NFTsCreated(history[h].shard, history[h].msg)

\* When a block is acknowledged, every token that its results brought from the
\* main chain, and the collection of every NFT among them, has a document if the
\* main chain knows it, unless this chain changed the token itself: the document
\* that was there before, or else the one of the main chain.  It does not matter
\* how many handlers copy the token at the same time, nor what is repeated.
CrossChainTokens ==
  \A p \in {q \in Places : IsAcked(q)} : \A k \in ReceivedTokens(BlockOf(p)) :
    OnlyCopied(k) =>
      IF k \in DOMAIN base THEN DoGet(docs, k) = base[k]
      ELSE k \in DOMAIN MainChainTokens => DoGet(docs, k) = formatToken(MainChainTokens[k])
=============================================================================
