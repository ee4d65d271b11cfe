---------------------------- MODULE AccountsIndex ----------------------------
(***************************************************************************)
(* process/elasticproc/accounts and the part of elasticProcessor.go that   *)
(* uses it: the indexes "accounts", "accountsesdt" and their histories.    *)
(*                                                                         *)
(* The observers deliver SaveBlock, RevertIndexedBlock and SaveAccounts    *)
(* messages as in BlockIndexing, here reduced to the requests that write   *)
(* these indexes.  A request that timed out may be executed later, when    *)
(* the message was repeated and others were handled.  The timestamp in a   *)
(* document is what protects it from such a late request.                  *)
(***************************************************************************)
EXTENDS Naturals, Sequences, FiniteSets

CONSTANTS
  Shards,       \* the shards that have an observer
  Accounts,     \* addresses
  ShardOf,      \* the shard of an address
  Tokens,       \* ESDT tokens, with their nonce
  Contents,     \* Contents[s]: the altered accounts a block of s may have
  Provided,     \* Provided[s]: the accounts s may send outside of a block
  NoDoc,        \* "no document with this id" in Elasticsearch
  MaxTime,      \* bound on the timestamps
  MaxBlocks,    \* bound on the number of blocks
  MaxFailures,  \* bound on the number of failed requests
  MaxLate,      \* bound on the operations of one request that come late
  MaxMissed     \* bound on the documents that deletes by query have left

\* alteredAccount.AlteredAccount: tokens has what the block changed.
AlteredAccounts == [balance : Nat, balanceChanged : BOOLEAN, isSender : BOOLEAN,
                    tokens : SUBSET [token : Tokens, balance : Nat, frozen : BOOLEAN]]

\* An account is altered by blocks of its own shard only, a token at most once
\* in an altered account.
ASSUME AlteredAssumption ==
  /\ ShardOf \in [Accounts -> Shards]
  /\ DOMAIN Contents = Shards /\ DOMAIN Provided = Shards
  /\ \A s \in Shards : \A altered \in Contents[s] \cup Provided[s] :
       /\ DOMAIN altered \subseteq {a \in Accounts : ShardOf[a] = s}
       /\ \A a \in DOMAIN altered :
            /\ altered[a] \in AlteredAccounts
            /\ \A t, u \in altered[a].tokens : t.token = u.token => t = u
ASSUME BoundsAssumption ==
  /\ MaxTime \in Nat /\ MaxBlocks \in Nat /\ MaxFailures \in Nat
  /\ MaxLate \in Nat /\ MaxMissed \in Nat

VARIABLES
  log,                 \* log[s]: the messages of the observer of s
  acked,               \* acked[s]: how many of them were acknowledged
  pc,                  \* pc[s]: the next request of the current message
  accounts,            \* the index "accounts"
  accountsESDT,        \* the index "accountsesdt"
  accountsHistory,     \* the index "accountshistory"
  accountsESDTHistory, \* the index "accountsesdthistory"
  late,                \* operations of failed requests that are still to come
  arrived,             \* the ones that came: no state of the program
  missed,              \* what the last delete by query of a revert left: no state
  numBlocks,           \* number of blocks produced; the hash of the last one
  failures             \* number of failures so far

indexes == <<accounts, accountsESDT, accountsHistory, accountsESDTHistory, missed>>
vars == <<log, acked, pc, indexes, late, arrived, numBlocks, failures>>

\* The ids of the documents; a regular account has no token.
NoToken == "none"
RegularIds == Accounts \X {NoToken}
ESDTIds == Accounts \X Tokens

\* data.AccountInfo: the fields that differ from block to block.  frozen is
\* omitted from the JSON when it is false.
Infos == [balance : Nat, frozen : BOOLEAN, timestamp : Nat, shard : Shards]
ASSUME NoDocAssumption == NoDoc \notin Infos
HistoryDocs == [id : RegularIds \cup ESDTIds, balance : Nat, timestamp : Nat,
                shard : Shards]

\* The message of topic SaveAccounts has what a block has, except the hash,
\* which is only a number to tell the messages apart.
AlteredSets == UNION {Contents[s] \cup Provided[s] : s \in Shards}
Blocks == [hash : Nat, shard : Shards, timestamp : Nat, altered : AlteredSets]
Topics == {"SaveBlock", "RevertIndexedBlock", "SaveAccounts"}
Messages == [topic : Topics, block : Blocks]
-----------------------------------------------------------------------------
(***************************************************************************)
(* What a block writes.                                                    *)
(***************************************************************************)
notZeroBalance(balance) == balance # 0

\* The accounts of block b that splitAlteredAccounts does not ignore.
RegularAccounts(b) ==
  {a \in DOMAIN b.altered :
     \/ b.altered[a].balanceChanged
     \/ ~notZeroBalance(b.altered[a].balance)
     \/ b.altered[a].isSender}

PrepareRegularAccountsMap(b) ==
  [id \in {<<a, NoToken>> : a \in RegularAccounts(b)} |->
     [balance |-> b.altered[id[1]].balance, frozen |-> FALSE,
      timestamp |-> b.timestamp, shard |-> b.shard]]

ESDTIdsOf(b) ==
  {id \in ESDTIds : /\ id[1] \in DOMAIN b.altered
                    /\ \E t \in b.altered[id[1]].tokens : t.token = id[2]}

PrepareAccountsMapESDT(b) ==
  [id \in ESDTIdsOf(b) |->
     LET info == CHOOSE t \in b.altered[id[1]].tokens : t.token = id[2]
     IN  [balance |-> info.balance, frozen |-> info.frozen,
          timestamp |-> b.timestamp, shard |-> b.shard]]

PrepareAccountsHistory(map) ==
  {[id |-> id, balance |-> map[id].balance, timestamp |-> map[id].timestamp,
    shard |-> map[id].shard] : id \in DOMAIN map}

\* Mutants: the update does not look at the timestamp; the older one wins.
updateAlways(stored, info) == info
updateIfOlder(stored, info) ==
  IF stored = NoDoc THEN info
  ELSE IF stored.timestamp > info.timestamp THEN info ELSE stored

\* The script of an update copies the fields that the JSON has.
prepareSerializedAccountInfo(stored, info) ==
  IF stored = NoDoc THEN info
  ELSE IF stored.timestamp <= info.timestamp
         THEN [info EXCEPT !.frozen = @ \/ stored.frozen]
         ELSE stored

\* Mutant: the upsert is not turned into a noop.
deleteUpserts(stored, timestamp) ==
  IF stored = NoDoc THEN [timestamp |-> timestamp]
  ELSE IF stored.timestamp <= timestamp THEN NoDoc ELSE stored

prepareDeleteAccountInfo(stored, timestamp) ==
  IF stored = NoDoc \/ stored.timestamp <= timestamp THEN NoDoc ELSE stored

prepareSerializedAccount(stored, info, isESDT) ==
  IF isESDT /\ ~notZeroBalance(info.balance)
    THEN prepareDeleteAccountInfo(stored, info.timestamp)
    ELSE prepareSerializedAccountInfo(stored, info)

\* The index after the operations on these ids were executed.
IndexAccounts(docs, map, ids, isESDT) ==
  [id \in DOMAIN docs |->
     IF id \in ids \cap DOMAIN map
       THEN prepareSerializedAccount(docs[id], map[id], isESDT)
       ELSE docs[id]]

\* The id of a history document ends with the timestamp: the documents of one
\* account and timestamp replace each other.
IndexHistory(docs, new) ==
  {d \in docs : \A n \in new : <<d.id, d.timestamp>> # <<n.id, n.timestamp>>} \cup new

\* Mutant: the query matches the timestamp only.
matchTimestamp(doc, s, timestamp) == doc.timestamp = timestamp

\* The query of removeFromIndexByTimestampAndShardID.
Matches(doc, s, timestamp) == doc.shard = s /\ doc.timestamp = timestamp
-----------------------------------------------------------------------------
(***************************************************************************)
(* Operations on the indexes.  A save operation stands for one line of the *)
(* bulk request, a remove operation for one delete by query.               *)
(***************************************************************************)
SaveOps(b) ==
  {[kind |-> "save", index |-> x, id |-> id, block |-> b] :
     x \in {"accounts", "accountshistory"}, id \in DOMAIN PrepareRegularAccountsMap(b)}
  \cup
  {[kind |-> "save", index |-> x, id |-> id, block |-> b] :
     x \in {"accountsesdt", "accountsesdthistory"}, id \in ESDTIdsOf(b)}

\* The indexes that a revert deletes from.
ESDTIndexes == {"accountsesdt", "accountsesdthistory"}
RemoveOp(x, b) == [kind |-> "remove", index |-> x, id |-> <<>>, block |-> b]

IdsOf(ops, x) == {o.id : o \in {p \in ops : p.index = x /\ p.kind = "save"}}

\* The operations ops of block b are executed.
ExecuteSave(b, ops) ==
  LET regular == PrepareRegularAccountsMap(b)
      esdt    == PrepareAccountsMapESDT(b)
      history(map, ids) == {d \in PrepareAccountsHistory(map) : d.id \in ids}
  IN  /\ accounts' = IndexAccounts(accounts, regular, IdsOf(ops, "accounts"), FALSE)
      /\ accountsHistory' = IndexHistory(accountsHistory,
           history(regular, IdsOf(ops, "accountshistory")))
      /\ accountsESDT' = IndexAccounts(accountsESDT, esdt, IdsOf(ops, "accountsesdt"), TRUE)
      /\ accountsESDTHistory' = IndexHistory(accountsESDTHistory,
           history(esdt, IdsOf(ops, "accountsesdthistory")))
      /\ UNCHANGED missed

\* The documents that the query of o matches, by their ids.
Found(o) ==
  LET hit(d) == Matches(d, o.block.shard, o.block.timestamp)
  IN  IF o.index = "accountsesdt"
        THEN {id \in ESDTIds : accountsESDT[id] # NoDoc /\ hit(accountsESDT[id])}
        ELSE {d.id : d \in {e \in accountsESDTHistory : hit(e)}}

\* The delete by query o leaves these documents.
Miss(o, ids) ==
  missed' = {m \in missed : <<m.index, m.block>> # <<o.index, o.block>>} \cup
            {[index |-> o.index, id |-> id, block |-> o.block] : id \in ids}

\* Mutant: the history is forgotten.
removeESDTOnly(o) ==
  /\ Miss(o, {})
  /\ accountsESDT' = [id \in ESDTIds |->
       IF o.index = "accountsesdt" /\ id \in Found(o) THEN NoDoc ELSE accountsESDT[id]]
  /\ UNCHANGED <<accounts, accountsHistory, accountsESDTHistory>>

\* DoQueryRemove reports no error for a document that it does not see, because
\* the refresh before it failed, or that is written between the snapshot and the
\* delete (conflicts=proceed), by a late operation or by the requests that add
\* token types and NFT data to these documents.  Any of the documents may stay.
ExecuteRemove(o) ==
  \E left \in SUBSET Found(o) :
    /\ Miss(o, left)
    /\ Cardinality(missed') <= MaxMissed
    /\ accountsESDT' = [id \in ESDTIds |->
         IF o.index = "accountsesdt" /\ id \in Found(o) \ left THEN NoDoc ELSE accountsESDT[id]]
    /\ accountsESDTHistory' = {d \in accountsESDTHistory :
         \/ o.index = "accountsesdt" \/ d.id \in left
         \/ ~Matches(d, o.block.shard, o.block.timestamp)}
    /\ UNCHANGED <<accounts, accountsHistory>>

-----------------------------------------------------------------------------
Init ==
  /\ log = [s \in Shards |-> <<>>]
  /\ acked = [s \in Shards |-> 0]
  /\ pc = [s \in Shards |-> "first"]
  /\ accounts = [id \in RegularIds |-> NoDoc]
  /\ accountsESDT = [id \in ESDTIds |-> NoDoc]
  /\ accountsHistory = {}
  /\ accountsESDTHistory = {}
  /\ late = {}
  /\ arrived = {}
  /\ missed = {}
  /\ numBlocks = 0
  /\ failures = 0

IsRevert(msg, b) == msg.topic = "RevertIndexedBlock" /\ msg.block.hash = b.hash

\* The chain of s as its messages tell it, and the blocks it has reverted.
Chain(s) ==
  {b \in {log[s][i].block : i \in {k \in DOMAIN log[s] : log[s][k].topic = "SaveBlock"}} :
     \A i \in DOMAIN log[s] : ~IsRevert(log[s][i], b)}
Reverted(s) ==
  {log[s][i].block : i \in {k \in DOMAIN log[s] : log[s][k].topic = "RevertIndexedBlock"}}

Pending(s) == acked[s] < Len(log[s])

\* The next message of s; the observer waits for the acknowledgement of the
\* last one before it goes on.
Push(s, topic, b) ==
  ~Pending(s) /\ log' = [log EXCEPT ![s] = Append(@, [topic |-> topic, block |-> b])]

NewBlock(s, altered, timestamp) ==
  [hash |-> numBlocks + 1, shard |-> s, timestamp |-> timestamp, altered |-> altered]

\* The observer of s saves a block.  It is younger than its parent but need not
\* be younger than a block that was reverted.
Commit(s, altered, timestamp) ==
  /\ numBlocks < MaxBlocks
  /\ \A b \in Chain(s) : b.timestamp < timestamp
  /\ Push(s, "SaveBlock", NewBlock(s, altered, timestamp))
  /\ numBlocks' = numBlocks + 1
  /\ UNCHANGED <<acked, pc, indexes, late, arrived, failures>>

Rollback(s) ==
  \E b \in Chain(s) :
    /\ \A c \in Chain(s) : c.hash <= b.hash
    /\ Push(s, "RevertIndexedBlock", b)
    /\ UNCHANGED <<acked, pc, indexes, late, arrived, numBlocks, failures>>

\* The observer of s sends accounts outside of a block (genesis, import).
SendAccounts(s, altered) ==
  /\ numBlocks < MaxBlocks
  /\ log[s] = <<>>
  /\ Push(s, "SaveAccounts", NewBlock(s, altered, 1))
  /\ numBlocks' = numBlocks + 1
  /\ UNCHANGED <<acked, pc, indexes, late, arrived, failures>>
-----------------------------------------------------------------------------
Message(s) == log[s][acked[s] + 1]
At(s, topic, step) == Pending(s) /\ pc[s] = step /\ Message(s).topic = topic

\* The handler returned nil and the message is acknowledged.
Acknowledge(s) ==
  /\ acked' = [acked EXCEPT ![s] = @ + 1]
  /\ pc' = [pc EXCEPT ![s] = "first"]
  /\ UNCHANGED <<log, late, arrived, numBlocks, failures>>

\* The handler returned an error; some operations may still be executed.
Fail(s, pending) ==
  /\ failures < MaxFailures
  /\ Cardinality(pending) <= MaxLate
  /\ failures' = failures + 1
  /\ late' = late \cup pending
  /\ pc' = [pc EXCEPT ![s] = "first"]
  /\ UNCHANGED <<log, acked, arrived, numBlocks>>

\* SaveTransactions, of which indexAlteredAccounts is a part, sends the bulk
\* requests.  A failure with every operation done is also a lost
\* acknowledgement.
SaveBlock(s) ==
  LET b   == Message(s).block
      ops == SaveOps(b)
  IN  /\ At(s, "SaveBlock", "first")
      /\ \/ ExecuteSave(b, ops) /\ Acknowledge(s)
         \/ \E done \in SUBSET ops : \E pending \in SUBSET (ops \ done) :
              Fail(s, pending) /\ ExecuteSave(b, done)

\* RemoveAccountsESDT: two query removes, the second one if the first
\* succeeded.
RemoveAccountsESDT(s, step, x) ==
  LET o == RemoveOp(x, Message(s).block) IN
  /\ At(s, "RevertIndexedBlock", step)
  /\ \/ /\ ExecuteRemove(o)
        /\ IF step = "first"
             THEN /\ pc' = [pc EXCEPT ![s] = "second"]
                  /\ UNCHANGED <<log, acked, late, arrived, numBlocks, failures>>
             ELSE Acknowledge(s)
     \/ Fail(s, {}) /\ ExecuteRemove(o)
     \/ UNCHANGED indexes /\ \E pending \in SUBSET {o} : Fail(s, pending)

\* Fills a buffer and sends no request.
SaveAccounts(s) ==
  /\ At(s, "SaveAccounts", "first")
  /\ Acknowledge(s)
  /\ UNCHANGED indexes

\* Elasticsearch executes an operation whose request had timed out.
LateOperation(o) ==
  /\ late' = late \ {o}
  /\ arrived' = arrived \cup {o}
  /\ IF o.kind = "save" THEN ExecuteSave(o.block, {o}) ELSE ExecuteRemove(o)
  /\ UNCHANGED <<log, acked, pc, numBlocks, failures>>

Next ==
  \/ \E s \in Shards :
       \/ \E altered \in Contents[s], timestamp \in 1..MaxTime :
            Commit(s, altered, timestamp)
       \/ \E altered \in Provided[s] : SendAccounts(s, altered)
       \/ Rollback(s)
       \/ SaveBlock(s)
       \/ RemoveAccountsESDT(s, "first", "accountsesdt")
       \/ RemoveAccountsESDT(s, "second", "accountsesdthistory")
       \/ SaveAccounts(s)
  \/ \E o \in late : LateOperation(o)

Spec == Init /\ [][Next]_vars
-----------------------------------------------------------------------------
TypeOK ==
  /\ log \in [Shards -> Seq(Messages)]
  /\ acked \in [Shards -> Nat]
  /\ \A s \in Shards : acked[s] <= Len(log[s])
  /\ pc \in [Shards -> {"first", "second"}]
  /\ accounts \in [RegularIds -> Infos \cup {NoDoc}]
  /\ accountsESDT \in [ESDTIds -> Infos \cup {NoDoc}]
  /\ accountsHistory \subseteq HistoryDocs
  /\ accountsESDTHistory \subseteq HistoryDocs
  /\ \A o \in late \cup arrived : /\ o.block \in Blocks /\ o.kind \in {"save", "remove"}
                                  /\ o.kind = "remove" => o.index \in ESDTIndexes
  /\ missed \subseteq [index : ESDTIndexes, id : RegularIds \cup ESDTIds, block : Blocks]
  /\ numBlocks \in Nat
  /\ failures \in 0..MaxFailures

(* A document is never replaced by an older one, whatever is repeated,     *)
(* reverted or executed late.                                              *)
NewerBalanceKept ==
  [][/\ \A id \in RegularIds : accounts[id] # NoDoc =>
          accounts'[id] # NoDoc /\ accounts'[id].timestamp >= accounts[id].timestamp
     /\ \A id \in ESDTIds : accountsESDT[id] # NoDoc /\ accountsESDT'[id] # NoDoc =>
          accountsESDT'[id].timestamp >= accountsESDT[id].timestamp]_vars

\* Every message of s was acknowledged, and no operation of its is to come.
Settled(s) == acked[s] = Len(log[s]) /\ \A o \in late : o.block.shard # s

\* A late operation of another block on document id of this index.
Disturbed(x, id, b) ==
  \E o \in arrived : /\ o.index = x
                     /\ o.block.hash # b.hash
                     /\ o.block.shard = b.shard
                     /\ o.kind = "save" => o.id = id
                     /\ o.block.timestamp >= b.timestamp

\* The revert of block r was acknowledged although its delete by query on index
\* x left the document id.
Missed(x, id, r) == [index |-> x, id |-> id, block |-> r] \in missed

\* Blocks of the chain of s that write id and have no such block behind them.
LastToWrite(s, id, Ids(_)) ==
  LET writers == {b \in Chain(s) : id \in Ids(b)}
  IN  {b \in writers : \A c \in writers : c.hash <= b.hash}

(* An account has the balance of the last block of the chain that altered  *)
(* it.  Only a reverted block with a higher timestamp can hide it: the     *)
(* index "accounts" is not touched by a revert and the newer document wins *)
(* against the block that takes its place.                                 *)
AccountsFollowChain ==
  \A s \in Shards : Settled(s) => \A id \in RegularIds :
    LET Ids(b) == DOMAIN PrepareRegularAccountsMap(b) IN
    \A b \in LastToWrite(s, id, Ids) :
      \/ \E r \in Reverted(s) : id \in Ids(r) /\ r.timestamp > b.timestamp
      \/ Disturbed("accounts", id, b)
      \/ /\ accounts[id] # NoDoc
         /\ accounts[id].balance = b.altered[id[1]].balance
         /\ accounts[id].timestamp = b.timestamp

(* An ESDT balance is that of the last block of the chain that changed it, *)
(* and a zero balance has no document.  A block behind it that was         *)
(* reverted takes the document away; a document with a higher timestamp    *)
(* that the revert of its block left behind hides the balance.  A late     *)
(* operation that is older does no harm to a balance, but creates a        *)
(* deleted document again.  frozen is shown at least when it is set.       *)
ESDTFollowsChain ==
  \A s \in Shards : Settled(s) => \A id \in ESDTIds :
    \A b \in LastToWrite(s, id, ESDTIdsOf) :
      LET info == PrepareAccountsMapESDT(b)[id]
          doc  == accountsESDT[id]
      IN  \/ \E r \in Reverted(s) : id \in ESDTIdsOf(r) /\ r.hash > b.hash
          \/ \E r \in Reverted(s) : r.timestamp > b.timestamp /\ Missed("accountsesdt", id, r)
          \/ Disturbed("accountsesdt", id, b)
          \/ /\ info.balance # 0
             /\ doc # NoDoc
             /\ doc.balance = info.balance /\ doc.timestamp = b.timestamp
             /\ info.frozen => doc.frozen
          \/ info.balance = 0 /\ doc = NoDoc
          \/ /\ info.balance = 0
             /\ \E o \in arrived : /\ o.kind = "save" /\ o.index = "accountsesdt"
                                   /\ o.id = id
                                   /\ o.block.timestamp = doc.timestamp

(* The history of ESDT balances has an entry for every change in the chain *)
(* and none for a reverted block, unless a late operation has written it,  *)
(* a block of the chain has taken its timestamp or the delete by query of  *)
(* the revert left it.                                                     *)
ESDTHistoryFollowsChain ==
  \A s \in Shards : Settled(s) =>
    /\ \A b \in Chain(s) :
         \/ PrepareAccountsHistory(PrepareAccountsMapESDT(b)) \subseteq accountsESDTHistory
         \/ \E id \in ESDTIds : Disturbed("accountsesdthistory", id, b)
    /\ \A r \in Reverted(s) : \A d \in accountsESDTHistory :
         d.shard = s /\ d.timestamp = r.timestamp =>
           \/ \E o \in arrived : /\ o.index = "accountsesdthistory" /\ o.kind = "save"
                                 /\ o.id = d.id /\ o.block.timestamp = d.timestamp
           \/ \E b \in Chain(s) : b.timestamp = r.timestamp
           \/ \E q \in Reverted(s) : /\ q.timestamp = r.timestamp
                                     /\ Missed("accountsesdthistory", d.id, q)

(* What the comment on elasticProcessor.SaveAccounts says: it "will        *)
(* prepare and save information about provided accounts in elasticsearch   *)
(* server".                                                                *)
ProvidedAccountsSaved ==
  \A s \in Shards : \A i \in 1..acked[s] : log[s][i].topic = "SaveAccounts" =>
    \A a \in DOMAIN log[s][i].block.altered : accounts[<<a, NoToken>>] # NoDoc
=============================================================================
