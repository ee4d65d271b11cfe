------------------------ MODULE AccountsIndex_proofs ------------------------
(***************************************************************************)
(* AccountsIndex keeps its types, and no document of an account is ever    *)
(* replaced by an older one, for any shards, accounts, tokens, altered     *)
(* accounts, timestamps and number of failures, late operations and        *)
(* reverts; and the indexes follow the chains of the observers.            *)
(*                                                                         *)
(* The second part has two layers.  The messages of an observer are seen   *)
(* as sets of blocks: saved, reverted, being saved, being reverted;        *)
(* DeliveryInv says how those sets are related.  On top of it there is one *)
(* invariant per index, about the documents of the blocks that are         *)
(* handled.                                                                *)
(***************************************************************************)
EXTENDS AccountsIndex, TLAPS

Docs == Infos \cup {NoDoc}

(* The altered accounts of a block are accounts, with balances that are    *)
(* numbers.                                                                *)
LEMMA AlteredType ==
  ASSUME NEW b \in Blocks, NEW a \in DOMAIN b.altered
  PROVE  a \in Accounts /\ b.altered[a] \in AlteredAccounts
<1>1. PICK s \in Shards : b.altered \in Contents[s] \cup Provided[s]
  BY DEF Blocks, AlteredSets
<1> QED
  BY <1>1, AlteredAssumption

(* What PrepareRegularAccountsMap and PrepareAccountsMapESDT make of a     *)
(* block.                                                                  *)
LEMMA RegularMap ==
  ASSUME NEW b \in Blocks
  PROVE  /\ DOMAIN PrepareRegularAccountsMap(b) \subseteq RegularIds
         /\ \A id \in DOMAIN PrepareRegularAccountsMap(b) :
              PrepareRegularAccountsMap(b)[id] \in Infos
<1> DEFINE ids == {<<a, NoToken>> : a \in RegularAccounts(b)}
<1>1. DOMAIN PrepareRegularAccountsMap(b) = ids
  BY DEF PrepareRegularAccountsMap
<1>2. ASSUME NEW id \in ids
      PROVE  id \in RegularIds /\ PrepareRegularAccountsMap(b)[id] \in Infos
  <2>1. PICK a \in RegularAccounts(b) : id = <<a, NoToken>>
    OBVIOUS
  <2>2. a \in Accounts /\ b.altered[a] \in AlteredAccounts
    BY <2>1, AlteredType DEF RegularAccounts
  <2>3. PrepareRegularAccountsMap(b)[id] =
          [balance |-> b.altered[a].balance, frozen |-> FALSE,
           timestamp |-> b.timestamp, shard |-> b.shard]
    BY <2>1 DEF PrepareRegularAccountsMap
  <2>4. b.altered[a].balance \in Nat
    BY <2>2 DEF AlteredAccounts
  <2>5. b.timestamp \in Nat /\ b.shard \in Shards
    BY DEF Blocks
  <2> QED
    BY <2>1, <2>2, <2>3, <2>4, <2>5 DEF RegularIds, Infos
<1> QED
  BY <1>1, <1>2

(* The same for the ESDT balances of a block.                              *)
LEMMA ESDTMap ==
  ASSUME NEW b \in Blocks
  PROVE  /\ DOMAIN PrepareAccountsMapESDT(b) \subseteq ESDTIds
         /\ \A id \in DOMAIN PrepareAccountsMapESDT(b) :
              PrepareAccountsMapESDT(b)[id] \in Infos
<1>1. DOMAIN PrepareAccountsMapESDT(b) = ESDTIdsOf(b)
  BY DEF PrepareAccountsMapESDT
<1>2. ASSUME NEW id \in ESDTIdsOf(b)
      PROVE  id \in ESDTIds /\ PrepareAccountsMapESDT(b)[id] \in Infos
  <2> DEFINE info == CHOOSE t \in b.altered[id[1]].tokens : t.token = id[2]
  <2>1. id \in ESDTIds /\ id[1] \in DOMAIN b.altered
    BY DEF ESDTIdsOf
  <2>2. b.altered[id[1]] \in AlteredAccounts
    BY <2>1, AlteredType
  <2>3. info \in b.altered[id[1]].tokens
    BY DEF ESDTIdsOf
  <2>4. info \in [token : Tokens, balance : Nat, frozen : BOOLEAN]
    BY <2>2, <2>3 DEF AlteredAccounts
  <2>5. PrepareAccountsMapESDT(b)[id] =
          [balance |-> info.balance, frozen |-> info.frozen,
           timestamp |-> b.timestamp, shard |-> b.shard]
    BY DEF PrepareAccountsMapESDT
  <2>6. b.timestamp \in Nat /\ b.shard \in Shards
    BY DEF Blocks
  <2> QED
    BY <2>1, <2>4, <2>5, <2>6 DEF Infos
<1> QED
  BY <1>1, <1>2

(* The history entries of such a map are well-formed.                      *)
LEMMA HistoryType ==
  ASSUME NEW map, DOMAIN map \subseteq RegularIds \cup ESDTIds,
         \A id \in DOMAIN map : map[id] \in Infos
  PROVE  PrepareAccountsHistory(map) \subseteq HistoryDocs
BY DEF PrepareAccountsHistory, HistoryDocs, Infos

(* What the script of an update makes of the stored document: it keeps the *)
(* type, deletes nothing and leaves nothing older.                         *)
LEMMA InfoScript ==
  ASSUME NEW stored \in Docs, NEW info \in Infos
  PROVE  LET doc == prepareSerializedAccountInfo(stored, info)
         IN  /\ doc \in Docs
             /\ doc # NoDoc
             /\ stored # NoDoc => doc.timestamp >= stored.timestamp
<1> DEFINE doc == prepareSerializedAccountInfo(stored, info)
<1>1. stored # NoDoc => stored.timestamp \in Nat
  BY DEF Docs, Infos
<1>2. info # NoDoc /\ info.timestamp \in Nat
  BY NoDocAssumption DEF Infos
<1>3. CASE stored = NoDoc
  BY <1>2, <1>3 DEF prepareSerializedAccountInfo, Docs
<1>4. CASE stored # NoDoc /\ stored.timestamp <= info.timestamp
  <2>1. doc = [info EXCEPT !.frozen = @ \/ stored.frozen]
    BY <1>4 DEF prepareSerializedAccountInfo
  <2>2. stored \in Infos
    BY <1>4 DEF Docs
  <2>3. doc \in Infos /\ doc.timestamp = info.timestamp
    BY <2>1, <2>2 DEF Infos
  <2> QED
    BY <2>3, <1>1, <1>2, <1>4, NoDocAssumption DEF Docs
<1>5. CASE stored # NoDoc /\ ~(stored.timestamp <= info.timestamp)
  BY <1>1, <1>5 DEF prepareSerializedAccountInfo
<1> QED
  BY <1>3, <1>4, <1>5

(* The same with the deletion of an ESDT document.                         *)
LEMMA Script ==
  ASSUME NEW stored \in Docs, NEW info \in Infos, NEW isESDT \in BOOLEAN
  PROVE  LET doc == prepareSerializedAccount(stored, info, isESDT)
         IN  /\ doc \in Docs
             /\ stored # NoDoc /\ doc # NoDoc => doc.timestamp >= stored.timestamp
<1>1. prepareDeleteAccountInfo(stored, info.timestamp) \in {stored, NoDoc}
  BY DEF prepareDeleteAccountInfo
<1>2. stored # NoDoc => stored.timestamp \in Nat
  BY DEF Docs, Infos
<1>3. CASE isESDT /\ ~notZeroBalance(info.balance)
  BY <1>1, <1>2, <1>3 DEF prepareSerializedAccount, Docs
<1>4. CASE ~(isESDT /\ ~notZeroBalance(info.balance))
  <2>1. prepareSerializedAccount(stored, info, isESDT) =
          prepareSerializedAccountInfo(stored, info)
    BY <1>4 DEF prepareSerializedAccount
  <2> QED
    BY <2>1, InfoScript
<1> QED
  BY <1>3, <1>4

(* The same for a whole index.                                             *)
LEMMA IndexScript ==
  ASSUME NEW D, NEW docs \in [D -> Docs], NEW map, NEW ids, NEW isESDT \in BOOLEAN,
         \A id \in DOMAIN map : map[id] \in Infos
  PROVE  LET new == IndexAccounts(docs, map, ids, isESDT)
         IN  /\ new \in [D -> Docs]
             /\ \A id \in D : docs[id] # NoDoc /\ new[id] # NoDoc =>
                  new[id].timestamp >= docs[id].timestamp
<1> DEFINE new == IndexAccounts(docs, map, ids, isESDT)
<1>1. DOMAIN docs = D
  OBVIOUS
<1>2. new = [id \in D |-> IF id \in ids \cap DOMAIN map
                           THEN prepareSerializedAccount(docs[id], map[id], isESDT)
                           ELSE docs[id]]
  BY <1>1 DEF IndexAccounts
<1>3. ASSUME NEW id \in D
      PROVE  /\ new[id] \in Docs
             /\ docs[id] # NoDoc /\ new[id] # NoDoc =>
                  new[id].timestamp >= docs[id].timestamp
  <2>1. CASE id \in ids \cap DOMAIN map
    <3>1. new[id] = prepareSerializedAccount(docs[id], map[id], isESDT)
      BY <1>2, <2>1
    <3>2. docs[id] \in Docs /\ map[id] \in Infos
      BY <2>1
    <3> QED
      BY <3>1, <3>2, Script
  <2>2. CASE id \notin ids \cap DOMAIN map
    <3>1. new[id] = docs[id]
      BY <1>2, <2>2
    <3>2. docs[id] # NoDoc => docs[id].timestamp \in Nat
      BY DEF Docs, Infos
    <3> QED
      BY <3>1, <3>2
  <2> QED
    BY <2>1, <2>2
<1> QED
  BY <1>2, <1>3

(* No document of a regular account is deleted.                            *)
LEMMA RegularKept ==
  ASSUME NEW D, NEW docs \in [D -> Docs], NEW map, NEW ids,
         \A id \in DOMAIN map : map[id] \in Infos,
         NEW id \in D, docs[id] # NoDoc
  PROVE  IndexAccounts(docs, map, ids, FALSE)[id] # NoDoc
<1> DEFINE doc == IndexAccounts(docs, map, ids, FALSE)[id]
<1>1. DOMAIN docs = D
  OBVIOUS
<1>2. CASE id \in ids \cap DOMAIN map
  <2>1. doc = prepareSerializedAccount(docs[id], map[id], FALSE)
    BY <1>1, <1>2 DEF IndexAccounts
  <2>2. doc = prepareSerializedAccountInfo(docs[id], map[id])
    BY <2>1 DEF prepareSerializedAccount
  <2>3. map[id] \in Infos
    BY <1>2
  <2> QED
    BY <2>2, <2>3, InfoScript
<1>3. CASE id \notin ids \cap DOMAIN map
  BY <1>1, <1>3 DEF IndexAccounts
<1> QED
  BY <1>2, <1>3
-----------------------------------------------------------------------------
\* The types of the indexes, and that a step keeps the newer documents.
IndexTypes ==
  /\ accounts \in [RegularIds -> Docs]
  /\ accountsESDT \in [ESDTIds -> Docs]
  /\ accountsHistory \subseteq HistoryDocs
  /\ accountsESDTHistory \subseteq HistoryDocs
  /\ missed \subseteq [index : ESDTIndexes, id : RegularIds \cup ESDTIds, block : Blocks]

KeepsNewer ==
  /\ \A id \in RegularIds : accounts[id] # NoDoc =>
       accounts'[id] # NoDoc /\ accounts'[id].timestamp >= accounts[id].timestamp
  /\ \A id \in ESDTIds : accountsESDT[id] # NoDoc /\ accountsESDT'[id] # NoDoc =>
       accountsESDT'[id].timestamp >= accountsESDT[id].timestamp

(* A step that leaves the indexes alone keeps what they promise.           *)
LEMMA Unchanged ==
  ASSUME IndexTypes, UNCHANGED indexes
  PROVE  IndexTypes' /\ KeepsNewer
<1>1. \A id \in RegularIds : accounts[id] # NoDoc => accounts[id].timestamp \in Nat
  BY DEF IndexTypes, Docs, Infos
<1>2. \A id \in ESDTIds : accountsESDT[id] # NoDoc => accountsESDT[id].timestamp \in Nat
  BY DEF IndexTypes, Docs, Infos
<1> QED
  BY <1>1, <1>2 DEF IndexTypes, KeepsNewer, indexes

(* Any part of the bulk request of a block, executed in time or late.      *)
LEMMA SaveKeeps ==
  ASSUME IndexTypes, NEW b \in Blocks, NEW ops, ExecuteSave(b, ops)
  PROVE  IndexTypes' /\ KeepsNewer
<1> DEFINE regular == PrepareRegularAccountsMap(b)
           esdt    == PrepareAccountsMapESDT(b)
<1>1. /\ DOMAIN regular \subseteq RegularIds
      /\ \A id \in DOMAIN regular : regular[id] \in Infos
  BY RegularMap
<1>2. /\ DOMAIN esdt \subseteq ESDTIds
      /\ \A id \in DOMAIN esdt : esdt[id] \in Infos
  BY ESDTMap
<1>3. PrepareAccountsHistory(regular) \subseteq HistoryDocs
  BY <1>1, HistoryType
<1>4. PrepareAccountsHistory(esdt) \subseteq HistoryDocs
  BY <1>2, HistoryType
<1>5. /\ accounts' \in [RegularIds -> Docs]
      /\ \A id \in RegularIds : accounts[id] # NoDoc =>
           accounts'[id] # NoDoc /\ accounts'[id].timestamp >= accounts[id].timestamp
  <2>1. accounts' = IndexAccounts(accounts, regular, IdsOf(ops, "accounts"), FALSE)
    BY DEF ExecuteSave
  <2>2. accounts \in [RegularIds -> Docs]
    BY DEF IndexTypes
  <2> HIDE DEF regular
  <2>3. /\ accounts' \in [RegularIds -> Docs]
        /\ \A id \in RegularIds : accounts[id] # NoDoc /\ accounts'[id] # NoDoc =>
             accounts'[id].timestamp >= accounts[id].timestamp
    BY <1>1, <2>1, <2>2, IndexScript
  <2>4. \A id \in RegularIds : accounts[id] # NoDoc => accounts'[id] # NoDoc
    BY <1>1, <2>1, <2>2, RegularKept
  <2> QED
    BY <2>3, <2>4
<1>6. /\ accountsESDT' \in [ESDTIds -> Docs]
      /\ \A id \in ESDTIds : accountsESDT[id] # NoDoc /\ accountsESDT'[id] # NoDoc =>
           accountsESDT'[id].timestamp >= accountsESDT[id].timestamp
  <2>1. accountsESDT' = IndexAccounts(accountsESDT, esdt, IdsOf(ops, "accountsesdt"), TRUE)
    BY DEF ExecuteSave
  <2>2. accountsESDT \in [ESDTIds -> Docs]
    BY DEF IndexTypes
  <2> HIDE DEF esdt
  <2> QED
    BY <1>2, <2>1, <2>2, IndexScript
<1>7. accountsHistory' \subseteq HistoryDocs /\ accountsESDTHistory' \subseteq HistoryDocs
  BY <1>3, <1>4 DEF ExecuteSave, IndexHistory, IndexTypes
<1>8. missed' = missed
  BY DEF ExecuteSave
<1> QED
  BY <1>5, <1>6, <1>7, <1>8 DEF IndexTypes, KeepsNewer

(* A delete by query of RemoveAccountsESDT only takes documents away.      *)
LEMMA RemoveKeeps ==
  ASSUME IndexTypes, NEW o, o.index \in ESDTIndexes, o.block \in Blocks, ExecuteRemove(o)
  PROVE  IndexTypes' /\ KeepsNewer
<1>1. \A id \in RegularIds : accounts[id] # NoDoc => accounts[id].timestamp \in Nat
  BY DEF IndexTypes, Docs, Infos
<1>2. \A id \in ESDTIds : accountsESDT[id] # NoDoc => accountsESDT[id].timestamp \in Nat
  BY DEF IndexTypes, Docs, Infos
<1>3. PICK left \in SUBSET Found(o) :
        /\ Miss(o, left)
        /\ accountsESDT' = [id \in ESDTIds |->
             IF o.index = "accountsesdt" /\ id \in Found(o) \ left THEN NoDoc ELSE accountsESDT[id]]
        /\ accountsESDTHistory' \subseteq accountsESDTHistory
        /\ accounts' = accounts /\ accountsHistory' = accountsHistory
  BY DEF ExecuteRemove
<1>4. /\ accountsESDT' \in [ESDTIds -> Docs]
      /\ \A id \in ESDTIds : accountsESDT'[id] \in {accountsESDT[id], NoDoc}
  BY <1>3 DEF IndexTypes, Docs
<1>5. Found(o) \subseteq RegularIds \cup ESDTIds
  BY DEF Found, IndexTypes, HistoryDocs
<1>6. missed' \subseteq [index : ESDTIndexes, id : RegularIds \cup ESDTIds, block : Blocks]
  BY <1>3, <1>5 DEF Miss, IndexTypes
<1> QED
  BY <1>1, <1>2, <1>3, <1>4, <1>6 DEF IndexTypes, KeepsNewer
-----------------------------------------------------------------------------
OperationType(o) ==
  /\ o.block \in Blocks /\ o.kind \in {"save", "remove"}
  /\ o.kind = "remove" => o.index \in ESDTIndexes

\* TypeOK without the indexes.
DeliveryTypes ==
  /\ log \in [Shards -> Seq(Messages)]
  /\ acked \in [Shards -> Nat]
  /\ \A s \in Shards : acked[s] <= Len(log[s])
  /\ pc \in [Shards -> {"first", "second"}]
  /\ \A o \in late \cup arrived : OperationType(o)
  /\ numBlocks \in Nat
  /\ failures \in 0..MaxFailures

(* TypeOK is the types of the indexes and those of the delivery.           *)
LEMMA Split == TypeOK <=> IndexTypes /\ DeliveryTypes
BY DEF TypeOK, IndexTypes, DeliveryTypes, OperationType, Docs

(* The message that a handler works on has a block.                        *)
LEMMA PendingMessage ==
  ASSUME DeliveryTypes, NEW s \in Shards, Pending(s)
  PROVE  Message(s) \in Messages /\ Message(s).block \in Blocks
<1>1. acked[s] + 1 \in 1..Len(log[s]) /\ log[s] \in Seq(Messages)
  BY DEF DeliveryTypes, Pending
<1>2. Message(s) \in Messages
  BY <1>1 DEF Message
<1> QED
  BY <1>2 DEF Messages

(* The observer adds a message.                                            *)
LEMMA PushTypes ==
  ASSUME DeliveryTypes, NEW s \in Shards, NEW topic \in Topics, NEW b \in Blocks,
         Push(s, topic, b), UNCHANGED <<acked, pc, late, arrived, failures>>,
         numBlocks' \in Nat
  PROVE  DeliveryTypes'
<1> DEFINE m == [topic |-> topic, block |-> b]
<1>1. m \in Messages
  BY DEF Messages
<1>2. log' = [log EXCEPT ![s] = Append(@, m)]
  BY DEF Push
<1>3. log' \in [Shards -> Seq(Messages)]
  BY <1>1, <1>2 DEF DeliveryTypes
<1>4. \A r \in Shards : acked[r] <= Len(log'[r])
  BY <1>1, <1>2 DEF DeliveryTypes
<1> QED
  BY <1>3, <1>4 DEF DeliveryTypes

(* The handler returned nil: its message was one of the log.               *)
LEMMA AcknowledgeTypes ==
  ASSUME DeliveryTypes, NEW s \in Shards, Pending(s), Acknowledge(s)
  PROVE  DeliveryTypes'
<1>1. Len(log[s]) \in Nat /\ acked[s] + 1 <= Len(log[s])
  BY DEF DeliveryTypes, Pending
<1> QED
  BY <1>1 DEF DeliveryTypes, Acknowledge

(* The handler returned an error and left operations behind.               *)
LEMMA FailTypes ==
  ASSUME DeliveryTypes, NEW s \in Shards, NEW pending, Fail(s, pending),
         \A o \in pending : OperationType(o)
  PROVE  DeliveryTypes'
<1>1. failures' \in 0..MaxFailures
  BY BoundsAssumption DEF DeliveryTypes, Fail
<1> QED
  BY <1>1 DEF DeliveryTypes, Fail

(* The operations of a block refer to it.                                  *)
LEMMA SaveOpsTypes ==
  ASSUME NEW b \in Blocks, NEW o \in SaveOps(b)
  PROVE  OperationType(o)
BY DEF SaveOps, OperationType

(* Every step keeps the types and the newer documents.                     *)
LEMMA NextKeeps ==
  ASSUME TypeOK, [Next]_vars
  PROVE  TypeOK' /\ KeepsNewer
<1> SUFFICES IndexTypes' /\ KeepsNewer /\ DeliveryTypes'
  BY DEF TypeOK, IndexTypes, DeliveryTypes, OperationType, Docs
<1> USE Split
<1>0. IndexTypes /\ DeliveryTypes
  OBVIOUS
<1>1. CASE UNCHANGED vars
  <2>1. UNCHANGED indexes
    BY <1>1 DEF vars
  <2>2. DeliveryTypes'
    BY <1>0, <1>1 DEF vars, DeliveryTypes
  <2> QED
    BY <1>0, <2>1, <2>2, Unchanged
<1>2. ASSUME NEW s \in Shards, NEW altered \in Contents[s], NEW timestamp \in 1..MaxTime,
             Commit(s, altered, timestamp)
      PROVE  IndexTypes' /\ KeepsNewer /\ DeliveryTypes'
  <2>1. NewBlock(s, altered, timestamp) \in Blocks /\ numBlocks + 1 \in Nat
    BY <1>0 DEF NewBlock, Blocks, AlteredSets, DeliveryTypes
  <2>2. DeliveryTypes'
    BY <1>0, <1>2, <2>1, PushTypes DEF Commit, Topics
  <2> QED
    BY <1>0, <1>2, <2>2, Unchanged DEF Commit
<1>3. ASSUME NEW s \in Shards, NEW altered \in Provided[s], SendAccounts(s, altered)
      PROVE  IndexTypes' /\ KeepsNewer /\ DeliveryTypes'
  <2>1. NewBlock(s, altered, 1) \in Blocks /\ numBlocks + 1 \in Nat
    BY <1>0 DEF NewBlock, Blocks, AlteredSets, DeliveryTypes
  <2>2. DeliveryTypes'
    BY <1>0, <1>3, <2>1, PushTypes DEF SendAccounts, Topics
  <2> QED
    BY <1>0, <1>3, <2>2, Unchanged DEF SendAccounts
<1>4. ASSUME NEW s \in Shards, Rollback(s)
      PROVE  IndexTypes' /\ KeepsNewer /\ DeliveryTypes'
  <2>1. PICK b \in Chain(s) :
          /\ Push(s, "RevertIndexedBlock", b)
          /\ UNCHANGED <<acked, pc, indexes, late, arrived, numBlocks, failures>>
    BY <1>4 DEF Rollback
  <2>2. b \in Blocks
    <3>1. PICK i \in DOMAIN log[s] : b = log[s][i].block
      BY <2>1 DEF Chain
    <3>2. log[s] \in Seq(Messages)
      BY <1>0 DEF DeliveryTypes
    <3>3. log[s][i] \in Messages
      BY <3>1, <3>2
    <3> QED
      BY <3>1, <3>3 DEF Messages
  <2>3. DeliveryTypes'
    <3>1. numBlocks' \in Nat
      BY <1>0, <2>1 DEF DeliveryTypes
    <3> QED
      BY <1>0, <2>1, <2>2, <3>1, PushTypes DEF Topics
  <2> QED
    BY <1>0, <2>1, <2>3, Unchanged
<1>5. ASSUME NEW s \in Shards, SaveBlock(s)
      PROVE  IndexTypes' /\ KeepsNewer /\ DeliveryTypes'
  <2> DEFINE b == Message(s).block
  <2>1. Pending(s)
    BY <1>5 DEF SaveBlock, At
  <2>2. b \in Blocks
    BY <1>0, <2>1, PendingMessage
  <2>3. CASE ExecuteSave(b, SaveOps(b)) /\ Acknowledge(s)
    BY <1>0, <2>1, <2>2, <2>3, SaveKeeps, AcknowledgeTypes
  <2>4. ASSUME NEW done \in SUBSET SaveOps(b), NEW pending \in SUBSET (SaveOps(b) \ done),
               Fail(s, pending), ExecuteSave(b, done)
        PROVE  IndexTypes' /\ KeepsNewer /\ DeliveryTypes'
    <3>1. \A o \in pending : OperationType(o)
      BY <2>2, SaveOpsTypes
    <3>2. DeliveryTypes'
      BY <1>0, <2>4, <3>1, FailTypes
    <3> QED
      BY <1>0, <2>2, <2>4, <3>2, SaveKeeps
  <2> QED
    BY <1>5, <2>3, <2>4 DEF SaveBlock
<1>6. ASSUME NEW s \in Shards, NEW step, NEW x \in ESDTIndexes, RemoveAccountsESDT(s, step, x)
      PROVE  IndexTypes' /\ KeepsNewer /\ DeliveryTypes'
  <2> DEFINE o == RemoveOp(x, Message(s).block)
  <2>1. Pending(s)
    BY <1>6 DEF RemoveAccountsESDT, At
  <2>2. o.block \in Blocks /\ o.index \in ESDTIndexes /\ OperationType(o)
    BY <1>0, <2>1, PendingMessage DEF RemoveOp, OperationType
  <2>3. CASE /\ ExecuteRemove(o)
             /\ pc' = [pc EXCEPT ![s] = "second"]
             /\ UNCHANGED <<log, acked, late, arrived, numBlocks, failures>>
    <3>1. DeliveryTypes'
      BY <1>0, <2>3 DEF DeliveryTypes
    <3> QED
      BY <1>0, <2>2, <2>3, <3>1, RemoveKeeps
  <2>4. CASE ExecuteRemove(o) /\ Acknowledge(s)
    BY <1>0, <2>1, <2>2, <2>4, RemoveKeeps, AcknowledgeTypes
  <2>5. CASE Fail(s, {}) /\ ExecuteRemove(o)
    BY <1>0, <2>2, <2>5, RemoveKeeps, FailTypes
  <2>6. CASE UNCHANGED indexes /\ \E pending \in SUBSET {o} : Fail(s, pending)
    <3>1. PICK pending \in SUBSET {o} : Fail(s, pending)
      BY <2>6
    <3>2. \A p \in pending : OperationType(p)
      BY <2>2
    <3>3. DeliveryTypes'
      BY <1>0, <3>1, <3>2, FailTypes
    <3> QED
      BY <1>0, <2>6, <3>3, Unchanged
  <2> QED
    BY <1>6, <2>3, <2>4, <2>5, <2>6 DEF RemoveAccountsESDT
<1>7. ASSUME NEW s \in Shards, SaveAccounts(s)
      PROVE  IndexTypes' /\ KeepsNewer /\ DeliveryTypes'
  BY <1>0, <1>7, Unchanged, AcknowledgeTypes DEF SaveAccounts, At
<1>8. ASSUME NEW o \in late, LateOperation(o)
      PROVE  IndexTypes' /\ KeepsNewer /\ DeliveryTypes'
  <2>1. o.block \in Blocks /\ OperationType(o)
    BY <1>0 DEF DeliveryTypes, OperationType
  <2>2. DeliveryTypes'
    BY <1>0, <1>8 DEF LateOperation, DeliveryTypes
  <2>3. ExecuteSave(o.block, {o}) \/ (ExecuteRemove(o) /\ o.index \in ESDTIndexes)
    BY <1>8, <2>1 DEF LateOperation, OperationType
  <2> QED
    BY <1>0, <2>1, <2>2, <2>3, SaveKeeps, RemoveKeeps
<1> QED
  BY <1>1, <1>2, <1>3, <1>4, <1>5, <1>6, <1>7, <1>8 DEF Next, ESDTIndexes

(* The empty indexes are well-formed.                                      *)
LEMMA InitTypes == Init => TypeOK
BY BoundsAssumption DEF Init, TypeOK, RegularIds, ESDTIds

(* The variables keep their types, whatever the blocks alter and whatever  *)
(* is repeated, reverted or late.                                          *)
THEOREM TypeCorrect == Spec => []TypeOK
<1>1. TypeOK /\ [Next]_vars => TypeOK'
  BY NextKeeps
<1> QED
  BY <1>1, InitTypes, PTL DEF Spec

(* A document of an account is never replaced by an older one: the         *)
(* comparison of timestamps in the scripts is enough against repeated and  *)
(* late requests and against blocks that take the place of reverted ones.  *)
THEOREM NewerBalanceKeptHolds == Spec => NewerBalanceKept
<1>1. TypeOK /\ [Next]_vars => TypeOK'
  BY NextKeeps
<1>2. TypeOK /\ [Next]_vars => [KeepsNewer]_vars
  BY NextKeeps
<1>3. [KeepsNewer]_vars =>
        [/\ \A id \in RegularIds : accounts[id] # NoDoc =>
              accounts'[id] # NoDoc /\ accounts'[id].timestamp >= accounts[id].timestamp
         /\ \A id \in ESDTIds : accountsESDT[id] # NoDoc /\ accountsESDT'[id] # NoDoc =>
              accountsESDT'[id].timestamp >= accountsESDT[id].timestamp]_vars
  BY DEF KeepsNewer
<1> QED
  BY <1>1, <1>2, <1>3, InitTypes, PTL DEF Spec, NewerBalanceKept
-----------------------------------------------------------------------------
(***************************************************************************)
(* The indexes follow the chains.                                          *)
(***************************************************************************)
\* The blocks of the messages of s with this topic, and of the ones among
\* them that are not acknowledged.
Sent(s, topic) ==
  {log[s][i].block : i \in {k \in DOMAIN log[s] : log[s][k].topic = topic}}
Current(s, topic) ==
  {log[s][i].block : i \in {k \in DOMAIN log[s] : k > acked[s] /\ log[s][k].topic = topic}}

Saved(s) == Sent(s, "SaveBlock")
Saving(s) == Current(s, "SaveBlock")
Reverting(s) == Current(s, "RevertIndexedBlock")
Handled(s) == Chain(s) \ Saving(s)
Gone(s) == Reverted(s) \ Reverting(s)

\* A block of s was produced for s, and its hash is its own.
SavedInv(s) ==
  /\ \A b \in Saved(s) : /\ b.shard = s /\ b.altered \in Contents[s]
                         /\ b.hash \in 1..numBlocks
  /\ \A b, c \in Saved(s) : b.hash = c.hash => b = c
  /\ Reverted(s) \subseteq Saved(s)

\* The chain grows in time; the block that is saved is its last one, the one
\* that is reverted was.
ChainInv(s) ==
  /\ \A b, c \in Chain(s) : b.hash < c.hash => b.timestamp < c.timestamp
  /\ \A p \in Saving(s) : p \in Chain(s) /\ \A c \in Saved(s) : c.hash <= p.hash
  /\ \A r \in Reverting(s) : r \in Reverted(s) /\ \A b \in Chain(s) : b.timestamp < r.timestamp
  /\ Len(log[s]) <= acked[s] + 1
  /\ pc[s] = "second" => Reverting(s) # {}

\* An operation that is or was late belongs to a block that was sent.
OperationInv(o) ==
  /\ o.block \in Saved(o.block.shard)
  /\ \/ o.kind = "save" /\ o \in SaveOps(o.block)
     \/ /\ o.kind = "remove" /\ o.block \in Reverted(o.block.shard)
        /\ o.index \in ESDTIndexes

DeliveryInv ==
  /\ \A s \in Shards : SavedInv(s) /\ ChainInv(s)
  /\ \A o \in late \cup arrived : OperationInv(o)
-----------------------------------------------------------------------------
RegularIdsOf(b) == DOMAIN PrepareRegularAccountsMap(b)

\* The document of a handled block is there unless a newer one took its place.
RegularHandled(id, b) ==
  /\ accounts[id] # NoDoc
  /\ accounts[id].timestamp >= b.timestamp
  /\ accounts[id].timestamp = b.timestamp =>
       \/ accounts[id].balance = b.altered[id[1]].balance
       \/ Disturbed("accounts", id, b)

\* A document of s was written by a block of s.
RegularFrom(s, id) ==
  \E c \in Saved(s) : id \in RegularIdsOf(c) /\ accounts[id].timestamp = c.timestamp

AccountsInv ==
  /\ \A s \in Shards : \A b \in Handled(s) : \A id \in RegularIdsOf(b) : RegularHandled(id, b)
  /\ \A id \in RegularIds : accounts[id] # NoDoc => RegularFrom(ShardOf[id[1]], id)

\* A late operation has written document id of this index at this timestamp.
WrittenLate(x, id, timestamp) ==
  \E o \in arrived : /\ o.kind = "save" /\ o.index = x /\ o.id = id
                     /\ o.block.timestamp = timestamp

\* The delete by query of an acknowledged revert has left document id, which is
\* newer than block b.
Hidden(id, b) ==
  \E r \in Gone(b.shard) : r.timestamp > b.timestamp /\ Missed("accountsesdt", id, r)

\* The delete by query of a reverted block has left document id with this
\* timestamp.
Left(x, s, id, timestamp) ==
  \E r \in Reverted(s) : r.timestamp = timestamp /\ Missed(x, id, r)

\* What the index has of the balance that block b gave to id.
ESDTHandled(id, b) ==
  LET info == PrepareAccountsMapESDT(b)[id]
      doc  == accountsESDT[id]
  IN  \/ Disturbed("accountsesdt", id, b)
      \/ Hidden(id, b)
      \/ /\ info.balance # 0
         /\ doc # NoDoc
         /\ doc.balance = info.balance /\ doc.timestamp = b.timestamp
         /\ info.frozen => doc.frozen
      \/ info.balance = 0 /\ doc = NoDoc
      \/ info.balance = 0 /\ doc # NoDoc /\ WrittenLate("accountsesdt", id, doc.timestamp)

LastSaved(s, id, b) == \A c \in Saved(s) : id \in ESDTIdsOf(c) => c.hash <= b.hash

\* Whose document it is: a block of the chain, one whose document the revert
\* has yet to remove or has left, or a late operation.
ESDTFrom(s, id) ==
  /\ accountsESDT[id].shard = s
  /\ \E c \in Saved(s) :
       /\ id \in ESDTIdsOf(c) /\ c.timestamp = accountsESDT[id].timestamp
       /\ \/ c \in Chain(s)
          \/ c \in Reverting(s) /\ pc[s] = "first"
          \/ WrittenLate("accountsesdt", id, c.timestamp)
          \/ Left("accountsesdt", s, id, c.timestamp)

ESDTInv ==
  /\ \A s \in Shards : \A b \in Handled(s) : \A id \in ESDTIdsOf(b) :
       LastSaved(s, id, b) => ESDTHandled(id, b)
  /\ \A id \in ESDTIds : accountsESDT[id] # NoDoc => ESDTFrom(ShardOf[id[1]], id)

HistoryOf(b) == PrepareAccountsHistory(PrepareAccountsMapESDT(b))

HistoryFrom(s, d) ==
  \/ \E c \in Chain(s) \cup Reverting(s) : c.timestamp = d.timestamp
  \/ WrittenLate("accountsesdthistory", d.id, d.timestamp)
  \/ Left("accountsesdthistory", s, d.id, d.timestamp)

HistoryInv ==
  /\ \A s \in Shards : \A b \in Handled(s) :
       \/ HistoryOf(b) \subseteq accountsESDTHistory
       \/ \E id \in ESDTIds : Disturbed("accountsesdthistory", id, b)
  /\ \A d \in accountsESDTHistory : HistoryFrom(d.shard, d)

FollowInv == DeliveryInv /\ AccountsInv /\ ESDTInv /\ HistoryInv
-----------------------------------------------------------------------------
(***************************************************************************)
(* The messages as sets of blocks.                                         *)
(***************************************************************************)

(* The chain is what was saved and has not the hash of a reverted block.   *)
LEMMA ChainSets ==
  ASSUME NEW s
  PROVE  /\ Reverted(s) = Sent(s, "RevertIndexedBlock")
         /\ Chain(s) = {b \in Saved(s) : \A r \in Reverted(s) : r.hash # b.hash}
BY DEF Reverted, Sent, Chain, Saved, IsRevert

(* The sets have blocks, and what is current was sent.                     *)
LEMMA SentTypes ==
  ASSUME DeliveryTypes, NEW s \in Shards, NEW topic
  PROVE  Sent(s, topic) \subseteq Blocks /\ Current(s, topic) \subseteq Sent(s, topic)
<1>1. log[s] \in Seq(Messages)
  BY DEF DeliveryTypes
<1>2. \A i \in DOMAIN log[s] : log[s][i].block \in Blocks
  <2>1. \A i \in DOMAIN log[s] : log[s][i] \in Messages
    BY <1>1
  <2> QED
    BY <2>1 DEF Messages
<1> QED
  BY <1>2 DEF Sent, Current

(* A new message adds its block to what was sent, and is the only one that *)
(* is not acknowledged.                                                    *)
LEMMA PushSets ==
  ASSUME DeliveryTypes, NEW s \in Shards, NEW topic \in Topics, NEW b \in Blocks,
         Push(s, topic, b), acked' = acked, NEW r \in Shards, NEW t
  PROVE  /\ Sent(r, t)' = IF r = s /\ t = topic THEN Sent(r, t) \cup {b} ELSE Sent(r, t)
         /\ Current(r, t)' = IF r # s THEN Current(r, t) ELSE IF t = topic THEN {b} ELSE {}
         /\ Len(log'[r]) <= acked[r] + 1 \/ (r # s /\ log'[r] = log[r])
         /\ r = s => Current(r, t) = {}
<1> DEFINE m == [topic |-> topic, block |-> b]
<1>1. m \in Messages /\ m.topic = topic /\ m.block = b
  BY DEF Messages
<1>2. /\ log \in [Shards -> Seq(Messages)] /\ acked[s] \in Nat
      /\ log' = [log EXCEPT ![s] = Append(@, m)]
      /\ acked[s] = Len(log[s])
  BY DEF Push, DeliveryTypes, Pending
<1> HIDE DEF m
<1>3. CASE r # s
  BY <1>2, <1>3 DEF Sent, Current
<1>4. CASE r = s
  <2> DEFINE n == Len(log[s])
  <2>1. /\ n \in Nat /\ DOMAIN log[s] = 1..n
        /\ log'[s] = Append(log[s], m)
    BY <1>2
  <2>2. /\ Len(log'[s]) = n + 1 /\ DOMAIN log'[s] = 1..(n + 1)
        /\ log'[s][n + 1] = m
        /\ \A i \in 1..n : log'[s][i] = log[s][i]
    BY <1>1, <1>2, <2>1
  <2> HIDE DEF n
  <2>3. 1..(n + 1) = 1..n \cup {n + 1}
    BY <2>1
  <2>4. Sent(s, t)' = IF t = topic THEN Sent(s, t) \cup {b} ELSE Sent(s, t)
    <3>1. \A i \in DOMAIN log'[s] : i \in 1..n \/ i = n + 1
      BY <2>2, <2>3
    <3>2. \A x : x \in Sent(s, t)' <=> x \in Sent(s, t) \/ (t = topic /\ x = b)
      BY <1>1, <2>1, <2>2, <3>1 DEF Sent
    <3> QED
      BY <3>2
  <2>5. Current(s, t)' = IF t = topic THEN {b} ELSE {}
    <3>1. \A i \in DOMAIN log'[s] : i > acked'[s] <=> i = n + 1
      BY <1>2, <2>1, <2>2 DEF n
    <3>2. n + 1 \in DOMAIN log'[s]
      BY <2>1, <2>2
    <3>3. \A x : x \in Current(s, t)' <=> t = topic /\ x = b
      BY <1>1, <2>2, <3>1, <3>2 DEF Current
    <3> QED
      BY <3>3
  <2>6. Current(s, t) = {}
    BY <1>2, <2>1 DEF Current, n
  <2> QED
    BY <1>2, <1>4, <2>2, <2>4, <2>5, <2>6 DEF n
<1> QED
  BY <1>3, <1>4

(* The current message is the only one.                                    *)
LEMMA CurrentMessage ==
  ASSUME DeliveryTypes, NEW s \in Shards, Pending(s), Len(log[s]) <= acked[s] + 1, NEW t
  PROVE  /\ Current(s, t) = IF Message(s).topic = t THEN {Message(s).block} ELSE {}
         /\ Len(log[s]) = acked[s] + 1
<1>1. Len(log[s]) = acked[s] + 1 /\ acked[s] \in Nat /\ DOMAIN log[s] = 1..Len(log[s])
  BY DEF DeliveryTypes, Pending
<1>2. \A i \in DOMAIN log[s] : i > acked[s] <=> i = acked[s] + 1
  BY <1>1
<1>3. acked[s] + 1 \in DOMAIN log[s]
  BY <1>1
<1>4. \A x : x \in Current(s, t) <=> Message(s).topic = t /\ x = Message(s).block
  BY <1>2, <1>3 DEF Current, Message
<1> QED
  BY <1>1, <1>4

(* The acknowledgement of the current message: none is left.               *)
LEMMA AcknowledgeSets ==
  ASSUME DeliveryTypes, NEW s \in Shards, Pending(s), Len(log[s]) <= acked[s] + 1,
         Acknowledge(s), NEW r \in Shards, NEW t
  PROVE  /\ Sent(r, t)' = Sent(r, t)
         /\ Current(r, t)' = IF r = s THEN {} ELSE Current(r, t)
         /\ Len(log'[r]) <= acked'[r] + 1 \/ (r # s /\ log'[r] = log[r] /\ acked'[r] = acked[r])
<1>1. log' = log /\ acked' = [acked EXCEPT ![s] = @ + 1] /\ acked \in [Shards -> Nat]
  BY DEF Acknowledge, DeliveryTypes
<1>2. Sent(r, t)' = Sent(r, t)
  BY <1>1 DEF Sent
<1>3. CASE r # s
  BY <1>1, <1>2, <1>3 DEF Current
<1>4. CASE r = s
  <2>1. Len(log[s]) = acked[s] + 1 /\ acked[s] \in Nat /\ DOMAIN log[s] = 1..Len(log[s])
    BY DEF DeliveryTypes, Pending
  <2>2. acked'[s] = acked[s] + 1
    BY <1>1
  <2>3. \A i \in DOMAIN log[s] : ~(i > acked'[s])
    BY <2>1, <2>2
  <2>4. Current(s, t)' = {}
    BY <1>1, <2>3 DEF Current
  <2> QED
    BY <1>1, <1>2, <1>4, <2>1, <2>2, <2>4
<1> QED
  BY <1>3, <1>4
-----------------------------------------------------------------------------
(***************************************************************************)
(* DeliveryInv is inductive.                                               *)
(***************************************************************************)

\* What a step does to the sets of shard r.
Same(r) ==
  /\ Saved(r)' = Saved(r) /\ Reverted(r)' = Reverted(r) /\ Chain(r)' = Chain(r)
  /\ Saving(r)' = Saving(r) /\ Reverting(r)' = Reverting(r)
  /\ Len(log'[r]) <= acked'[r] + 1

Committed(s, b) ==
  /\ Saving(s) = {} /\ Reverting(s) = {}
  /\ Saved(s)' = Saved(s) \cup {b} /\ Reverted(s)' = Reverted(s)
  /\ Saving(s)' = {b} /\ Reverting(s)' = {}
  /\ Len(log'[s]) <= acked'[s] + 1

RolledBack(s, b) ==
  /\ Saving(s) = {} /\ Reverting(s) = {}
  /\ Saved(s)' = Saved(s) /\ Reverted(s)' = Reverted(s) \cup {b}
  /\ Saving(s)' = {} /\ Reverting(s)' = {b}
  /\ Len(log'[s]) <= acked'[s] + 1

Acknowledged(s) ==
  /\ Saved(s)' = Saved(s) /\ Reverted(s)' = Reverted(s) /\ Chain(s)' = Chain(s)
  /\ Saving(s)' = {} /\ Reverting(s)' = {}
  /\ Len(log'[s]) <= acked'[s] + 1

(* The sets are the same when the messages are.                            *)
LEMMA SameSets ==
  ASSUME NEW r, log'[r] = log[r], acked'[r] = acked[r], Len(log[r]) <= acked[r] + 1
  PROVE  Same(r)
BY DEF Same, Saved, Reverted, Chain, Saving, Reverting, Sent, Current

(* What Push does to the sets, for each of the topics.                     *)
LEMMA PushEffect ==
  ASSUME DeliveryTypes, NEW s \in Shards, NEW topic \in Topics, NEW b \in Blocks,
         Push(s, topic, b), acked' = acked, \A r \in Shards : Len(log[r]) <= acked[r] + 1
  PROVE  /\ \A r \in Shards \ {s} : Same(r)
         /\ topic = "SaveBlock" => Committed(s, b)
         /\ topic = "RevertIndexedBlock" => RolledBack(s, b)
         /\ topic = "SaveAccounts" => Same(s) /\ Saving(s) = {} /\ Reverting(s) = {}
<1>1. ASSUME NEW r \in Shards \ {s} PROVE Same(r)
  <2>1. log'[r] = log[r]
    BY DEF Push, DeliveryTypes
  <2> QED
    BY <2>1, SameSets
<1>2. \A t : /\ Sent(s, t)' = IF t = topic THEN Sent(s, t) \cup {b} ELSE Sent(s, t)
             /\ Current(s, t)' = IF t = topic THEN {b} ELSE {}
             /\ Current(s, t) = {}
  BY PushSets
<1>3. Len(log'[s]) <= acked'[s] + 1
  BY PushSets
<1>4. Reverted(s) = Sent(s, "RevertIndexedBlock") /\ Reverted(s)' = Sent(s, "RevertIndexedBlock")'
  BY DEF Reverted, Sent
<1>5. CASE topic = "SaveBlock"
  BY <1>1, <1>2, <1>3, <1>4, <1>5 DEF Committed, Saved, Saving, Reverting
<1>6. CASE topic = "RevertIndexedBlock"
  BY <1>1, <1>2, <1>3, <1>4, <1>6 DEF RolledBack, Saved, Saving, Reverting
<1>7. CASE topic = "SaveAccounts"
  <2>1. Saved(s)' = Saved(s) /\ Reverted(s)' = Reverted(s)
    BY <1>2, <1>4, <1>7 DEF Saved
  <2>2. Chain(s)' = {c \in Saved(s)' : \A r \in Reverted(s)' : r.hash # c.hash}
    BY DEF Reverted, Sent, Chain, Saved, IsRevert
  <2>3. Chain(s)' = Chain(s)
    BY <2>1, <2>2, ChainSets
  <2> QED
    BY <1>1, <1>2, <1>3, <1>7, <2>1, <2>3 DEF Same, Saving, Reverting
<1> QED
  BY <1>5, <1>6, <1>7 DEF Topics

(* What Acknowledge does to them.                                          *)
LEMMA AcknowledgeEffect ==
  ASSUME DeliveryTypes, NEW s \in Shards, Pending(s), Acknowledge(s),
         \A r \in Shards : Len(log[r]) <= acked[r] + 1
  PROVE  Acknowledged(s) /\ \A r \in Shards \ {s} : Same(r)
<1>1. log' = log /\ acked' = [acked EXCEPT ![s] = @ + 1] /\ acked \in [Shards -> Nat]
  BY DEF Acknowledge, DeliveryTypes
<1>2. ASSUME NEW r \in Shards \ {s} PROVE Same(r)
  BY <1>1, SameSets
<1>3. Saving(s)' = {} /\ Reverting(s)' = {}
  BY AcknowledgeSets DEF Saving, Reverting
<1>4. Saved(s)' = Saved(s) /\ Reverted(s)' = Reverted(s) /\ Chain(s)' = Chain(s)
  BY <1>1 DEF Saved, Sent, Reverted, Chain
<1>5. Len(log'[s]) <= acked'[s] + 1
  BY AcknowledgeSets
<1> QED
  BY <1>2, <1>3, <1>4, <1>5 DEF Acknowledged

(* The new block is the last of the chain.                                 *)
LEMMA CommitKeeps ==
  ASSUME DeliveryTypes, NEW s \in Shards, NEW b \in Blocks, SavedInv(s), ChainInv(s),
         b.shard = s, b.altered \in Contents[s], b.hash = numBlocks + 1,
         numBlocks' = numBlocks + 1, pc' = pc,
         \A c \in Chain(s) : c.timestamp < b.timestamp, Committed(s, b)
  PROVE  SavedInv(s)' /\ ChainInv(s)' /\ Chain(s)' = Chain(s) \cup {b}
<1>1. numBlocks \in Nat /\ Saved(s) \subseteq Blocks
  BY SentTypes DEF DeliveryTypes, Saved
<1>2. \A c \in Saved(s) : c.hash \in 1..numBlocks /\ c.hash < b.hash
  BY <1>1 DEF SavedInv
<1>3. SavedInv(s)'
  BY <1>1, <1>2 DEF SavedInv, Committed
<1>4. Chain(s)' = {c \in Saved(s)' : \A r \in Reverted(s)' : r.hash # c.hash}
  BY DEF Reverted, Sent, Chain, Saved, IsRevert
<1>5. Chain(s)' = Chain(s) \cup {b}
  <2>1. \A r \in Reverted(s) : r.hash # b.hash
    BY <1>1, <1>2 DEF SavedInv
  <2> QED
    BY <1>4, <2>1, ChainSets DEF Committed
<1>6. Chain(s) \subseteq Saved(s)
  BY ChainSets
<1>7. ChainInv(s)'
  <2>1. \A c, d \in Chain(s) \cup {b} : c.hash < d.hash => c.timestamp < d.timestamp
    BY <1>1, <1>2, <1>6 DEF ChainInv, Blocks
  <2>2. \A c \in Saved(s) \cup {b} : c.hash <= b.hash
    BY <1>1, <1>2 DEF Blocks
  <2>3. pc'[s] # "second"
    BY DEF ChainInv, Committed
  <2> QED
    BY <1>5, <2>1, <2>2, <2>3 DEF ChainInv, Committed
<1> QED
  BY <1>3, <1>5, <1>7

(* The last block of the chain leaves it.                                  *)
LEMMA RollbackKeeps ==
  ASSUME DeliveryTypes, NEW s \in Shards, NEW b \in Chain(s), SavedInv(s), ChainInv(s),
         numBlocks' = numBlocks, pc' = pc,
         \A c \in Chain(s) : c.hash <= b.hash, RolledBack(s, b)
  PROVE  SavedInv(s)' /\ ChainInv(s)' /\ Chain(s)' = Chain(s) \ {b}
<1>1. Saved(s) \subseteq Blocks /\ Chain(s) \subseteq Saved(s)
  BY SentTypes, ChainSets DEF Saved
<1>2. SavedInv(s)'
  BY <1>1 DEF SavedInv, RolledBack
<1>3. Chain(s)' = {c \in Saved(s)' : \A r \in Reverted(s)' : r.hash # c.hash}
  BY DEF Reverted, Sent, Chain, Saved, IsRevert
<1>4. Chain(s)' = Chain(s) \ {b}
  <2>1. \A c \in Saved(s) : c.hash = b.hash <=> c = b
    BY <1>1 DEF SavedInv
  <2> QED
    BY <1>1, <1>3, <2>1, ChainSets DEF RolledBack
<1>5. \A c \in Chain(s) \ {b} : c.timestamp < b.timestamp
  <2>1. \A c \in Chain(s) \ {b} : c.hash # b.hash /\ c.hash \in Nat /\ b.hash \in Nat
    BY <1>1 DEF SavedInv, Blocks
  <2> QED
    BY <2>1 DEF ChainInv
<1>6. ChainInv(s)'
  BY <1>4, <1>5 DEF ChainInv, RolledBack
<1> QED
  BY <1>2, <1>4, <1>6

(* No message comes or goes.                                               *)
LEMMA SameKeeps ==
  ASSUME NEW r, SavedInv(r), ChainInv(r), Same(r), DeliveryTypes,
         numBlocks' \in {numBlocks, numBlocks + 1},
         pc'[r] = "second" => Reverting(r) # {}
  PROVE  SavedInv(r)' /\ ChainInv(r)'
<1>1. \A b \in Saved(r) : b.hash \in 1..numBlocks'
  BY DEF SavedInv, DeliveryTypes
<1>2. SavedInv(r)'
  BY <1>1 DEF SavedInv, Same
<1> QED
  BY <1>2 DEF ChainInv, Same

(* The current message goes.                                               *)
LEMMA AcknowledgedKeeps ==
  ASSUME NEW s, SavedInv(s), ChainInv(s), Acknowledged(s),
         numBlocks' = numBlocks, pc'[s] = "first"
  PROVE  SavedInv(s)' /\ ChainInv(s)'
<1>1. SavedInv(s)'
  BY DEF SavedInv, Acknowledged
<1> QED
  BY <1>1 DEF ChainInv, Acknowledged
-----------------------------------------------------------------------------
(***************************************************************************)
(* A step is one of four moves: what is sent changes and the indexes do    *)
(* not; a bulk request or a part of it is executed; a query remove is; an  *)
(* operation is executed late.                                             *)
(***************************************************************************)
\* Reverts are not taken back.
GrowsAt(r) == Reverted(r) \subseteq Reverted(r)' /\ Gone(r) \subseteq Gone(r)'

QuietAt(r) ==
  /\ Saved(r) \subseteq Saved(r)'
  /\ GrowsAt(r)
  /\ Handled(r)' \subseteq Handled(r)
  /\ \A c \in Chain(r) : c \in Chain(r)' \/ (c \in Reverting(r)' /\ pc'[r] = "first")
  /\ \A c \in Reverting(r) : c \in Reverting(r)' /\ (pc[r] = "first" => pc'[r] = "first")

QuietMove ==
  UNCHANGED indexes /\ arrived' = arrived /\ \A r \in Shards : QuietAt(r)

SaveMove(s, p, ops) ==
  /\ p \in Saving(s) /\ ops \subseteq SaveOps(p)
  /\ ExecuteSave(p, ops)
  /\ arrived' = arrived
  /\ \A r \in Shards \ {s} : QuietAt(r)
  /\ Saved(s)' = Saved(s) /\ Chain(s)' = Chain(s) /\ Reverting(s) = {} /\ GrowsAt(s)
  /\ \A b \in Handled(s)' : b \in Handled(s) \/ (b = p /\ ops = SaveOps(p))

RemoveMove(s, c, x) ==
  /\ Reverting(s) = {c}
  /\ ExecuteRemove(RemoveOp(x, c))
  /\ arrived' = arrived
  /\ \A r \in Shards \ {s} : QuietAt(r)
  /\ Saved(s)' = Saved(s) /\ Chain(s)' = Chain(s) /\ Handled(s)' = Handled(s) /\ GrowsAt(s)
  /\ \/ x = "accountsesdt" /\ Reverting(s)' = Reverting(s)
     \/ x = "accountsesdthistory" /\ pc[s] = "second"

LateMove(o) ==
  /\ o.block.shard \in Shards
  /\ OperationInv(o)
  /\ arrived' = arrived \cup {o}
  /\ IF o.kind = "save" THEN ExecuteSave(o.block, {o}) ELSE ExecuteRemove(o)
  /\ \A r \in Shards : QuietAt(r)

Move ==
  \/ QuietMove
  \/ \E s \in Shards : \E p \in Saving(s) : \E ops \in SUBSET SaveOps(p) : SaveMove(s, p, ops)
  \/ \E s \in Shards : \E c \in Reverting(s) :
       \E x \in {"accountsesdt", "accountsesdthistory"} : RemoveMove(s, c, x)
  \/ \E o \in arrived' : LateMove(o)

(* What is sent stays the same and so does the handler, but it may begin   *)
(* again.                                                                  *)
LEMMA SameQuiet ==
  ASSUME NEW r, Same(r), pc'[r] = pc[r] \/ pc'[r] = "first"
  PROVE  QuietAt(r)
BY DEF QuietAt, GrowsAt, Gone, Same, Handled

(* Operations of blocks that were sent: with more blocks it still is so.   *)
LEMMA OperationsKept ==
  ASSUME DeliveryTypes, DeliveryInv,
         \A r \in Shards : Saved(r) \subseteq Saved(r)' /\ Reverted(r) \subseteq Reverted(r)',
         \A o \in (late \cup arrived)' :
           o \in late \cup arrived \/ (OperationInv(o) /\ o.block.shard \in Shards)
  PROVE  \A o \in (late \cup arrived)' : OperationInv(o)'
<1>1. \A o \in late \cup arrived : OperationInv(o) /\ o.block.shard \in Shards
  BY DEF DeliveryTypes, OperationType, DeliveryInv, Blocks
<1>2. \A o : OperationInv(o) /\ o.block.shard \in Shards => OperationInv(o)'
  BY DEF OperationInv
<1> QED
  BY <1>1, <1>2

(* The block of the current message, by its topic.                         *)
LEMMA AtTopic ==
  ASSUME DeliveryTypes, NEW s \in Shards, ChainInv(s), Pending(s)
  PROVE  /\ Message(s).block \in Blocks
         /\ Saving(s) = IF Message(s).topic = "SaveBlock" THEN {Message(s).block} ELSE {}
         /\ Reverting(s) =
              IF Message(s).topic = "RevertIndexedBlock" THEN {Message(s).block} ELSE {}
BY CurrentMessage, PendingMessage DEF ChainInv, Saving, Reverting

(* The observer sends a message: a block that is new, or the last of its   *)
(* chain.                                                                  *)
LEMMA PushMoves ==
  ASSUME DeliveryTypes, DeliveryInv, UNCHANGED <<acked, pc, indexes, late, arrived, failures>>,
         NEW s \in Shards, NEW topic \in Topics, NEW b \in Blocks, Push(s, topic, b),
         numBlocks' \in {numBlocks, numBlocks + 1},
         topic = "SaveBlock" =>
           /\ b.shard = s /\ b.altered \in Contents[s]
           /\ b.hash = numBlocks + 1 /\ numBlocks' = numBlocks + 1
           /\ \A c \in Chain(s) : c.timestamp < b.timestamp,
         topic = "RevertIndexedBlock" =>
           b \in Chain(s) /\ numBlocks' = numBlocks /\ \A c \in Chain(s) : c.hash <= b.hash
  PROVE  DeliveryInv' /\ QuietMove
<1>1. \A r \in Shards : SavedInv(r) /\ ChainInv(r) /\ Len(log[r]) <= acked[r] + 1
  BY DEF DeliveryInv, ChainInv
<1>2. /\ \A r \in Shards \ {s} : Same(r)
      /\ topic = "SaveBlock" => Committed(s, b)
      /\ topic = "RevertIndexedBlock" => RolledBack(s, b)
      /\ topic = "SaveAccounts" => Same(s) /\ Saving(s) = {} /\ Reverting(s) = {}
  BY <1>1, PushEffect
<1>3. ASSUME NEW r \in Shards, Same(r)
      PROVE  SavedInv(r)' /\ ChainInv(r)' /\ QuietAt(r)
  <2>1. pc'[r] = "second" => Reverting(r) # {}
    BY <1>1 DEF ChainInv
  <2> QED
    BY <1>1, <1>3, <2>1, SameKeeps, SameQuiet
<1>4. SavedInv(s)' /\ ChainInv(s)' /\ QuietAt(s) /\ Reverted(s) \subseteq Reverted(s)'
  <2>1. CASE topic = "SaveBlock"
    <3>1. SavedInv(s)' /\ ChainInv(s)' /\ Chain(s)' = Chain(s) \cup {b}
      BY <1>1, <1>2, <2>1, CommitKeeps
    <3>2. QuietAt(s) /\ Reverted(s) \subseteq Reverted(s)'
      BY <1>2, <2>1, <3>1 DEF Committed, QuietAt, GrowsAt, Gone, Handled
    <3> QED
      BY <3>1, <3>2
  <2>2. CASE topic = "RevertIndexedBlock"
    <3>1. SavedInv(s)' /\ ChainInv(s)' /\ Chain(s)' = Chain(s) \ {b}
      BY <1>1, <1>2, <2>2, RollbackKeeps
    <3>2. pc'[s] = "first"
      <4>1. pc[s] \in {"first", "second"} /\ Reverting(s) = {}
        BY <1>2, <2>2 DEF DeliveryTypes, RolledBack
      <4> QED
        BY <1>1, <4>1 DEF ChainInv
    <3>3. QuietAt(s) /\ Reverted(s) \subseteq Reverted(s)'
      <4>1. b \notin Reverted(s)
        BY <2>2, ChainSets
      <4> QED
        BY <1>2, <2>2, <3>1, <3>2, <4>1 DEF RolledBack, QuietAt, GrowsAt, Gone, Handled
    <3> QED
      BY <3>1, <3>3
  <2>3. CASE topic = "SaveAccounts"
    BY <1>2, <1>3, <2>3 DEF Same
  <2> QED
    BY <2>1, <2>2, <2>3 DEF Topics
<1>5. \A r \in Shards : SavedInv(r)' /\ ChainInv(r)' /\ QuietAt(r) /\ Reverted(r) \subseteq Reverted(r)'
  BY <1>2, <1>3, <1>4 DEF Same
<1>6. \A o \in (late \cup arrived)' : OperationInv(o)'
  <2>1. \A r \in Shards : Saved(r) \subseteq Saved(r)' /\ Reverted(r) \subseteq Reverted(r)'
    BY <1>5 DEF QuietAt
  <2> QED
    BY <2>1, OperationsKept
<1> QED
  BY <1>5, <1>6 DEF DeliveryInv, QuietMove

(* A handler returns nil, and its message is acknowledged.                 *)
LEMMA AcknowledgeKeeps ==
  ASSUME DeliveryTypes, DeliveryInv, NEW s \in Shards, Pending(s), Acknowledge(s)
  PROVE  /\ DeliveryInv'
         /\ Acknowledged(s) /\ arrived' = arrived
         /\ \A r \in Shards \ {s} : QuietAt(r)
<1>1. \A r \in Shards : SavedInv(r) /\ ChainInv(r) /\ Len(log[r]) <= acked[r] + 1
  BY DEF DeliveryInv, ChainInv
<1>2. Acknowledged(s) /\ \A r \in Shards \ {s} : Same(r)
  BY <1>1, AcknowledgeEffect
<1>3. /\ numBlocks' = numBlocks /\ late' = late /\ arrived' = arrived
      /\ pc' = [pc EXCEPT ![s] = "first"] /\ pc'[s] = "first"
      /\ \A r \in Shards \ {s} : pc'[r] = pc[r]
  BY DEF Acknowledge, DeliveryTypes
<1>4. SavedInv(s)' /\ ChainInv(s)'
  BY <1>1, <1>2, <1>3, AcknowledgedKeeps
<1>5. ASSUME NEW r \in Shards \ {s} PROVE SavedInv(r)' /\ ChainInv(r)' /\ QuietAt(r)
  <2>1. pc'[r] = "second" => Reverting(r) # {}
    BY <1>1, <1>3 DEF ChainInv
  <2> QED
    BY <1>1, <1>2, <1>3, <2>1, SameKeeps, SameQuiet
<1>6. \A o \in (late \cup arrived)' : OperationInv(o)'
  <2>1. \A r \in Shards : Saved(r) \subseteq Saved(r)' /\ Reverted(r) \subseteq Reverted(r)'
    BY <1>2 DEF Same, Acknowledged
  <2> QED
    BY <1>3, <2>1, OperationsKept
<1> QED
  BY <1>2, <1>3, <1>4, <1>5, <1>6 DEF DeliveryInv

(* Nothing is sent or acknowledged.                                        *)
LEMMA StayKeeps ==
  ASSUME DeliveryTypes, DeliveryInv, UNCHANGED <<log, acked, numBlocks>>,
         \A r \in Shards : pc'[r] = "second" => Reverting(r) # {},
         \A o \in (late \cup arrived)' :
           o \in late \cup arrived \/ (OperationInv(o) /\ o.block.shard \in Shards)
  PROVE  DeliveryInv' /\ \A r \in Shards : Same(r)
<1>1. \A r \in Shards : SavedInv(r) /\ ChainInv(r) /\ Len(log[r]) <= acked[r] + 1
  BY DEF DeliveryInv, ChainInv
<1>2. \A r \in Shards : Same(r)
  BY <1>1, SameSets
<1>3. \A r \in Shards : SavedInv(r)' /\ ChainInv(r)'
  BY <1>1, <1>2, SameKeeps
<1>4. \A o \in (late \cup arrived)' : OperationInv(o)'
  BY <1>2, OperationsKept DEF Same
<1> QED
  BY <1>2, <1>3, <1>4 DEF DeliveryInv

(* The handler fails and begins again.                                     *)
LEMMA FailKeeps ==
  ASSUME DeliveryTypes, DeliveryInv, NEW s \in Shards, NEW pending, Fail(s, pending),
         \A o \in pending : OperationInv(o) /\ o.block.shard \in Shards
  PROVE  /\ DeliveryInv' /\ arrived' = arrived
         /\ \A r \in Shards : Same(r) /\ QuietAt(r)
<1>1. /\ UNCHANGED <<log, acked, numBlocks>> /\ arrived' = arrived /\ late' = late \cup pending
      /\ \A r \in Shards : pc'[r] = pc[r] \/ pc'[r] = "first"
  BY DEF Fail, DeliveryTypes
<1>2. \A r \in Shards : pc'[r] = "second" => Reverting(r) # {}
  BY <1>1 DEF DeliveryInv, ChainInv
<1>3. DeliveryInv' /\ \A r \in Shards : Same(r)
  BY <1>1, <1>2, StayKeeps
<1> QED
  BY <1>1, <1>3, SameQuiet

(* A bulk request of the block that is saved.                              *)
LEMMA SaveMoves ==
  ASSUME DeliveryTypes, DeliveryInv, NEW s \in Shards, SaveBlock(s)
  PROVE  DeliveryInv' /\ Move
<1> DEFINE p == Message(s).block
<1>1. Pending(s) /\ Message(s).topic = "SaveBlock" /\ SavedInv(s) /\ ChainInv(s)
  BY DEF SaveBlock, At, DeliveryInv
<1>2. p \in Blocks /\ Saving(s) = {p} /\ Reverting(s) = {}
  BY <1>1, AtTopic
<1>3. p \in Saved(s) /\ p.shard = s
  BY <1>1, <1>2, ChainSets DEF ChainInv, SavedInv
<1>4. CASE ExecuteSave(p, SaveOps(p)) /\ Acknowledge(s)
  <2>1. /\ DeliveryInv' /\ Acknowledged(s) /\ arrived' = arrived
        /\ \A r \in Shards \ {s} : QuietAt(r)
    BY <1>1, <1>4, AcknowledgeKeeps
  <2> HIDE DEF p
  <2>2. SaveMove(s, p, SaveOps(p))
    BY <1>2, <1>4, <2>1 DEF SaveMove, Acknowledged, Handled, GrowsAt, Gone
  <2> QED
    BY <1>2, <2>1, <2>2 DEF Move
<1>5. ASSUME NEW done \in SUBSET SaveOps(p), NEW pending \in SUBSET (SaveOps(p) \ done),
             Fail(s, pending), ExecuteSave(p, done)
      PROVE  DeliveryInv' /\ Move
  <2> HIDE DEF p
  <2>1. ASSUME NEW o \in pending PROVE OperationInv(o) /\ o.block.shard \in Shards
    <3>1. o \in SaveOps(p) /\ o.kind = "save" /\ o.block = p
      BY DEF SaveOps
    <3> QED
      BY <1>3, <3>1 DEF OperationInv
  <2>2. /\ DeliveryInv' /\ arrived' = arrived
        /\ \A r \in Shards : Same(r) /\ QuietAt(r)
    BY <1>5, <2>1, FailKeeps
  <2>3. SaveMove(s, p, done)
    BY <1>2, <1>5, <2>2 DEF SaveMove, Same, Handled, GrowsAt, Gone
  <2> QED
    BY <1>2, <2>2, <2>3 DEF Move
<1> QED
  BY <1>4, <1>5 DEF SaveBlock

(* A query remove of the block that is reverted.                           *)
LEMMA RemoveMoves ==
  ASSUME DeliveryTypes, DeliveryInv, NEW s \in Shards, NEW step, NEW x,
         \/ step = "first" /\ x = "accountsesdt"
         \/ step = "second" /\ x = "accountsesdthistory",
         RemoveAccountsESDT(s, step, x)
  PROVE  DeliveryInv' /\ Move
<1> DEFINE c == Message(s).block
<1>1. /\ Pending(s) /\ Message(s).topic = "RevertIndexedBlock" /\ pc[s] = step
      /\ SavedInv(s) /\ ChainInv(s)
  BY DEF RemoveAccountsESDT, At, DeliveryInv
<1>2. c \in Blocks /\ Saving(s) = {} /\ Reverting(s) = {c}
  BY <1>1, AtTopic
<1>3. c \in Saved(s) /\ c.shard = s /\ c \in Reverted(s)
  BY <1>1, <1>2 DEF ChainInv, SavedInv
<1>4. \/ /\ ExecuteRemove(RemoveOp(x, c))
         /\ step = "first"
         /\ pc' = [pc EXCEPT ![s] = "second"]
         /\ UNCHANGED <<log, acked, late, arrived, numBlocks, failures>>
      \/ ExecuteRemove(RemoveOp(x, c)) /\ step = "second" /\ Acknowledge(s)
      \/ ExecuteRemove(RemoveOp(x, c)) /\ Fail(s, {})
      \/ UNCHANGED indexes /\ \E pending \in SUBSET {RemoveOp(x, c)} : Fail(s, pending)
  BY DEF RemoveAccountsESDT
<1> HIDE DEF c
<1>5. CASE /\ ExecuteRemove(RemoveOp(x, c))
           /\ step = "first"
           /\ pc' = [pc EXCEPT ![s] = "second"]
           /\ UNCHANGED <<log, acked, late, arrived, numBlocks, failures>>
  <2>1. \A r \in Shards : pc'[r] = "second" => Reverting(r) # {}
    BY <1>2, <1>5 DEF DeliveryInv, ChainInv, DeliveryTypes
  <2>2. DeliveryInv' /\ \A r \in Shards : Same(r)
    BY <1>5, <2>1, StayKeeps
  <2>3. \A r \in Shards \ {s} : QuietAt(r)
    BY <1>5, <2>2, SameQuiet DEF DeliveryTypes
  <2>4. RemoveMove(s, c, x)
    BY <1>2, <1>5, <2>2, <2>3 DEF RemoveMove, Same, Handled, GrowsAt, Gone
  <2> QED
    BY <1>2, <2>2, <2>4 DEF Move
<1>6. CASE ExecuteRemove(RemoveOp(x, c)) /\ step = "second" /\ Acknowledge(s)
  <2>1. /\ DeliveryInv' /\ Acknowledged(s) /\ arrived' = arrived
        /\ \A r \in Shards \ {s} : QuietAt(r)
    BY <1>1, <1>6, AcknowledgeKeeps
  <2>2. RemoveMove(s, c, x)
    BY <1>1, <1>2, <1>6, <2>1 DEF RemoveMove, Acknowledged, Handled, GrowsAt, Gone
  <2> QED
    BY <1>2, <2>1, <2>2 DEF Move
<1>7. CASE ExecuteRemove(RemoveOp(x, c)) /\ Fail(s, {})
  <2>1. /\ DeliveryInv' /\ arrived' = arrived
        /\ \A r \in Shards : Same(r) /\ QuietAt(r)
    BY <1>7, FailKeeps
  <2>2. RemoveMove(s, c, x)
    BY <1>1, <1>2, <1>7, <2>1 DEF RemoveMove, Same, Handled, GrowsAt, Gone
  <2> QED
    BY <1>2, <2>1, <2>2 DEF Move
<1>8. CASE UNCHANGED indexes /\ \E pending \in SUBSET {RemoveOp(x, c)} : Fail(s, pending)
  <2>1. PICK pending \in SUBSET {RemoveOp(x, c)} : Fail(s, pending)
    BY <1>8
  <2>2. ASSUME NEW o \in pending PROVE OperationInv(o) /\ o.block.shard \in Shards
    BY <1>3 DEF OperationInv, RemoveOp, ESDTIndexes
  <2>3. /\ DeliveryInv' /\ arrived' = arrived
        /\ \A r \in Shards : Same(r) /\ QuietAt(r)
    BY <2>1, <2>2, FailKeeps
  <2> QED
    BY <1>8, <2>3 DEF Move, QuietMove
<1> QED
  BY <1>4, <1>5, <1>6, <1>7, <1>8

(* An operation whose request had timed out.                               *)
LEMMA LateMoves ==
  ASSUME DeliveryTypes, DeliveryInv, NEW o \in late, LateOperation(o)
  PROVE  DeliveryInv' /\ Move
<1>1. /\ UNCHANGED <<log, acked, pc, numBlocks>>
      /\ late' = late \ {o} /\ arrived' = arrived \cup {o}
      /\ IF o.kind = "save" THEN ExecuteSave(o.block, {o}) ELSE ExecuteRemove(o)
  BY DEF LateOperation
<1>2. OperationInv(o)
  BY DEF DeliveryInv
<1>3. \A r \in Shards : pc'[r] = "second" => Reverting(r) # {}
  BY <1>1 DEF DeliveryInv, ChainInv
<1>4. DeliveryInv' /\ \A r \in Shards : Same(r)
  BY <1>1, <1>3, StayKeeps
<1>5. LateMove(o)
  BY <1>1, <1>2, <1>4, SameQuiet DEF LateMove, DeliveryTypes, OperationType, Blocks
<1> QED
  BY <1>1, <1>4, <1>5 DEF Move

(* Every step keeps DeliveryInv and is one of the moves.                   *)
LEMMA NextMoves ==
  ASSUME TypeOK, DeliveryInv, [Next]_vars
  PROVE  DeliveryInv' /\ Move
<1>0. DeliveryTypes
  BY Split
<1>1. CASE UNCHANGED vars
  <2>1. UNCHANGED <<log, acked, pc, late, arrived, numBlocks>> /\ UNCHANGED indexes
    BY <1>1 DEF vars
  <2>2. \A r \in Shards : pc'[r] = "second" => Reverting(r) # {}
    BY <2>1 DEF DeliveryInv, ChainInv
  <2>3. DeliveryInv' /\ \A r \in Shards : Same(r)
    BY <1>0, <2>1, <2>2, StayKeeps
  <2> QED
    BY <2>1, <2>3, SameQuiet DEF Move, QuietMove
<1>2. ASSUME NEW s \in Shards, NEW altered \in Contents[s], NEW timestamp \in 1..MaxTime,
             Commit(s, altered, timestamp)
      PROVE  DeliveryInv' /\ Move
  <2>1. PICK b : b = NewBlock(s, altered, timestamp)
    OBVIOUS
  <2>2. /\ b \in Blocks /\ b.shard = s /\ b.altered \in Contents[s]
        /\ b.hash = numBlocks + 1 /\ b.timestamp = timestamp
    BY <1>0, <2>1 DEF NewBlock, Blocks, AlteredSets, DeliveryTypes
  <2>3. /\ Push(s, "SaveBlock", b) /\ numBlocks' = numBlocks + 1
        /\ \A c \in Chain(s) : c.timestamp < b.timestamp
        /\ UNCHANGED <<acked, pc, indexes, late, arrived, failures>>
    BY <1>2, <2>1, <2>2 DEF Commit
  <2>4. DeliveryInv' /\ QuietMove
    BY <1>0, <2>2, <2>3, PushMoves DEF Topics
  <2> QED
    BY <2>4 DEF Move
<1>3. ASSUME NEW s \in Shards, NEW altered \in Provided[s], SendAccounts(s, altered)
      PROVE  DeliveryInv' /\ Move
  <2>1. PICK b : b = NewBlock(s, altered, 1)
    OBVIOUS
  <2>2. b \in Blocks
    BY <1>0, <2>1 DEF NewBlock, Blocks, AlteredSets, DeliveryTypes
  <2>3. /\ Push(s, "SaveAccounts", b) /\ numBlocks' = numBlocks + 1
        /\ UNCHANGED <<acked, pc, indexes, late, arrived, failures>>
    BY <1>3, <2>1 DEF SendAccounts
  <2>4. DeliveryInv' /\ QuietMove
    BY <1>0, <2>2, <2>3, PushMoves DEF Topics
  <2> QED
    BY <2>4 DEF Move
<1>4. ASSUME NEW s \in Shards, Rollback(s)
      PROVE  DeliveryInv' /\ Move
  <2>1. PICK b \in Chain(s) :
          /\ \A c \in Chain(s) : c.hash <= b.hash
          /\ Push(s, "RevertIndexedBlock", b)
          /\ UNCHANGED <<acked, pc, indexes, late, arrived, numBlocks, failures>>
    BY <1>4 DEF Rollback
  <2>2. b \in Blocks
    BY <1>0, SentTypes, ChainSets DEF Saved
  <2>3. DeliveryInv' /\ QuietMove
    BY <1>0, <2>1, <2>2, PushMoves DEF Topics
  <2> QED
    BY <2>3 DEF Move
<1>5. ASSUME NEW s \in Shards, SaveAccounts(s)
      PROVE  DeliveryInv' /\ Move
  <2>1. /\ Pending(s) /\ Message(s).topic = "SaveAccounts" /\ ChainInv(s)
        /\ Acknowledge(s) /\ UNCHANGED indexes
    BY <1>5 DEF SaveAccounts, At, DeliveryInv
  <2>2. Saving(s) = {} /\ Reverting(s) = {}
    BY <1>0, <2>1, AtTopic
  <2>3. /\ DeliveryInv' /\ Acknowledged(s) /\ arrived' = arrived
        /\ \A r \in Shards \ {s} : QuietAt(r)
    BY <1>0, <2>1, AcknowledgeKeeps
  <2>4. QuietAt(s)
    BY <2>2, <2>3 DEF QuietAt, Acknowledged, Handled, GrowsAt, Gone
  <2> QED
    BY <2>1, <2>3, <2>4 DEF Move, QuietMove
<1> QED
  BY <1>0, <1>1, <1>2, <1>3, <1>4, <1>5, SaveMoves, RemoveMoves, LateMoves DEF Next
-----------------------------------------------------------------------------
(***************************************************************************)
(* What the requests of a block do to one document.                        *)
(***************************************************************************)

\* The document is what the block has, or deleted, or newer and left alone.
Written(old, new, info) ==
  /\ old = NoDoc \/ old.timestamp <= info.timestamp
  /\ new # NoDoc
  /\ new.balance = info.balance /\ new.timestamp = info.timestamp /\ new.shard = info.shard
  /\ info.frozen => new.frozen
Deleted(old, new, info) ==
  new = NoDoc /\ (old = NoDoc \/ old.timestamp <= info.timestamp)
Newer(old, new, info) ==
  old # NoDoc /\ old.timestamp > info.timestamp /\ new = old

(* The script of an update.                                                *)
LEMMA UpdateScript ==
  ASSUME NEW old \in Docs, NEW info \in Infos, NEW new,
         new = prepareSerializedAccountInfo(old, info)
  PROVE  Written(old, new, info) \/ Newer(old, new, info)
<1>1. old # NoDoc => old \in Infos /\ old.timestamp \in Nat
  BY DEF Docs, Infos
<1>2. info # NoDoc /\ info.timestamp \in Nat
  BY NoDocAssumption DEF Infos
<1>3. CASE old = NoDoc
  BY <1>2, <1>3 DEF prepareSerializedAccountInfo, Written
<1>4. CASE old # NoDoc /\ old.timestamp <= info.timestamp
  <2>1. new = [info EXCEPT !.frozen = @ \/ old.frozen]
    BY <1>4 DEF prepareSerializedAccountInfo
  <2>2. /\ new.balance = info.balance /\ new.timestamp = info.timestamp
        /\ new.shard = info.shard /\ new.frozen = (info.frozen \/ old.frozen)
    BY <2>1 DEF Infos
  <2>3. new # NoDoc
    BY <1>4, InfoScript
  <2>4. info.frozen => new.frozen
    BY <2>2, Zenon
  <2> QED
    BY <1>4, <2>2, <2>3, <2>4 DEF Written
<1>5. CASE old # NoDoc /\ ~(old.timestamp <= info.timestamp)
  BY <1>1, <1>2, <1>5 DEF prepareSerializedAccountInfo, Newer
<1> QED
  BY <1>3, <1>4, <1>5

(* The script of a deletion.                                               *)
LEMMA DeleteScript ==
  ASSUME NEW old \in Docs, NEW info \in Infos, NEW new,
         new = prepareDeleteAccountInfo(old, info.timestamp)
  PROVE  Deleted(old, new, info) \/ Newer(old, new, info)
<1>1. old # NoDoc => old.timestamp \in Nat
  BY DEF Docs, Infos
<1>2. info.timestamp \in Nat
  BY DEF Infos
<1> QED
  BY <1>1, <1>2 DEF prepareDeleteAccountInfo, Newer, Deleted

(* The regular accounts that a block of s writes are accounts of s.        *)
LEMMA RegularInfo ==
  ASSUME NEW s \in Shards, NEW b \in Blocks, b.altered \in Contents[s],
         NEW id \in RegularIdsOf(b)
  PROVE  /\ id \in RegularIds /\ ShardOf[id[1]] = s
         /\ PrepareRegularAccountsMap(b)[id] \in Infos
         /\ PrepareRegularAccountsMap(b)[id].balance = b.altered[id[1]].balance
         /\ PrepareRegularAccountsMap(b)[id].timestamp = b.timestamp
<1>1. id \in RegularIds /\ PrepareRegularAccountsMap(b)[id] \in Infos
  BY RegularMap DEF RegularIdsOf
<1>2. PICK a \in RegularAccounts(b) : id = <<a, NoToken>>
  BY DEF RegularIdsOf, PrepareRegularAccountsMap
<1>3. a \in DOMAIN b.altered /\ id[1] = a
  BY <1>2 DEF RegularAccounts
<1>4. ShardOf[a] = s
  BY <1>3, AlteredAssumption
<1>5. PrepareRegularAccountsMap(b)[id] =
        [balance |-> b.altered[id[1]].balance, frozen |-> FALSE,
         timestamp |-> b.timestamp, shard |-> b.shard]
  BY <1>2 DEF PrepareRegularAccountsMap
<1> QED
  BY <1>1, <1>3, <1>4, <1>5

(* The same for ESDT balances.                                             *)
LEMMA ESDTInfo ==
  ASSUME NEW s \in Shards, NEW b \in Blocks, b.altered \in Contents[s], NEW id \in ESDTIdsOf(b)
  PROVE  /\ id \in ESDTIds /\ ShardOf[id[1]] = s
         /\ DOMAIN PrepareAccountsMapESDT(b) = ESDTIdsOf(b)
         /\ PrepareAccountsMapESDT(b)[id] \in Infos
         /\ PrepareAccountsMapESDT(b)[id].timestamp = b.timestamp
         /\ PrepareAccountsMapESDT(b)[id].shard = b.shard
<1>0. DOMAIN PrepareAccountsMapESDT(b) = ESDTIdsOf(b)
  BY DEF PrepareAccountsMapESDT
<1>1. id \in ESDTIds /\ PrepareAccountsMapESDT(b)[id] \in Infos
  BY <1>0, ESDTMap
<1>2. id[1] \in DOMAIN b.altered
  BY DEF ESDTIdsOf
<1>3. ShardOf[id[1]] = s
  BY <1>2, AlteredAssumption
<1>4. \E x, y : PrepareAccountsMapESDT(b)[id] =
        [balance |-> x, frozen |-> y, timestamp |-> b.timestamp, shard |-> b.shard]
  BY DEF PrepareAccountsMapESDT
<1> QED
  BY <1>0, <1>1, <1>3, <1>4

(* The whole request has every id of the block, a late operation one.      *)
LEMMA IdsOfSave ==
  ASSUME NEW b
  PROVE  /\ RegularIdsOf(b) \subseteq IdsOf(SaveOps(b), "accounts")
         /\ ESDTIdsOf(b) \subseteq IdsOf(SaveOps(b), "accountsesdt")
         /\ ESDTIdsOf(b) \subseteq IdsOf(SaveOps(b), "accountsesdthistory")
<1>1. \A id, x : [kind |-> "save", index |-> x, id |-> id, block |-> b] \in SaveOps(b) =>
        id \in IdsOf(SaveOps(b), x)
  <2> SUFFICES ASSUME NEW id, NEW x, NEW o \in SaveOps(b),
                      o = [kind |-> "save", index |-> x, id |-> id, block |-> b]
               PROVE  id \in IdsOf(SaveOps(b), x)
    OBVIOUS
  <2>1. o.id = id /\ o.index = x /\ o.kind = "save"
    OBVIOUS
  <2> QED
    BY <2>1 DEF IdsOf
<1>2. \A id \in RegularIdsOf(b) :
        [kind |-> "save", index |-> "accounts", id |-> id, block |-> b] \in SaveOps(b)
  BY DEF SaveOps, RegularIdsOf
<1>3. \A id \in ESDTIdsOf(b) :
        /\ [kind |-> "save", index |-> "accountsesdt", id |-> id, block |-> b] \in SaveOps(b)
        /\ [kind |-> "save", index |-> "accountsesdthistory", id |-> id, block |-> b]
             \in SaveOps(b)
  BY DEF SaveOps
<1> QED
  BY <1>1, <1>2, <1>3

(* What a request does to the document of a regular account.               *)
LEMMA SaveRegular ==
  ASSUME IndexTypes, NEW b \in Blocks, NEW ops, ExecuteSave(b, ops), NEW id \in RegularIds
  PROVE  LET info == PrepareRegularAccountsMap(b)[id] IN
         IF id \in IdsOf(ops, "accounts") /\ id \in RegularIdsOf(b)
           THEN Written(accounts[id], accounts'[id], info) \/ Newer(accounts[id], accounts'[id], info)
           ELSE accounts'[id] = accounts[id]
<1>1. DOMAIN accounts = RegularIds /\ accounts[id] \in Docs
  BY DEF IndexTypes
<1>2. accounts'[id] = IF id \in IdsOf(ops, "accounts") /\ id \in RegularIdsOf(b)
        THEN prepareSerializedAccountInfo(accounts[id], PrepareRegularAccountsMap(b)[id])
        ELSE accounts[id]
  BY <1>1 DEF ExecuteSave, IndexAccounts, prepareSerializedAccount, RegularIdsOf
<1>3. id \in RegularIdsOf(b) => PrepareRegularAccountsMap(b)[id] \in Infos
  BY RegularMap DEF RegularIdsOf
<1> QED
  BY <1>1, <1>2, <1>3, UpdateScript

(* What it does to an ESDT balance.                                        *)
LEMMA SaveESDT ==
  ASSUME IndexTypes, NEW b \in Blocks, NEW ops, ExecuteSave(b, ops), NEW id \in ESDTIds
  PROVE  LET info == PrepareAccountsMapESDT(b)[id] IN
         IF id \in IdsOf(ops, "accountsesdt") /\ id \in ESDTIdsOf(b)
           THEN \/ info.balance # 0 /\ Written(accountsESDT[id], accountsESDT'[id], info)
                \/ info.balance = 0 /\ Deleted(accountsESDT[id], accountsESDT'[id], info)
                \/ Newer(accountsESDT[id], accountsESDT'[id], info)
           ELSE accountsESDT'[id] = accountsESDT[id]
<1> DEFINE info == PrepareAccountsMapESDT(b)[id]
<1>1. DOMAIN accountsESDT = ESDTIds /\ accountsESDT[id] \in Docs
  BY DEF IndexTypes
<1>2. DOMAIN PrepareAccountsMapESDT(b) = ESDTIdsOf(b)
  BY DEF PrepareAccountsMapESDT
<1>3. accountsESDT'[id] = IF id \in IdsOf(ops, "accountsesdt") /\ id \in ESDTIdsOf(b)
        THEN prepareSerializedAccount(accountsESDT[id], info, TRUE)
        ELSE accountsESDT[id]
  BY <1>1, <1>2 DEF ExecuteSave, IndexAccounts
<1>4. id \in ESDTIdsOf(b) => info \in Infos
  BY <1>2, ESDTMap
<1> HIDE DEF info
<1>5. CASE id \in IdsOf(ops, "accountsesdt") /\ id \in ESDTIdsOf(b)
  <2>1. CASE info.balance = 0
    <3>1. accountsESDT'[id] = prepareDeleteAccountInfo(accountsESDT[id], info.timestamp)
      BY <1>3, <1>5, <2>1 DEF prepareSerializedAccount, notZeroBalance
    <3> QED
      BY <1>1, <1>4, <1>5, <2>1, <3>1, DeleteScript DEF info
  <2>2. CASE info.balance # 0
    <3>1. accountsESDT'[id] = prepareSerializedAccountInfo(accountsESDT[id], info)
      BY <1>3, <1>5, <2>2 DEF prepareSerializedAccount, notZeroBalance
    <3> QED
      BY <1>1, <1>4, <1>5, <2>2, <3>1, UpdateScript DEF info
  <2> QED
    BY <2>1, <2>2
<1> QED
  BY <1>3, <1>5 DEF info

(* A late save operation has one id.                                       *)
LEMMA IdsOfLate ==
  ASSUME NEW b, NEW o \in SaveOps(b), NEW x, NEW id
  PROVE  /\ id \in IdsOf({o}, x) <=> o.index = x /\ o.id = id
         /\ o.kind = "save" /\ o.block = b
<1>1. o.kind = "save" /\ o.block = b
  BY DEF SaveOps
<1> QED
  BY <1>1 DEF IdsOf

(* What DeliveryInv says of a block that was sent.                         *)
LEMMA SavedBlock ==
  ASSUME DeliveryTypes, DeliveryInv, NEW s \in Shards, NEW b \in Saved(s)
  PROVE  /\ b \in Blocks /\ b.shard = s /\ b.altered \in Contents[s]
         /\ b.hash \in Nat /\ b.timestamp \in Nat
         /\ \A c \in Saved(s) : c.hash = b.hash => c = b
         /\ b \in Chain(s) \/ b \in Reverted(s)
<1>1. b \in Blocks
  BY SentTypes DEF Saved
<1>2. SavedInv(s)
  BY DEF DeliveryInv
<1>3. b \in Chain(s) \/ b \in Reverted(s)
  BY <1>2, ChainSets DEF SavedInv
<1> QED
  BY <1>1, <1>2, <1>3 DEF SavedInv, Blocks

(* The handled blocks were sent, and the block that is saved is younger.   *)
LEMMA HandledBlock ==
  ASSUME DeliveryTypes, DeliveryInv, NEW s \in Shards, NEW b \in Handled(s)
  PROVE  /\ b \in Chain(s) /\ b \in Saved(s)
         /\ \A p \in Saving(s) : p.hash # b.hash /\ b.timestamp < p.timestamp
         /\ \A r \in Reverting(s) : b.timestamp < r.timestamp
         /\ \A r \in Reverted(s) : r.hash # b.hash
<1>1. b \in Chain(s) /\ b \in Saved(s) /\ b \notin Saving(s) /\ ChainInv(s)
  BY ChainSets DEF Handled, DeliveryInv
<1>2. ASSUME NEW p \in Saving(s) PROVE p.hash # b.hash /\ b.timestamp < p.timestamp
  <2>1. p \in Chain(s) /\ p \in Saved(s) /\ b.hash <= p.hash /\ p # b
    BY <1>1, ChainSets DEF ChainInv
  <2>2. p.hash # b.hash /\ p.hash \in Nat /\ b.hash \in Nat
    BY <1>1, <2>1, SavedBlock
  <2> QED
    BY <1>1, <2>1, <2>2 DEF ChainInv
<1>3. \A r \in Reverted(s) : r.hash # b.hash
  BY <1>1, ChainSets
<1> QED
  BY <1>1, <1>2, <1>3 DEF ChainInv

(* What was disturbed by a late operation stays so.                        *)
LEMMA DisturbedKept ==
  ASSUME arrived \subseteq arrived', NEW x, NEW id, NEW b, Disturbed(x, id, b)
  PROVE  Disturbed(x, id, b)'
BY DEF Disturbed
-----------------------------------------------------------------------------
(***************************************************************************)
(* AccountsInv is inductive.                                               *)
(***************************************************************************)

\* Where a request comes from: the block is being saved, or the operations are
\* late ones.
Origin(s, c, ops) ==
  \/ c \in Saving(s)
  \/ \A x : \A id \in IdsOf(ops, x) : \E o \in arrived' :
       o.kind = "save" /\ o.index = x /\ o.id = id /\ o.block = c

(* A request of block c leaves the documents of handled blocks in order.   *)
LEMMA RegularStays ==
  ASSUME TypeOK, DeliveryInv, AccountsInv, arrived \subseteq arrived',
         NEW q \in Shards, NEW c \in Saved(q), NEW ops, ExecuteSave(c, ops), Origin(q, c, ops),
         NEW s \in Shards, NEW b \in Handled(s), NEW id \in RegularIdsOf(b)
  PROVE  RegularHandled(id, b)'
<1>0. IndexTypes /\ DeliveryTypes
  BY Split
<1>1. /\ c \in Blocks /\ c.shard = q /\ c.altered \in Contents[q] /\ c.timestamp \in Nat
  BY <1>0, SavedBlock
<1>2. b \in Saved(s) /\ \A p \in Saving(s) : p.hash # b.hash /\ b.timestamp < p.timestamp
  BY <1>0, HandledBlock
<1>3. b \in Blocks /\ b.shard = s /\ b.altered \in Contents[s] /\ b.timestamp \in Nat
  BY <1>0, <1>2, SavedBlock
<1>4. id \in RegularIds /\ ShardOf[id[1]] = s
  BY <1>3, RegularInfo
<1>5. RegularHandled(id, b)
  BY DEF AccountsInv
<1>6. accounts[id] \in Docs /\ accounts[id] # NoDoc /\ accounts[id].timestamp \in Nat
  BY <1>0, <1>4, <1>5 DEF IndexTypes, RegularHandled, Docs, Infos
<1>7. CASE accounts'[id] = accounts[id]
  BY <1>5, <1>7, DisturbedKept DEF RegularHandled
<1>8. CASE accounts'[id] # accounts[id]
  <2> DEFINE info == PrepareRegularAccountsMap(c)[id]
  <2>1. /\ id \in IdsOf(ops, "accounts") /\ id \in RegularIdsOf(c)
        /\ Written(accounts[id], accounts'[id], info)
    BY <1>0, <1>1, <1>4, <1>8, SaveRegular DEF Newer
  <2>2. info.balance = c.altered[id[1]].balance /\ info.timestamp = c.timestamp /\ q = s
    BY <1>1, <1>4, <2>1, RegularInfo
  <2> HIDE DEF info
  <2>3. /\ accounts[id].timestamp <= c.timestamp
        /\ accounts'[id] # NoDoc /\ accounts'[id].timestamp = c.timestamp
        /\ accounts'[id].balance = c.altered[id[1]].balance
    BY <1>6, <2>1, <2>2 DEF Written
  <2>4. b.timestamp <= c.timestamp
    BY <1>1, <1>3, <1>5, <1>6, <2>3 DEF RegularHandled
  <2>5. c.timestamp = b.timestamp /\ c # b => Disturbed("accounts", id, b)'
    <3>1. SUFFICES ASSUME c.timestamp = b.timestamp, c # b
                   PROVE  Disturbed("accounts", id, b)'
      OBVIOUS
    <3>2. c \notin Saving(s)
      BY <1>2, <1>3, <3>1
    <3>3. PICK o \in arrived' :
            o.kind = "save" /\ o.index = "accounts" /\ o.id = id /\ o.block = c
      BY <2>1, <2>2, <3>2 DEF Origin
    <3>4. c.hash # b.hash
      BY <1>0, <1>2, <2>2, <3>1, SavedBlock
    <3> QED
      BY <1>1, <1>3, <2>2, <3>1, <3>3, <3>4 DEF Disturbed
  <2> QED
    BY <1>1, <1>3, <2>3, <2>4, <2>5 DEF RegularHandled
<1> QED
  BY <1>7, <1>8

(* The documents of a request come from its block.                         *)
LEMMA RegularComesFrom ==
  ASSUME TypeOK, DeliveryInv, AccountsInv, \A r \in Shards : Saved(r) \subseteq Saved(r)',
         NEW q \in Shards, NEW c \in Saved(q), NEW ops, ExecuteSave(c, ops),
         NEW id \in RegularIds, accounts'[id] # NoDoc
  PROVE  RegularFrom(ShardOf[id[1]], id)'
<1>0. IndexTypes /\ DeliveryTypes
  BY Split
<1>1. c \in Blocks /\ c.altered \in Contents[q]
  BY <1>0, SavedBlock
<1>2. ShardOf[id[1]] \in Shards
  BY AlteredAssumption DEF RegularIds
<1>3. CASE accounts'[id] = accounts[id]
  <2>1. RegularFrom(ShardOf[id[1]], id)
    BY <1>3 DEF AccountsInv
  <2> QED
    BY <1>2, <1>3, <2>1 DEF RegularFrom
<1>4. CASE accounts'[id] # accounts[id]
  <2> DEFINE info == PrepareRegularAccountsMap(c)[id]
  <2>1. id \in RegularIdsOf(c) /\ Written(accounts[id], accounts'[id], info)
    BY <1>0, <1>1, <1>4, SaveRegular DEF Newer
  <2>2. info.timestamp = c.timestamp /\ ShardOf[id[1]] = q
    BY <1>1, <2>1, RegularInfo
  <2> QED
    BY <2>1, <2>2 DEF RegularFrom, Written
<1> QED
  BY <1>3, <1>4

(* Steps that do not touch the index "accounts".                           *)
LEMMA RegularUntouched ==
  ASSUME TypeOK, AccountsInv, arrived \subseteq arrived', accounts' = accounts,
         \A r \in Shards : Saved(r) \subseteq Saved(r)' /\ Handled(r)' \subseteq Handled(r)
  PROVE  AccountsInv'
<1>1. ASSUME NEW s \in Shards, NEW b \in Handled(s)', NEW id \in RegularIdsOf(b)
      PROVE  RegularHandled(id, b)'
  <2>1. RegularHandled(id, b)
    BY DEF AccountsInv
  <2> QED
    BY <2>1, DisturbedKept DEF RegularHandled
<1>2. ASSUME NEW id \in RegularIds, accounts[id] # NoDoc
      PROVE  RegularFrom(ShardOf[id[1]], id)'
  <2>1. ShardOf[id[1]] \in Shards /\ RegularFrom(ShardOf[id[1]], id)
    BY <1>2, AlteredAssumption DEF RegularIds, AccountsInv
  <2> QED
    BY <2>1 DEF RegularFrom
<1> QED
  BY <1>1, <1>2 DEF AccountsInv

(* Every move keeps AccountsInv.                                           *)
LEMMA AccountsMove ==
  ASSUME TypeOK, DeliveryInv, AccountsInv, Move
  PROVE  AccountsInv'
<1>0. IndexTypes /\ DeliveryTypes
  BY Split
<1>1. CASE QuietMove
  BY <1>1, RegularUntouched DEF QuietMove, QuietAt, indexes
<1>2. ASSUME NEW s \in Shards, NEW p \in Saving(s), NEW ops \in SUBSET SaveOps(p),
             SaveMove(s, p, ops)
      PROVE  AccountsInv'
  <2>1. ExecuteSave(p, ops) /\ arrived \subseteq arrived' /\ Origin(s, p, ops)
    BY <1>2 DEF SaveMove, Origin
  <2>2. p \in Chain(s) /\ p \in Saved(s)
    BY ChainSets DEF DeliveryInv, ChainInv
  <2>3. p \in Blocks /\ p.altered \in Contents[s] /\ p.timestamp \in Nat
    BY <1>0, <2>2, SavedBlock
  <2>4. \A r \in Shards : Saved(r) \subseteq Saved(r)'
    BY <1>2 DEF SaveMove, QuietAt
  <2>5. ASSUME NEW r \in Shards, NEW b \in Handled(r)', NEW id \in RegularIdsOf(b)
        PROVE  RegularHandled(id, b)'
    <3>1. CASE b \in Handled(r)
      BY <2>1, <2>2, <3>1, RegularStays
    <3>2. CASE b \notin Handled(r)
      <4>1. r = s /\ b = p /\ ops = SaveOps(p)
        BY <1>2, <3>2 DEF SaveMove, QuietAt
      <4> DEFINE info == PrepareRegularAccountsMap(p)[id]
      <4>2. /\ id \in RegularIds
            /\ info.balance = p.altered[id[1]].balance /\ info.timestamp = p.timestamp
        BY <2>3, <4>1, RegularInfo
      <4>3. id \in IdsOf(ops, "accounts")
        BY <4>1, IdsOfSave
      <4>4. Written(accounts[id], accounts'[id], info) \/ Newer(accounts[id], accounts'[id], info)
        BY <1>0, <2>1, <2>3, <4>1, <4>2, <4>3, SaveRegular
      <4>5. accounts[id] # NoDoc => accounts[id].timestamp \in Nat
        BY <1>0, <4>2 DEF IndexTypes, Docs, Infos
      <4> HIDE DEF info
      <4> QED
        BY <2>3, <4>1, <4>2, <4>4, <4>5 DEF Written, Newer, RegularHandled
    <3> QED
      BY <3>1, <3>2
  <2>6. \A id \in RegularIds : accounts'[id] # NoDoc => RegularFrom(ShardOf[id[1]], id)'
    BY <2>1, <2>2, <2>4, RegularComesFrom
  <2> QED
    BY <2>5, <2>6 DEF AccountsInv
<1>3. ASSUME NEW s \in Shards, NEW c \in Reverting(s), NEW x, RemoveMove(s, c, x)
      PROVE  AccountsInv'
  <2>1. accounts' = accounts /\ arrived' = arrived
    BY <1>3 DEF RemoveMove, ExecuteRemove
  <2>2. \A r \in Shards : Saved(r) \subseteq Saved(r)' /\ Handled(r)' \subseteq Handled(r)
    BY <1>3 DEF RemoveMove, QuietAt
  <2> QED
    BY <2>1, <2>2, RegularUntouched
<1>4. ASSUME NEW o \in arrived', LateMove(o)
      PROVE  AccountsInv'
  <2>1. /\ arrived \subseteq arrived'
        /\ \A r \in Shards : Saved(r) \subseteq Saved(r)' /\ Handled(r)' \subseteq Handled(r)
    BY <1>4 DEF LateMove, QuietAt
  <2>2. CASE o.kind # "save"
    <3>1. accounts' = accounts
      BY <1>4, <2>2 DEF LateMove, ExecuteRemove
    <3> QED
      BY <2>1, <3>1, RegularUntouched
  <2>3. CASE o.kind = "save"
    <3> DEFINE c == o.block
               q == c.shard
    <3>1. ExecuteSave(c, {o}) /\ c \in Saved(q) /\ o \in SaveOps(c)
      BY <1>4, <2>3 DEF LateMove, OperationInv
    <3>2. Origin(q, c, {o})
      BY <3>1, IdsOfLate DEF Origin
    <3>3. q \in Shards
      BY <1>4 DEF LateMove
    <3> HIDE DEF c, q
    <3> QED
      BY <2>1, <3>1, <3>2, <3>3, RegularStays, RegularComesFrom DEF AccountsInv
  <2> QED
    BY <2>2, <2>3
<1> QED
  BY <1>1, <1>2, <1>3, <1>4 DEF Move
-----------------------------------------------------------------------------
(***************************************************************************)
(* ESDTInv is inductive.                                                   *)
(***************************************************************************)

\* The part of QuietAt that keeps the origin of a document.
Traced(r) ==
  /\ Saved(r) \subseteq Saved(r)'
  /\ GrowsAt(r)
  /\ \A c \in Chain(r) : c \in Chain(r)' \/ (c \in Reverting(r)' /\ pc'[r] = "first")
  /\ \A c \in Reverting(r) : pc[r] = "first" => c \in Reverting(r)' /\ pc'[r] = "first"

(* What a late operation has written stays so.                             *)
LEMMA WrittenLateKept ==
  ASSUME arrived \subseteq arrived', NEW x, NEW id, NEW timestamp, WrittenLate(x, id, timestamp)
  PROVE  WrittenLate(x, id, timestamp)'
BY DEF WrittenLate

\* No document of this index that was left is forgotten.
Remembers(x) == \A m \in missed : m.index = x => m \in missed'

(* A document that a delete by query has left is not forgotten, unless the *)
(* delete is executed again.                                               *)
LEMMA HiddenKept ==
  ASSUME NEW id, NEW b, GrowsAt(b.shard), Remembers("accountsesdt"), Hidden(id, b)
  PROVE  Hidden(id, b)'
BY DEF Hidden, GrowsAt, Missed, Remembers

(* The same for a document with a given timestamp.                         *)
LEMMA LeftKept ==
  ASSUME NEW x, NEW s, NEW id, NEW timestamp, GrowsAt(s), Remembers(x),
         Left(x, s, id, timestamp)
  PROVE  Left(x, s, id, timestamp)'
BY DEF Left, GrowsAt, Missed, Remembers

(* A bulk request forgets nothing.                                         *)
LEMMA SaveRemembers ==
  ASSUME NEW b, NEW ops, ExecuteSave(b, ops), NEW x
  PROVE  Remembers(x)
BY DEF ExecuteSave, Remembers

(* What the delete by query of a block does to the documents of its index: *)
(* a document with its shard and timestamp goes, or is noted as left.      *)
LEMMA RemoveESDT ==
  ASSUME NEW c, NEW o, o.index = "accountsesdt", o.block = c, ExecuteRemove(o),
         NEW id \in ESDTIds
  PROVE  LET doc == accountsESDT[id] IN
         \/ accountsESDT'[id] = doc /\ Missed("accountsesdt", id, c)'
         \/ IF doc # NoDoc /\ doc.shard = c.shard /\ doc.timestamp = c.timestamp
              THEN accountsESDT'[id] = NoDoc
              ELSE accountsESDT'[id] = doc
<1>1. PICK left \in SUBSET Found(o) :
        /\ Miss(o, left)
        /\ accountsESDT' = [i \in ESDTIds |->
             IF o.index = "accountsesdt" /\ i \in Found(o) \ left THEN NoDoc ELSE accountsESDT[i]]
  BY DEF ExecuteRemove
<1>2. id \in Found(o) <=> /\ accountsESDT[id] # NoDoc
                          /\ accountsESDT[id].shard = c.shard
                          /\ accountsESDT[id].timestamp = c.timestamp
  BY DEF Found, Matches
<1>3. id \in left => Missed("accountsesdt", id, c)'
  BY <1>1 DEF Miss, Missed
<1> QED
  BY <1>1, <1>2, <1>3

(* The other deletes by query are not concerned.                           *)
LEMMA RemoveOther ==
  ASSUME NEW o, ExecuteRemove(o), NEW m \in missed,
         m.index # o.index \/ m.block # o.block
  PROVE  m \in missed'
BY DEF ExecuteRemove, Miss

(* A delete by query on one index leaves the others alone.                 *)
LEMMA RemoveUntouched ==
  ASSUME IndexTypes, NEW o, ExecuteRemove(o)
  PROVE  /\ accounts' = accounts
         /\ o.index # "accountsesdt" => accountsESDT' = accountsESDT
         /\ o.index = "accountsesdt" => accountsESDTHistory' = accountsESDTHistory
         /\ \A x : x # o.index => Remembers(x)
<1>1. PICK left \in SUBSET Found(o) :
        /\ accountsESDT' = [i \in ESDTIds |->
             IF o.index = "accountsesdt" /\ i \in Found(o) \ left THEN NoDoc ELSE accountsESDT[i]]
        /\ accountsESDTHistory' = {d \in accountsESDTHistory :
             \/ o.index = "accountsesdt" \/ d.id \in left
             \/ ~Matches(d, o.block.shard, o.block.timestamp)}
        /\ accounts' = accounts
  BY DEF ExecuteRemove
<1>2. accountsESDT = [i \in ESDTIds |-> accountsESDT[i]]
  BY DEF IndexTypes
<1>3. \A x : x # o.index => Remembers(x)
  BY RemoveOther DEF Remembers
<1> QED
  BY <1>1, <1>2, <1>3

(* A delete by query that is executed again: the blocks of the chain are   *)
(* disturbed if it is late, and not concerned if it is not.                *)
LEMMA HiddenRemoved ==
  ASSUME NEW q, NEW c, c.shard = q, NEW o, o.block = c, ExecuteRemove(o),
         NEW b, c \in Reverting(q) \/ (o.kind = "remove" /\ o \in arrived'),
         NEW id, Hidden(id, b), GrowsAt(b.shard), b.timestamp \in Nat,
         \A r \in Reverted(b.shard) : /\ r.hash # b.hash /\ r.shard = b.shard
                                      /\ r.timestamp \in Nat
  PROVE  Hidden(id, b)' \/ Disturbed("accountsesdt", id, b)'
<1>1. PICK r \in Gone(b.shard) : r.timestamp > b.timestamp /\ Missed("accountsesdt", id, r)
  BY DEF Hidden
<1>2. CASE o.index = "accountsesdt" /\ r = c
  <2>1. r \in Reverted(b.shard) /\ r \notin Reverting(b.shard) /\ r.shard = b.shard
    BY <1>1 DEF Gone
  <2>2. o.kind = "remove" /\ o \in arrived'
    BY <1>2, <2>1
  <2>3. r.timestamp >= b.timestamp /\ r.hash # b.hash
    BY <1>1, <2>1
  <2> QED
    BY <1>2, <2>1, <2>2, <2>3 DEF Disturbed
<1>3. CASE o.index # "accountsesdt" \/ r # c
  <2> DEFINE m == [index |-> "accountsesdt", id |-> id, block |-> r]
  <2>1. m \in missed /\ (m.index # o.index \/ m.block # o.block)
    BY <1>1, <1>3 DEF Missed
  <2>2. m \in missed'
    BY <2>1, RemoveOther
  <2> QED
    BY <1>1, <2>2 DEF Hidden, Missed, GrowsAt
<1> QED
  BY <1>2, <1>3

(* What is left has the timestamp of its block.                            *)
LEMMA LeftRemoved ==
  ASSUME NEW x, NEW s, NEW id, NEW timestamp, NEW o, ExecuteRemove(o), GrowsAt(s),
         Left(x, s, id, timestamp)
  PROVE  \/ Left(x, s, id, timestamp)'
         \/ o.index = x /\ o.block \in Reverted(s) /\ o.block.timestamp = timestamp
<1>1. PICK r \in Reverted(s) : r.timestamp = timestamp /\ Missed(x, id, r)
  BY DEF Left
<1> DEFINE m == [index |-> x, id |-> id, block |-> r]
<1>2. m \in missed /\ m.index = x /\ m.block = r
  BY <1>1 DEF Missed
<1>3. CASE m \in missed'
  BY <1>1, <1>3 DEF Left, Missed, GrowsAt
<1>4. CASE m \notin missed'
  BY <1>1, <1>2, <1>4, RemoveOther
<1> QED
  BY <1>3, <1>4

(* A document that is left alone stays in order.                           *)
LEMMA ESDTHandledKept ==
  ASSUME arrived \subseteq arrived', NEW id, NEW b, accountsESDT'[id] = accountsESDT[id],
         ESDTHandled(id, b),
         Hidden(id, b) => Hidden(id, b)' \/ Disturbed("accountsesdt", id, b)'
  PROVE  ESDTHandled(id, b)'
<1> DEFINE info == PrepareAccountsMapESDT(b)[id]
           doc  == accountsESDT[id]
<1>1. CASE Disturbed("accountsesdt", id, b)
  BY <1>1, DisturbedKept DEF ESDTHandled
<1>2. CASE /\ info.balance # 0 /\ doc # NoDoc
           /\ doc.balance = info.balance /\ doc.timestamp = b.timestamp
           /\ info.frozen => doc.frozen
  BY <1>2 DEF ESDTHandled
<1>3. CASE info.balance = 0 /\ doc = NoDoc
  BY <1>3 DEF ESDTHandled
<1>4. CASE info.balance = 0 /\ doc # NoDoc /\ WrittenLate("accountsesdt", id, doc.timestamp)
  <2>1. WrittenLate("accountsesdt", id, doc.timestamp)'
    BY <1>4 DEF WrittenLate
  <2> QED
    BY <1>4, <2>1 DEF ESDTHandled
<1>5. CASE Hidden(id, b)
  BY <1>5 DEF ESDTHandled
<1> QED
  BY <1>1, <1>2, <1>3, <1>4, <1>5 DEF ESDTHandled

(* And keeps its origin.                                                   *)
LEMMA ESDTFromKept ==
  ASSUME arrived \subseteq arrived', NEW s, NEW id, accountsESDT'[id] = accountsESDT[id],
         Traced(s), ESDTFrom(s, id), Remembers("accountsesdt")
  PROVE  ESDTFrom(s, id)'
<1>1. PICK c \in Saved(s) :
        /\ id \in ESDTIdsOf(c) /\ c.timestamp = accountsESDT[id].timestamp
        /\ \/ c \in Chain(s)
           \/ c \in Reverting(s) /\ pc[s] = "first"
           \/ WrittenLate("accountsesdt", id, c.timestamp)
           \/ Left("accountsesdt", s, id, c.timestamp)
  BY DEF ESDTFrom
<1>2. c \in Saved(s)'
  BY DEF Traced
<1>3. \/ c \in Chain(s)'
      \/ c \in Reverting(s)' /\ pc'[s] = "first"
      \/ WrittenLate("accountsesdt", id, c.timestamp)'
      \/ Left("accountsesdt", s, id, c.timestamp)'
  BY <1>1, WrittenLateKept, LeftKept DEF Traced
<1>4. accountsESDT'[id].shard = s
  BY DEF ESDTFrom
<1> QED
  BY <1>1, <1>2, <1>3, <1>4 DEF ESDTFrom

(* A late save operation on a document is one of a block of its shard.     *)
LEMMA LateWriter ==
  ASSUME DeliveryTypes, DeliveryInv, NEW o \in arrived, o.kind = "save",
         o.index \in {"accountsesdt", "accountsesdthistory"}
  PROVE  /\ o.block.shard \in Shards /\ o.block \in Saved(o.block.shard)
         /\ o.id \in ESDTIdsOf(o.block) /\ o.block.shard = ShardOf[o.id[1]]
<1>1. o.block \in Saved(o.block.shard) /\ o \in SaveOps(o.block)
  BY DEF DeliveryInv, OperationInv
<1>2. o.block.shard \in Shards
  BY DEF DeliveryTypes, OperationType, Blocks
<1>3. o.id \in ESDTIdsOf(o.block)
  BY <1>1 DEF SaveOps
<1>4. o.block \in Blocks /\ o.block.altered \in Contents[o.block.shard]
  BY <1>1, <1>2, SavedBlock
<1> QED
  BY <1>1, <1>2, <1>3, <1>4, ESDTInfo

(* A request of block c leaves the documents of handled blocks in order.   *)
LEMMA ESDTStays ==
  ASSUME TypeOK, DeliveryInv, ESDTInv, arrived \subseteq arrived', \A r \in Shards : GrowsAt(r),
         NEW q \in Shards, NEW c \in Saved(q), NEW ops, ExecuteSave(c, ops), Origin(q, c, ops),
         NEW s \in Shards, NEW b \in Handled(s), NEW id \in ESDTIdsOf(b), LastSaved(s, id, b)
  PROVE  ESDTHandled(id, b)'
<1>0. IndexTypes /\ DeliveryTypes
  BY Split
<1>1. c \in Blocks /\ c.shard = q /\ c.altered \in Contents[q] /\ c.timestamp \in Nat
  BY <1>0, SavedBlock
<1>2. b \in Saved(s) /\ \A p \in Saving(s) : p.hash # b.hash
  BY <1>0, HandledBlock
<1>3. /\ b \in Blocks /\ b.shard = s /\ b.altered \in Contents[s]
      /\ b.timestamp \in Nat /\ b.hash \in Nat
  BY <1>0, <1>2, SavedBlock
<1>4. id \in ESDTIds /\ ShardOf[id[1]] = s
  BY <1>3, ESDTInfo
<1>5. ESDTHandled(id, b)
  BY DEF ESDTInv
<1>8. Hidden(id, b) => Hidden(id, b)'
  <2>1. Remembers("accountsesdt")
    BY SaveRemembers
  <2> QED
    BY <1>3, <2>1, HiddenKept
<1>6. CASE accountsESDT'[id] = accountsESDT[id]
  BY <1>5, <1>6, <1>8, ESDTHandledKept
<1>7. CASE accountsESDT'[id] # accountsESDT[id]
  <2> DEFINE info == PrepareAccountsMapESDT(c)[id]
  <2>1. /\ id \in IdsOf(ops, "accountsesdt") /\ id \in ESDTIdsOf(c)
        /\ \/ info.balance # 0 /\ Written(accountsESDT[id], accountsESDT'[id], info)
           \/ info.balance = 0 /\ Deleted(accountsESDT[id], accountsESDT'[id], info)
    BY <1>0, <1>1, <1>4, <1>7, SaveESDT DEF Newer
  <2>2. info.timestamp = c.timestamp /\ q = s
    BY <1>1, <1>4, <2>1, ESDTInfo
  <2>3. c \notin Saving(s)
    <3>1. SUFFICES ASSUME c \in Saving(s) PROVE FALSE
      OBVIOUS
    <3>2. b.hash <= c.hash /\ c.hash <= b.hash /\ c.hash \in Nat
      BY <1>0, <1>2, <2>1, <2>2, <3>1, SavedBlock DEF DeliveryInv, ChainInv, LastSaved
    <3> QED
      BY <1>2, <1>3, <3>1, <3>2
  <2>4. PICK o \in arrived' :
          o.kind = "save" /\ o.index = "accountsesdt" /\ o.id = id /\ o.block = c
    BY <2>1, <2>2, <2>3 DEF Origin
  <2>5. CASE c = b
    BY <2>1, <2>2, <2>5 DEF Written, Deleted, ESDTHandled
  <2>6. CASE c # b /\ c.timestamp >= b.timestamp
    <3>1. c.hash # b.hash
      BY <1>0, <1>2, <2>2, <2>6, SavedBlock
    <3>2. Disturbed("accountsesdt", id, b)'
      BY <1>1, <1>3, <2>2, <2>4, <2>6, <3>1 DEF Disturbed
    <3> QED
      BY <3>2 DEF ESDTHandled
  <2>7. CASE c.timestamp < b.timestamp
    <3> HIDE DEF info
    <3> DEFINE mine == PrepareAccountsMapESDT(b)[id]
    <3>1. CASE mine.balance # 0
      <4>1. ~(accountsESDT[id] # NoDoc /\ accountsESDT[id].timestamp = b.timestamp)
        BY <1>1, <1>3, <2>1, <2>2, <2>7 DEF Written, Deleted
      <4>2. Disturbed("accountsesdt", id, b) \/ Hidden(id, b)
        BY <1>5, <3>1, <4>1 DEF ESDTHandled
      <4> QED
        BY <1>8, <4>2, DisturbedKept DEF ESDTHandled
    <3>2. CASE mine.balance = 0
      <4>1. CASE accountsESDT'[id] = NoDoc
        BY <3>2, <4>1 DEF ESDTHandled
      <4>2. CASE accountsESDT'[id] # NoDoc
        <5>1. accountsESDT'[id].timestamp = c.timestamp
          BY <2>1, <2>2, <4>2 DEF Written, Deleted
        <5>2. WrittenLate("accountsesdt", id, accountsESDT[id].timestamp)'
          BY <2>4, <5>1 DEF WrittenLate
        <5> QED
          BY <3>2, <4>2, <5>2 DEF ESDTHandled
      <4> QED
        BY <4>1, <4>2
    <3> QED
      BY <3>1, <3>2
  <2> QED
    BY <1>1, <1>3, <2>5, <2>6, <2>7
<1> QED
  BY <1>6, <1>7

(* The documents of a request come from its block.                         *)
LEMMA ESDTComesFrom ==
  ASSUME TypeOK, DeliveryInv, ESDTInv, arrived \subseteq arrived', \A r \in Shards : Traced(r),
         NEW q \in Shards, NEW c \in Saved(q), NEW ops, ExecuteSave(c, ops), Origin(q, c, ops),
         NEW id \in ESDTIds, accountsESDT'[id] # NoDoc
  PROVE  ESDTFrom(ShardOf[id[1]], id)'
<1>0. IndexTypes /\ DeliveryTypes
  BY Split
<1>1. c \in Blocks /\ c.shard = q /\ c.altered \in Contents[q]
  BY <1>0, SavedBlock
<1>2. ShardOf[id[1]] \in Shards
  BY AlteredAssumption DEF ESDTIds
<1>3. CASE accountsESDT'[id] = accountsESDT[id]
  <2>1. ESDTFrom(ShardOf[id[1]], id) /\ Remembers("accountsesdt")
    BY <1>3, SaveRemembers DEF ESDTInv
  <2> QED
    BY <1>2, <1>3, <2>1, ESDTFromKept
<1>4. CASE accountsESDT'[id] # accountsESDT[id]
  <2> DEFINE info == PrepareAccountsMapESDT(c)[id]
  <2>1. /\ id \in IdsOf(ops, "accountsesdt") /\ id \in ESDTIdsOf(c)
        /\ Written(accountsESDT[id], accountsESDT'[id], info)
    BY <1>0, <1>1, <1>4, SaveESDT DEF Newer, Deleted
  <2>2. info.timestamp = c.timestamp /\ info.shard = c.shard /\ ShardOf[id[1]] = q
    BY <1>1, <2>1, ESDTInfo
  <2>3. \/ c \in Chain(q)'
        \/ c \in Reverting(q)' /\ pc'[q] = "first"
        \/ WrittenLate("accountsesdt", id, c.timestamp)'
    <3>1. CASE c \in Saving(q)
      <4>1. c \in Chain(q)
        BY <3>1 DEF DeliveryInv, ChainInv
      <4> QED
        BY <4>1 DEF Traced
    <3>2. CASE c \notin Saving(q)
      BY <2>1, <3>2 DEF Origin, WrittenLate
    <3> QED
      BY <3>1, <3>2
  <2>4. c \in Saved(q)'
    BY DEF Traced
  <2> HIDE DEF info
  <2> QED
    BY <1>1, <2>1, <2>2, <2>3, <2>4 DEF ESDTFrom, Written
<1> QED
  BY <1>3, <1>4

(* Steps that do not touch the index "accountsesdt".                       *)
LEMMA ESDTUntouched ==
  ASSUME ESDTInv, arrived \subseteq arrived', accountsESDT' = accountsESDT,
         Remembers("accountsesdt"), DeliveryTypes, DeliveryInv,
         \A r \in Shards : Traced(r) /\ Handled(r)' \subseteq Handled(r)
  PROVE  ESDTInv'
<1>1. ASSUME NEW s \in Shards, NEW b \in Handled(s)', NEW id \in ESDTIdsOf(b),
             LastSaved(s, id, b)'
      PROVE  ESDTHandled(id, b)'
  <2>1. LastSaved(s, id, b)
    BY <1>1 DEF LastSaved, Traced
  <2>2. ESDTHandled(id, b)
    BY <2>1 DEF ESDTInv
  <2>3. b.shard = s
    BY HandledBlock, SavedBlock
  <2> QED
    BY <2>2, <2>3, HiddenKept, ESDTHandledKept DEF Traced
<1>2. ASSUME NEW id \in ESDTIds, accountsESDT[id] # NoDoc
      PROVE  ESDTFrom(ShardOf[id[1]], id)'
  <2>1. ShardOf[id[1]] \in Shards /\ ESDTFrom(ShardOf[id[1]], id)
    BY <1>2, AlteredAssumption DEF ESDTIds, ESDTInv
  <2> QED
    BY <2>1, ESDTFromKept
<1> QED
  BY <1>1, <1>2 DEF ESDTInv

(* The block whose whole request was executed has its balances in the      *)
(* index, unless a late operation is in the way.                           *)
LEMMA ESDTAppears ==
  ASSUME TypeOK, DeliveryInv, ESDTInv, arrived \subseteq arrived',
         NEW s \in Shards, NEW p \in Saving(s), Reverting(s) = {}, GrowsAt(s),
         ExecuteSave(p, SaveOps(p)), NEW id \in ESDTIdsOf(p)
  PROVE  ESDTHandled(id, p)'
<1>0. IndexTypes /\ DeliveryTypes
  BY Split
<1>1. /\ p \in Chain(s) /\ p \in Saved(s) /\ \A c \in Saved(s) : c.hash <= p.hash
      /\ \A b, c \in Chain(s) : b.hash < c.hash => b.timestamp < c.timestamp
  BY ChainSets DEF DeliveryInv, ChainInv
<1>2. p \in Blocks /\ p.shard = s /\ p.altered \in Contents[s] /\ p.timestamp \in Nat
  BY <1>0, <1>1, SavedBlock
<1> DEFINE info == PrepareAccountsMapESDT(p)[id]
<1>3. id \in ESDTIds /\ ShardOf[id[1]] = s /\ info.timestamp = p.timestamp
  BY <1>2, ESDTInfo
<1>4. \/ info.balance # 0 /\ Written(accountsESDT[id], accountsESDT'[id], info)
      \/ info.balance = 0 /\ Deleted(accountsESDT[id], accountsESDT'[id], info)
      \/ Newer(accountsESDT[id], accountsESDT'[id], info)
  BY <1>0, <1>2, <1>3, SaveESDT, IdsOfSave
<1>5. CASE \/ info.balance # 0 /\ Written(accountsESDT[id], accountsESDT'[id], info)
           \/ info.balance = 0 /\ Deleted(accountsESDT[id], accountsESDT'[id], info)
  BY <1>3, <1>5 DEF Written, Deleted, ESDTHandled
<1>6. CASE Newer(accountsESDT[id], accountsESDT'[id], info)
  <2>1. accountsESDT[id] # NoDoc /\ accountsESDT[id].timestamp > p.timestamp
    BY <1>3, <1>6 DEF Newer
  <2>2. PICK c \in Saved(s) :
          /\ c.timestamp = accountsESDT[id].timestamp
          /\ \/ c \in Chain(s)
             \/ WrittenLate("accountsesdt", id, c.timestamp)
             \/ Left("accountsesdt", s, id, c.timestamp)
    BY <1>3, <2>1 DEF ESDTInv, ESDTFrom
  <2>3. c.timestamp \in Nat /\ c.hash \in Nat /\ p.hash \in Nat /\ c.timestamp > p.timestamp
    BY <1>0, <1>1, <2>1, <2>2, SavedBlock
  <2>4. c \notin Chain(s)
    <3>1. SUFFICES ASSUME c \in Chain(s) PROVE FALSE
      OBVIOUS
    <3>2. c.hash < p.hash \/ c.hash = p.hash
      BY <1>1, <2>2, <2>3
    <3>3. c.hash = p.hash => c = p
      BY <1>0, <1>1, <2>2, SavedBlock
    <3> QED
      BY <1>1, <1>2, <2>3, <3>1, <3>2, <3>3
  <2>5. CASE WrittenLate("accountsesdt", id, c.timestamp)
    <3>1. PICK o \in arrived : /\ o.kind = "save" /\ o.index = "accountsesdt" /\ o.id = id
                               /\ o.block.timestamp = c.timestamp
      BY <2>5 DEF WrittenLate
    <3>2. o.block \in Saved(s) /\ o.block.shard = s
      BY <1>0, <1>3, <3>1, LateWriter DEF ESDTIndexes
    <3>3. o.block.hash # p.hash
      <4>1. o.block.hash = p.hash => o.block = p
        BY <1>0, <1>1, <3>2, SavedBlock
      <4> QED
        BY <1>2, <2>3, <3>1, <4>1
    <3>4. Disturbed("accountsesdt", id, p)
      BY <1>2, <2>3, <3>1, <3>2, <3>3 DEF Disturbed
    <3> QED
      BY <3>4, DisturbedKept DEF ESDTHandled
  <2>6. CASE Left("accountsesdt", s, id, c.timestamp)
    <3>1. Hidden(id, p)
      BY <1>2, <2>3, <2>6 DEF Left, Hidden, Gone
    <3>2. Hidden(id, p)'
      BY <1>2, <3>1, SaveRemembers, HiddenKept
    <3> QED
      BY <3>2 DEF ESDTHandled
  <2> QED
    BY <2>2, <2>4, <2>5, <2>6
<1> QED
  BY <1>4, <1>5, <1>6

(* The balance of a handled block is not taken away, unless the query      *)
(* remove is late.                                                         *)
LEMMA ESDTSurvives ==
  ASSUME TypeOK, DeliveryInv, ESDTInv, arrived \subseteq arrived', \A r \in Shards : GrowsAt(r),
         NEW q \in Shards, NEW c \in Saved(q), NEW o, o.index = "accountsesdt", o.block = c,
         ExecuteRemove(o), NEW s \in Shards, NEW b \in Handled(s), NEW id \in ESDTIdsOf(b),
         LastSaved(s, id, b),
         c \in Reverting(q) \/ (c \in Reverted(q) /\ o.kind = "remove" /\ o \in arrived')
  PROVE  ESDTHandled(id, b)'
<1>0. IndexTypes /\ DeliveryTypes
  BY Split
<1>1. c.shard = q /\ c.timestamp \in Nat
  BY <1>0, SavedBlock
<1>2. /\ b \in Saved(s) /\ \A r \in Reverting(s) : b.timestamp < r.timestamp
      /\ \A r \in Reverted(s) : r.hash # b.hash
  BY <1>0, HandledBlock
<1>3. b \in Blocks /\ b.shard = s /\ b.altered \in Contents[s] /\ b.timestamp \in Nat
  BY <1>0, <1>2, SavedBlock
<1>4. id \in ESDTIds /\ ShardOf[id[1]] = s
  BY <1>3, ESDTInfo
<1>5. ESDTHandled(id, b)
  BY DEF ESDTInv
<1>8. Hidden(id, b) => Hidden(id, b)' \/ Disturbed("accountsesdt", id, b)'
  <2>1. \A r \in Reverted(s) : r \in Saved(s) /\ r.shard = s /\ r.timestamp \in Nat
    BY <1>0, SavedBlock DEF DeliveryInv, SavedInv
  <2> QED
    BY <1>1, <1>2, <1>3, <2>1, HiddenRemoved
<1>6. CASE accountsESDT'[id] = accountsESDT[id]
  BY <1>5, <1>6, <1>8, ESDTHandledKept
<1>7. CASE accountsESDT'[id] # accountsESDT[id]
  <2>1. /\ accountsESDT[id] # NoDoc /\ accountsESDT[id].shard = q
        /\ accountsESDT[id].timestamp = c.timestamp /\ accountsESDT'[id] = NoDoc
    BY <1>1, <1>4, <1>7, RemoveESDT
  <2>2. q = s
    BY <1>4, <2>1 DEF ESDTInv, ESDTFrom
  <2>3. CASE PrepareAccountsMapESDT(b)[id].balance = 0
    BY <2>1, <2>3 DEF ESDTHandled
  <2>4. CASE Disturbed("accountsesdt", id, b)
    BY <2>4, DisturbedKept DEF ESDTHandled
  <2>5. CASE accountsESDT[id].timestamp = b.timestamp
    <3>0. c.timestamp = b.timestamp
      BY <2>1, <2>5
    <3>1. c \notin Reverting(q)
      BY <1>1, <1>2, <1>3, <2>2, <3>0
    <3>2. c \in Reverted(q) /\ o.kind = "remove" /\ o \in arrived'
      BY <3>1
    <3>3. c.hash # b.hash
      BY <1>2, <2>2, <3>2
    <3>4. Disturbed("accountsesdt", id, b)'
      BY <1>1, <1>3, <2>2, <3>0, <3>2, <3>3 DEF Disturbed
    <3> QED
      BY <3>4 DEF ESDTHandled
  <2> QED
    BY <1>5, <1>8, <2>3, <2>4, <2>5 DEF ESDTHandled
<1> QED
  BY <1>6, <1>7

(* Every move keeps ESDTInv.                                               *)
LEMMA ESDTMove ==
  ASSUME TypeOK, DeliveryInv, ESDTInv, Move
  PROVE  ESDTInv'
<1>0. IndexTypes /\ DeliveryTypes
  BY Split
<1>1. \A r : QuietAt(r) => Traced(r) /\ Handled(r)' \subseteq Handled(r)
  BY DEF QuietAt, Traced
<1>2. CASE QuietMove
  BY <1>0, <1>1, <1>2, ESDTUntouched DEF QuietMove, indexes, Remembers
<1>3. ASSUME NEW s \in Shards, NEW p \in Saving(s), NEW ops \in SUBSET SaveOps(p),
             SaveMove(s, p, ops)
      PROVE  ESDTInv'
  <2>1. /\ ExecuteSave(p, ops) /\ arrived \subseteq arrived' /\ Origin(s, p, ops)
        /\ Reverting(s) = {}
    BY <1>3 DEF SaveMove, Origin
  <2>2. p \in Saved(s)
    BY ChainSets DEF DeliveryInv, ChainInv
  <2>3. \A r \in Shards : Traced(r) /\ GrowsAt(r)
    BY <1>1, <1>3 DEF SaveMove, Traced
  <2>4. ASSUME NEW r \in Shards, NEW b \in Handled(r)', NEW id \in ESDTIdsOf(b),
               LastSaved(r, id, b)'
        PROVE  ESDTHandled(id, b)'
    <3>1. LastSaved(r, id, b)
      BY <2>3, <2>4 DEF LastSaved, Traced
    <3>2. CASE b \in Handled(r)
      BY <2>1, <2>2, <2>3, <3>1, <3>2, ESDTStays
    <3>3. CASE b \notin Handled(r)
      <4>1. r = s /\ b = p /\ ops = SaveOps(p)
        BY <1>1, <1>3, <3>3 DEF SaveMove
      <4> QED
        BY <2>1, <2>3, <4>1, ESDTAppears
    <3> QED
      BY <3>2, <3>3
  <2>5. \A id \in ESDTIds : accountsESDT'[id] # NoDoc => ESDTFrom(ShardOf[id[1]], id)'
    BY <2>1, <2>2, <2>3, ESDTComesFrom
  <2> QED
    BY <2>4, <2>5 DEF ESDTInv
<1>4. ASSUME NEW s \in Shards, NEW c \in Reverting(s), NEW x, RemoveMove(s, c, x)
      PROVE  ESDTInv'
  <2> DEFINE o == RemoveOp(x, c)
  <2>1. o.index = x /\ o.block = c /\ ExecuteRemove(o)
    BY <1>4 DEF RemoveMove, RemoveOp
  <2>2. /\ arrived \subseteq arrived'
        /\ \A r \in Shards : /\ Saved(r) \subseteq Saved(r)' /\ GrowsAt(r)
                             /\ Handled(r)' \subseteq Handled(r)
        /\ \A r \in Shards \ {s} : Traced(r)
    BY <1>1, <1>4 DEF RemoveMove, Traced
  <2> HIDE DEF o
  <2>3. CASE x = "accountsesdthistory"
    <3>1. accountsESDT' = accountsESDT /\ Remembers("accountsesdt")
      BY <1>0, <2>1, <2>3, RemoveUntouched
    <3>2. Traced(s)
      BY <1>4, <2>3 DEF RemoveMove, Traced
    <3> QED
      BY <1>0, <2>2, <3>1, <3>2, ESDTUntouched
  <2>4. CASE x = "accountsesdt"
    <3>1. c \in Saved(s)
      BY DEF DeliveryInv, ChainInv, SavedInv
    <3>2. ASSUME NEW r \in Shards, NEW b \in Handled(r)', NEW id \in ESDTIdsOf(b),
                 LastSaved(r, id, b)'
          PROVE  ESDTHandled(id, b)'
      <4>1. LastSaved(r, id, b)
        BY <2>2, <3>2 DEF LastSaved
      <4>2. b \in Handled(r)
        BY <2>2
      <4> QED
        BY <2>1, <2>2, <2>4, <3>1, <4>1, <4>2, ESDTSurvives
    <3>3. c \in Reverted(s) /\ c.shard = s
      BY <1>0, <3>1, SavedBlock DEF DeliveryInv, ChainInv
    <3>4. ASSUME NEW id \in ESDTIds, accountsESDT'[id] # NoDoc
          PROVE  ESDTFrom(ShardOf[id[1]], id)'
      <4> DEFINE r == ShardOf[id[1]]
      <4>1. r \in Shards
        BY AlteredAssumption DEF ESDTIds
      <4>2. ESDTFrom(r, id) /\ accountsESDT'[id] = accountsESDT[id]
        BY <2>1, <2>4, <3>4, RemoveESDT DEF ESDTInv
      <4>3. PICK w \in Saved(r) :
              /\ id \in ESDTIdsOf(w) /\ w.timestamp = accountsESDT[id].timestamp
              /\ \/ w \in Chain(r)
                 \/ w \in Reverting(r) /\ pc[r] = "first"
                 \/ WrittenLate("accountsesdt", id, w.timestamp)
                 \/ Left("accountsesdt", r, id, w.timestamp)
        BY <4>2 DEF ESDTFrom
      <4>4. w \in Saved(r)' /\ accountsESDT[id].shard = r
        BY <2>2, <4>1, <4>2 DEF ESDTFrom
      <4> SUFFICES \/ w \in Chain(r)'
                   \/ w \in Reverting(r)' /\ pc'[r] = "first"
                   \/ WrittenLate("accountsesdt", id, w.timestamp)'
                   \/ Left("accountsesdt", r, id, w.timestamp)'
        BY <4>2, <4>3, <4>4 DEF ESDTFrom
      <4>5. CASE r = s /\ w.timestamp = c.timestamp
        <5>1. /\ accountsESDT[id] # NoDoc
              /\ accountsESDT[id].shard = c.shard /\ accountsESDT[id].timestamp = c.timestamp
          BY <3>3, <3>4, <4>2, <4>3, <4>4, <4>5
        <5>2. Missed("accountsesdt", id, c)'
          BY <2>1, <2>4, <3>4, <5>1, RemoveESDT
        <5>3. c \in Reverted(s)'
          BY <2>2, <3>3 DEF GrowsAt
        <5> QED
          BY <4>5, <5>2, <5>3 DEF Left
      <4>6. CASE ~(r = s /\ w.timestamp = c.timestamp)
        <5>1. CASE w \in Chain(r) \/ (w \in Reverting(r) /\ pc[r] = "first")
          <6>1. CASE r # s
            BY <2>2, <4>1, <5>1, <6>1 DEF Traced
          <6>2. CASE r = s
            <7>1. w \in Chain(s) /\ Chain(s)' = Chain(s)
              BY <1>4, <4>6, <5>1, <6>2 DEF RemoveMove
            <7> QED
              BY <6>2, <7>1
          <6> QED
            BY <6>1, <6>2
        <5>2. CASE WrittenLate("accountsesdt", id, w.timestamp)
          BY <2>2, <5>2, WrittenLateKept
        <5>3. CASE Left("accountsesdt", r, id, w.timestamp)
          <6>1. c \in Reverted(r) => r = s
            BY <1>0, <3>3, <4>1, SavedBlock DEF DeliveryInv, SavedInv
          <6> QED
            BY <2>1, <2>2, <4>1, <4>6, <5>3, <6>1, LeftRemoved
        <5> QED
          BY <4>3, <5>1, <5>2, <5>3
      <4> QED
        BY <4>5, <4>6
    <3> QED
      BY <3>2, <3>4 DEF ESDTInv
  <2> QED
    BY <1>4, <2>3, <2>4 DEF RemoveMove
<1>5. ASSUME NEW o \in arrived', LateMove(o)
      PROVE  ESDTInv'
  <2> DEFINE c == o.block
             q == c.shard
  <2>1. /\ arrived \subseteq arrived' /\ q \in Shards /\ OperationInv(o) /\ c \in Saved(q)
        /\ \A r \in Shards : Traced(r) /\ GrowsAt(r) /\ Handled(r)' \subseteq Handled(r)
    BY <1>1, <1>5 DEF LateMove, OperationInv, Traced
  <2>2. CASE o.kind = "save"
    <3>1. ExecuteSave(c, {o}) /\ o \in SaveOps(c)
      BY <1>5, <2>1, <2>2 DEF LateMove, OperationInv
    <3>2. Origin(q, c, {o})
      BY <3>1, IdsOfLate DEF Origin
    <3> HIDE DEF c, q
    <3>3. ASSUME NEW r \in Shards, NEW b \in Handled(r)', NEW id \in ESDTIdsOf(b),
                 LastSaved(r, id, b)'
          PROVE  ESDTHandled(id, b)'
      <4>1. LastSaved(r, id, b) /\ b \in Handled(r)
        BY <2>1, <3>3 DEF LastSaved, Traced
      <4> QED
        BY <2>1, <3>1, <3>2, <4>1, ESDTStays
    <3>4. \A id \in ESDTIds : accountsESDT'[id] # NoDoc => ESDTFrom(ShardOf[id[1]], id)'
      BY <2>1, <3>1, <3>2, ESDTComesFrom
    <3> QED
      BY <3>3, <3>4 DEF ESDTInv
  <2>3. CASE o.kind = "remove" /\ o.index # "accountsesdt"
    <3>1. accountsESDT' = accountsESDT /\ Remembers("accountsesdt")
      BY <1>0, <1>5, <2>3, RemoveUntouched DEF LateMove
    <3> QED
      BY <1>0, <2>1, <3>1, ESDTUntouched
  <2>4. CASE o.kind = "remove" /\ o.index = "accountsesdt"
    <3>1. ExecuteRemove(o) /\ c \in Reverted(q)
      BY <1>5, <2>1, <2>4 DEF LateMove, OperationInv
    <3>0. o.block = c
      OBVIOUS
    <3> HIDE DEF c, q
    <3>2. ASSUME NEW r \in Shards, NEW b \in Handled(r)', NEW id \in ESDTIdsOf(b),
                 LastSaved(r, id, b)'
          PROVE  ESDTHandled(id, b)'
      <4>1. LastSaved(r, id, b) /\ b \in Handled(r)
        BY <2>1, <3>2 DEF LastSaved, Traced
      <4> QED
        BY <2>1, <2>4, <3>0, <3>1, <4>1, ESDTSurvives
    <3>3. ASSUME NEW id \in ESDTIds, accountsESDT'[id] # NoDoc
          PROVE  ESDTFrom(ShardOf[id[1]], id)'
      <4>1. ShardOf[id[1]] \in Shards
        BY AlteredAssumption DEF ESDTIds
      <4> DEFINE r == ShardOf[id[1]]
      <4>2. ESDTFrom(r, id) /\ accountsESDT'[id] = accountsESDT[id]
        BY <2>4, <3>0, <3>1, <3>3, RemoveESDT DEF ESDTInv
      <4>3. PICK w \in Saved(r) :
              /\ id \in ESDTIdsOf(w) /\ w.timestamp = accountsESDT[id].timestamp
              /\ \/ w \in Chain(r)
                 \/ w \in Reverting(r) /\ pc[r] = "first"
                 \/ WrittenLate("accountsesdt", id, w.timestamp)
                 \/ Left("accountsesdt", r, id, w.timestamp)
        BY <4>2 DEF ESDTFrom
      <4>4. w \in Saved(r)' /\ accountsESDT[id].shard = r
        BY <2>1, <4>1, <4>2 DEF ESDTFrom, Traced
      <4>5. c.shard = q
        BY <1>0, <2>1, SavedBlock
      <4>6. \/ w \in Chain(r)'
            \/ w \in Reverting(r)' /\ pc'[r] = "first"
            \/ WrittenLate("accountsesdt", id, w.timestamp)'
            \/ Left("accountsesdt", r, id, w.timestamp)'
        <5>1. CASE w \in Chain(r) \/ (w \in Reverting(r) /\ pc[r] = "first")
          BY <2>1, <4>1, <5>1 DEF Traced
        <5>2. CASE WrittenLate("accountsesdt", id, w.timestamp)
          BY <2>1, <5>2, WrittenLateKept
        <5>3. CASE Left("accountsesdt", r, id, w.timestamp)
          <6>1. CASE Left("accountsesdt", r, id, w.timestamp)'
            BY <6>1
          <6>2. CASE c \in Reverted(r) /\ c.timestamp = w.timestamp
            <7>1. r = q
              BY <1>0, <4>1, <4>5, <6>2, SavedBlock DEF DeliveryInv, SavedInv
            <7>2. Missed("accountsesdt", id, c)' /\ c \in Reverted(r)'
              BY <2>1, <2>4, <3>0, <3>1, <3>3, <4>1, <4>3, <4>4, <4>5, <6>2, <7>1, RemoveESDT DEF GrowsAt
            <7> QED
              BY <6>2, <7>2 DEF Left
          <6> QED
            BY <2>1, <2>4, <3>0, <3>1, <4>1, <5>3, <6>1, <6>2, LeftRemoved
        <5> QED
          BY <4>3, <5>1, <5>2, <5>3
      <4> QED
        BY <4>2, <4>3, <4>4, <4>6 DEF ESDTFrom
    <3> QED
      BY <3>2, <3>3 DEF ESDTInv
  <2> QED
    BY <2>1, <2>2, <2>3, <2>4 DEF OperationInv
<1> QED
  BY <1>2, <1>3, <1>4, <1>5 DEF Move
-----------------------------------------------------------------------------
(***************************************************************************)
(* HistoryInv is inductive.                                                *)
(***************************************************************************)
Followed(r) ==
  GrowsAt(r) /\ Chain(r) \cup Reverting(r) \subseteq Chain(r)' \cup Reverting(r)'

InHistory(b) ==
  \/ HistoryOf(b) \subseteq accountsESDTHistory
  \/ \E id \in ESDTIds : Disturbed("accountsesdthistory", id, b)

(* The entries of a block: one for every balance it changes.               *)
LEMMA HistoryEntry ==
  ASSUME NEW s \in Shards, NEW b \in Blocks, b.altered \in Contents[s], NEW d \in HistoryOf(b)
  PROVE  /\ d.id \in ESDTIdsOf(b) /\ d.id \in ESDTIds /\ ShardOf[d.id[1]] = s
         /\ d.timestamp = b.timestamp /\ d.shard = b.shard
         /\ \A e \in HistoryOf(b) : e.id = d.id => e = d
<1> DEFINE map == PrepareAccountsMapESDT(b)
           entry(id) == [id |-> id, balance |-> map[id].balance,
                         timestamp |-> map[id].timestamp, shard |-> map[id].shard]
<1>1. DOMAIN map = ESDTIdsOf(b)
  BY DEF PrepareAccountsMapESDT
<1>2. HistoryOf(b) = {entry(id) : id \in ESDTIdsOf(b)}
  BY <1>1 DEF HistoryOf, PrepareAccountsHistory
<1> HIDE DEF map
<1>3. PICK id \in ESDTIdsOf(b) : d = entry(id)
  BY <1>2
<1>4. d.id = id /\ d.timestamp = map[id].timestamp /\ d.shard = map[id].shard
  BY <1>3
<1>5. \A e \in HistoryOf(b) : e.id = d.id => e = d
  BY <1>2, <1>3
<1>6. id \in ESDTIds /\ ShardOf[id[1]] = s
      /\ map[id].timestamp = b.timestamp /\ map[id].shard = b.shard
  BY ESDTInfo DEF map
<1> QED
  BY <1>4, <1>5, <1>6

(* What a request of block c adds to the history.                          *)
LEMMA SaveHistory ==
  ASSUME NEW c, NEW ops, ExecuteSave(c, ops)
  PROVE  LET new == {d \in HistoryOf(c) : d.id \in IdsOf(ops, "accountsesdthistory")} IN
         /\ new \subseteq accountsESDTHistory'
         /\ \A d \in accountsESDTHistory' : d \in accountsESDTHistory \/ d \in new
         /\ \A d \in accountsESDTHistory : d \notin accountsESDTHistory' =>
              \E n \in new : n.id = d.id /\ n.timestamp = d.timestamp
<1> DEFINE new == {d \in HistoryOf(c) : d.id \in IdsOf(ops, "accountsesdthistory")}
<1>1. accountsESDTHistory' = IndexHistory(accountsESDTHistory, new)
  BY DEF ExecuteSave, HistoryOf
<1> HIDE DEF new
<1>2. /\ new \subseteq accountsESDTHistory'
      /\ \A d \in accountsESDTHistory' : d \in accountsESDTHistory \/ d \in new
      /\ \A d \in accountsESDTHistory : d \notin accountsESDTHistory' =>
           \E n \in new : n.id = d.id /\ n.timestamp = d.timestamp
  BY <1>1 DEF IndexHistory
<1> QED
  BY <1>2 DEF new

(* A request of block c replaces no entry of another block of the chain,   *)
(* unless it is late.                                                      *)
LEMMA HistoryStays ==
  ASSUME TypeOK, DeliveryInv, HistoryInv, arrived \subseteq arrived',
         NEW q \in Shards, NEW c \in Saved(q), NEW ops, ExecuteSave(c, ops), Origin(q, c, ops),
         NEW s \in Shards, NEW b \in Handled(s)
  PROVE  InHistory(b)'
<1>0. IndexTypes /\ DeliveryTypes
  BY Split
<1>1. c \in Blocks /\ c.shard = q /\ c.altered \in Contents[q] /\ c.timestamp \in Nat
  BY <1>0, SavedBlock
<1>2. b \in Saved(s) /\ \A p \in Saving(s) : b.timestamp < p.timestamp
  BY <1>0, HandledBlock
<1>3. b \in Blocks /\ b.shard = s /\ b.altered \in Contents[s] /\ b.timestamp \in Nat
  BY <1>0, <1>2, SavedBlock
<1>4. CASE \E id \in ESDTIds : Disturbed("accountsesdthistory", id, b)
  BY <1>4, DisturbedKept DEF InHistory
<1>5. CASE HistoryOf(b) \subseteq accountsESDTHistory
  <2>1. SUFFICES ASSUME NEW d \in HistoryOf(b), d \notin accountsESDTHistory'
                 PROVE  \E id \in ESDTIds : Disturbed("accountsesdthistory", id, b)'
    BY DEF InHistory
  <2>2. PICK n \in HistoryOf(c) : /\ n.id \in IdsOf(ops, "accountsesdthistory")
                                  /\ n.id = d.id /\ n.timestamp = d.timestamp
                                  /\ n \in accountsESDTHistory'
    BY <1>5, <2>1, SaveHistory
  <2>3. /\ d.id \in ESDTIds /\ ShardOf[d.id[1]] = s /\ d.timestamp = b.timestamp
        /\ \A e \in HistoryOf(b) : e.id = d.id => e = d
    BY <1>3, HistoryEntry
  <2>4. ShardOf[n.id[1]] = q /\ n.timestamp = c.timestamp
    BY <1>1, HistoryEntry
  <2>5. q = s /\ c.timestamp = b.timestamp
    BY <2>2, <2>3, <2>4
  <2>6. c # b
    BY <2>1, <2>2, <2>3
  <2>7. c \notin Saving(q)
    BY <1>2, <1>3, <2>5
  <2>8. PICK o \in arrived' : /\ o.kind = "save" /\ o.index = "accountsesdthistory"
                              /\ o.id = d.id /\ o.block = c
    BY <2>2, <2>7 DEF Origin
  <2>9. c.hash # b.hash
    BY <1>0, <1>2, <2>5, <2>6, SavedBlock
  <2>10. Disturbed("accountsesdthistory", d.id, b)'
    BY <1>1, <1>3, <2>5, <2>8, <2>9 DEF Disturbed
  <2> QED
    BY <2>3, <2>10
<1> QED
  BY <1>4, <1>5 DEF HistoryInv

(* An entry that was there keeps its origin.                               *)
LEMMA HistoryFromKept ==
  ASSUME arrived \subseteq arrived', NEW s, NEW d, Followed(s), HistoryFrom(s, d),
         Remembers("accountsesdthistory")
  PROVE  HistoryFrom(s, d)'
BY WrittenLateKept, LeftKept DEF HistoryFrom, Followed

(* The entries of a request come from its block.                           *)
LEMMA HistoryComesFrom ==
  ASSUME TypeOK, DeliveryInv, HistoryInv, arrived \subseteq arrived',
         \A r \in Shards : Followed(r),
         NEW q \in Shards, NEW c \in Saved(q), NEW ops, ExecuteSave(c, ops), Origin(q, c, ops),
         NEW d \in accountsESDTHistory'
  PROVE  HistoryFrom(d.shard, d)'
<1>0. IndexTypes /\ DeliveryTypes
  BY Split
<1>1. c \in Blocks /\ c.shard = q /\ c.altered \in Contents[q]
  BY <1>0, SavedBlock
<1>2. CASE d \in accountsESDTHistory
  <2>1. d.shard \in Shards /\ HistoryFrom(d.shard, d)
    BY <1>0, <1>2 DEF IndexTypes, HistoryDocs, HistoryInv
  <2> QED
    BY <2>1, HistoryFromKept, SaveRemembers
<1>3. CASE d \notin accountsESDTHistory
  <2>1. d \in HistoryOf(c) /\ d.id \in IdsOf(ops, "accountsesdthistory")
    BY <1>3, SaveHistory
  <2>2. d.shard = q /\ d.timestamp = c.timestamp
    BY <1>1, <2>1, HistoryEntry
  <2>3. CASE c \in Saving(q)
    <3>1. c \in Chain(q)
      BY <2>3 DEF DeliveryInv, ChainInv
    <3> QED
      BY <2>2, <3>1 DEF HistoryFrom, Followed
  <2>4. CASE c \notin Saving(q)
    <3>1. WrittenLate("accountsesdthistory", d.id, d.timestamp)'
      BY <2>1, <2>2, <2>4 DEF Origin, WrittenLate
    <3> QED
      BY <3>1 DEF HistoryFrom
  <2> QED
    BY <2>3, <2>4
<1> QED
  BY <1>2, <1>3

(* Steps that do not touch the history.                                    *)
LEMMA HistoryUntouched ==
  ASSUME TypeOK, HistoryInv, arrived \subseteq arrived',
         accountsESDTHistory' = accountsESDTHistory, Remembers("accountsesdthistory"),
         \A r \in Shards : Followed(r) /\ Handled(r)' \subseteq Handled(r)
  PROVE  HistoryInv'
<1>1. ASSUME NEW s \in Shards, NEW b \in Handled(s)' PROVE InHistory(b)'
  <2>1. InHistory(b)
    BY DEF HistoryInv, InHistory
  <2> QED
    BY <2>1, DisturbedKept DEF InHistory
<1>2. ASSUME NEW d \in accountsESDTHistory PROVE HistoryFrom(d.shard, d)'
  <2>1. d.shard \in Shards /\ HistoryFrom(d.shard, d)
    BY DEF TypeOK, HistoryDocs, HistoryInv
  <2> QED
    BY <2>1, HistoryFromKept
<1> QED
  BY <1>1, <1>2 DEF HistoryInv, InHistory

(* A query remove on the history takes only entries with the shard and the *)
(* timestamp of its block away; such an entry that stays is noted as left. *)
LEMMA RemoveHistory ==
  ASSUME NEW c, NEW o, o.index = "accountsesdthistory", o.block = c, ExecuteRemove(o)
  PROVE  /\ accountsESDTHistory' \subseteq accountsESDTHistory
         /\ \A d \in accountsESDTHistory :
              \/ d \in accountsESDTHistory'
              \/ d.shard = c.shard /\ d.timestamp = c.timestamp
         /\ \A d \in accountsESDTHistory' : d.shard = c.shard /\ d.timestamp = c.timestamp =>
              Missed("accountsesdthistory", d.id, c)'
<1>1. PICK left \in SUBSET Found(o) :
        /\ Miss(o, left)
        /\ accountsESDTHistory' = {d \in accountsESDTHistory :
             d.id \in left \/ ~(d.shard = c.shard /\ d.timestamp = c.timestamp)}
  BY DEF ExecuteRemove, Matches
<1>2. \A id \in left : Missed("accountsesdthistory", id, c)'
  BY <1>1 DEF Miss, Missed
<1> QED
  BY <1>1, <1>2

(* It takes none of a handled block away, unless it is late.               *)
LEMMA HistorySurvives ==
  ASSUME TypeOK, DeliveryInv, HistoryInv, arrived \subseteq arrived',
         NEW q \in Shards, NEW c \in Saved(q), NEW o, o.index = "accountsesdthistory",
         o.block = c, ExecuteRemove(o), NEW s \in Shards, NEW b \in Handled(s),
         c \in Reverting(q) \/ (c \in Reverted(q) /\ o.kind = "remove" /\ o \in arrived')
  PROVE  InHistory(b)'
<1>0. IndexTypes /\ DeliveryTypes
  BY Split
<1>1. c.shard = q /\ c.timestamp \in Nat
  BY <1>0, SavedBlock
<1>2. /\ b \in Saved(s) /\ \A r \in Reverting(s) : b.timestamp < r.timestamp
      /\ \A r \in Reverted(s) : r.hash # b.hash
  BY <1>0, HandledBlock
<1>3. b \in Blocks /\ b.shard = s /\ b.altered \in Contents[s] /\ b.timestamp \in Nat
  BY <1>0, <1>2, SavedBlock
<1>4. CASE \E id \in ESDTIds : Disturbed("accountsesdthistory", id, b)
  BY <1>4, DisturbedKept DEF InHistory
<1>5. CASE HistoryOf(b) \subseteq accountsESDTHistory
  <2>1. SUFFICES ASSUME NEW d \in HistoryOf(b), d \notin accountsESDTHistory'
                 PROVE  \E id \in ESDTIds : Disturbed("accountsesdthistory", id, b)'
    BY DEF InHistory
  <2>2. d.shard = q /\ d.timestamp = c.timestamp
    BY <1>1, <1>5, <2>1, RemoveHistory
  <2>3. d.id \in ESDTIds /\ d.timestamp = b.timestamp /\ d.shard = s
    BY <1>3, HistoryEntry
  <2>4. q = s /\ c.timestamp = b.timestamp
    BY <2>2, <2>3
  <2>5. c \notin Reverting(q)
    BY <1>1, <1>2, <1>3, <2>4
  <2>6. c \in Reverted(q) /\ o.kind = "remove" /\ o \in arrived'
    BY <2>5
  <2>7. c.hash # b.hash
    BY <1>2, <2>4, <2>6
  <2>8. Disturbed("accountsesdthistory", d.id, b)'
    BY <1>1, <1>3, <2>4, <2>6, <2>7 DEF Disturbed
  <2> QED
    BY <2>3, <2>8
<1> QED
  BY <1>4, <1>5 DEF HistoryInv

(* Every move keeps HistoryInv.                                            *)
LEMMA HistoryMove ==
  ASSUME TypeOK, DeliveryInv, HistoryInv, Move
  PROVE  HistoryInv'
<1>0. IndexTypes /\ DeliveryTypes
  BY Split
<1>1. \A r : QuietAt(r) => Followed(r) /\ Handled(r)' \subseteq Handled(r)
  BY DEF QuietAt, Followed
<1>2. CASE QuietMove
  BY <1>1, <1>2, HistoryUntouched DEF QuietMove, indexes, Remembers
<1>3. ASSUME NEW s \in Shards, NEW p \in Saving(s), NEW ops \in SUBSET SaveOps(p),
             SaveMove(s, p, ops)
      PROVE  HistoryInv'
  <2>1. ExecuteSave(p, ops) /\ arrived \subseteq arrived' /\ Origin(s, p, ops)
    BY <1>3 DEF SaveMove, Origin
  <2>2. p \in Saved(s)
    BY ChainSets DEF DeliveryInv, ChainInv
  <2>3. \A r \in Shards : Followed(r)
    BY <1>1, <1>3 DEF SaveMove, Followed
  <2>4. ASSUME NEW r \in Shards, NEW b \in Handled(r)'
        PROVE  InHistory(b)'
    <3>1. CASE b \in Handled(r)
      BY <2>1, <2>2, <3>1, HistoryStays
    <3>2. CASE b \notin Handled(r)
      <4>1. r = s /\ b = p /\ ops = SaveOps(p)
        BY <1>1, <1>3, <3>2 DEF SaveMove
      <4>2. p \in Blocks /\ p.altered \in Contents[s]
        BY <1>0, <2>2, SavedBlock
      <4>3. \A d \in HistoryOf(p) : d.id \in IdsOf(ops, "accountsesdthistory")
        BY <4>1, <4>2, HistoryEntry, IdsOfSave
      <4>4. HistoryOf(p) \subseteq accountsESDTHistory'
        BY <2>1, <4>3, SaveHistory
      <4> QED
        BY <4>1, <4>4 DEF InHistory
    <3> QED
      BY <3>1, <3>2
  <2>5. \A d \in accountsESDTHistory' : HistoryFrom(d.shard, d)'
    BY <2>1, <2>2, <2>3, HistoryComesFrom
  <2> QED
    BY <2>4, <2>5 DEF HistoryInv, InHistory
<1>4. ASSUME NEW s \in Shards, NEW c \in Reverting(s), NEW x, RemoveMove(s, c, x)
      PROVE  HistoryInv'
  <2> DEFINE o == RemoveOp(x, c)
  <2>1. o.index = x /\ o.block = c /\ ExecuteRemove(o)
    BY <1>4 DEF RemoveMove, RemoveOp
  <2>2. /\ arrived \subseteq arrived'
        /\ \A r \in Shards : Handled(r)' \subseteq Handled(r) /\ GrowsAt(r)
        /\ \A r \in Shards \ {s} : Followed(r)
    BY <1>1, <1>4 DEF RemoveMove, Followed
  <2> HIDE DEF o
  <2>3. CASE x = "accountsesdt"
    <3>1. accountsESDTHistory' = accountsESDTHistory /\ Remembers("accountsesdthistory")
      BY <1>0, <2>1, <2>3, RemoveUntouched
    <3>2. Followed(s)
      BY <1>4, <2>3 DEF RemoveMove, Followed
    <3> QED
      BY <2>2, <3>1, <3>2, HistoryUntouched
  <2>4. CASE x = "accountsesdthistory"
    <3>1. c \in Saved(s)
      BY DEF DeliveryInv, ChainInv, SavedInv
    <3>2. ASSUME NEW r \in Shards, NEW b \in Handled(r)' PROVE InHistory(b)'
      <4>1. b \in Handled(r)
        BY <2>2
      <4> QED
        BY <2>1, <2>2, <2>4, <3>1, <4>1, HistorySurvives
    <3>3. c \in Reverted(s) /\ c.shard = s
      BY <1>0, <3>1, SavedBlock DEF DeliveryInv, ChainInv
    <3>4. ASSUME NEW d \in accountsESDTHistory' PROVE HistoryFrom(d.shard, d)'
      <4> DEFINE r == d.shard
      <4>1. d \in accountsESDTHistory
        BY <2>1, <2>4, RemoveHistory
      <4>2. r \in Shards /\ HistoryFrom(r, d)
        BY <1>0, <4>1 DEF IndexTypes, HistoryDocs, HistoryInv
      <4>3. CASE r = s /\ d.timestamp = c.timestamp
        <5>1. Missed("accountsesdthistory", d.id, c)' /\ c \in Reverted(s)'
          BY <2>1, <2>2, <2>4, <3>3, <4>3, RemoveHistory DEF GrowsAt
        <5> QED
          BY <4>3, <5>1 DEF HistoryFrom, Left
      <4>4. CASE ~(r = s /\ d.timestamp = c.timestamp)
        <5>1. CASE \E w \in Chain(r) \cup Reverting(r) : w.timestamp = d.timestamp
          <6>1. CASE r # s
            BY <2>2, <4>2, <5>1, <6>1 DEF HistoryFrom, Followed
          <6>2. CASE r = s
            <7>1. \E w \in Chain(s)' : w.timestamp = d.timestamp
              BY <1>4, <4>4, <5>1, <6>2 DEF RemoveMove
            <7> QED
              BY <6>2, <7>1 DEF HistoryFrom
          <6> QED
            BY <6>1, <6>2
        <5>2. CASE WrittenLate("accountsesdthistory", d.id, d.timestamp)
          BY <2>2, <5>2, WrittenLateKept DEF HistoryFrom
        <5>3. CASE Left("accountsesdthistory", r, d.id, d.timestamp)
          <6>1. c \in Reverted(r) => r = s
            BY <1>0, <3>3, <4>2, SavedBlock DEF DeliveryInv, SavedInv
          <6>2. Left("accountsesdthistory", r, d.id, d.timestamp)'
            BY <2>1, <2>2, <4>2, <4>4, <5>3, <6>1, LeftRemoved
          <6> QED
            BY <6>2 DEF HistoryFrom
        <5> QED
          BY <4>2, <5>1, <5>2, <5>3 DEF HistoryFrom
      <4> QED
        BY <4>3, <4>4
    <3> QED
      BY <3>2, <3>4 DEF HistoryInv, InHistory
  <2> QED
    BY <1>4, <2>3, <2>4 DEF RemoveMove
<1>5. ASSUME NEW o \in arrived', LateMove(o)
      PROVE  HistoryInv'
  <2> DEFINE c == o.block
             q == c.shard
  <2>1. /\ arrived \subseteq arrived' /\ q \in Shards /\ OperationInv(o) /\ c \in Saved(q)
        /\ \A r \in Shards : Followed(r) /\ Handled(r)' \subseteq Handled(r)
    BY <1>1, <1>5 DEF LateMove, OperationInv
  <2>2. CASE o.kind = "save"
    <3>1. ExecuteSave(c, {o}) /\ o \in SaveOps(c)
      BY <1>5, <2>1, <2>2 DEF LateMove, OperationInv
    <3>2. Origin(q, c, {o})
      BY <3>1, IdsOfLate DEF Origin
    <3> HIDE DEF c, q
    <3>3. ASSUME NEW r \in Shards, NEW b \in Handled(r)' PROVE InHistory(b)'
      <4>1. b \in Handled(r)
        BY <2>1
      <4> QED
        BY <2>1, <3>1, <3>2, <4>1, HistoryStays
    <3>4. \A d \in accountsESDTHistory' : HistoryFrom(d.shard, d)'
      BY <2>1, <3>1, <3>2, HistoryComesFrom
    <3> QED
      BY <3>3, <3>4 DEF HistoryInv, InHistory
  <2>3. CASE o.kind = "remove" /\ o.index = "accountsesdt"
    <3>1. accountsESDTHistory' = accountsESDTHistory /\ Remembers("accountsesdthistory")
      BY <1>0, <1>5, <2>3, RemoveUntouched DEF LateMove
    <3> QED
      BY <2>1, <3>1, HistoryUntouched
  <2>4. CASE o.kind = "remove" /\ o.index = "accountsesdthistory"
    <3>1. ExecuteRemove(o) /\ c \in Reverted(q) /\ o.block = c
      BY <1>5, <2>1, <2>4 DEF LateMove, OperationInv
    <3> HIDE DEF c, q
    <3>2. ASSUME NEW r \in Shards, NEW b \in Handled(r)' PROVE InHistory(b)'
      <4>1. b \in Handled(r)
        BY <2>1
      <4> QED
        BY <2>1, <2>4, <3>1, <4>1, HistorySurvives
    <3>3. ASSUME NEW d \in accountsESDTHistory' PROVE HistoryFrom(d.shard, d)'
      <4> DEFINE r == d.shard
      <4>1. d \in accountsESDTHistory
        BY <2>4, <3>1, RemoveHistory
      <4>2. r \in Shards /\ HistoryFrom(r, d)
        BY <1>0, <4>1 DEF IndexTypes, HistoryDocs, HistoryInv
      <4>3. CASE \E w \in Chain(r) \cup Reverting(r) : w.timestamp = d.timestamp
        BY <2>1, <4>2, <4>3 DEF HistoryFrom, Followed
      <4>4. CASE WrittenLate("accountsesdthistory", d.id, d.timestamp)
        BY <2>1, <4>4, WrittenLateKept DEF HistoryFrom
      <4>5. CASE Left("accountsesdthistory", r, d.id, d.timestamp)
        <5>1. GrowsAt(r)
          BY <2>1, <4>2 DEF Followed
        <5>2. CASE Left("accountsesdthistory", r, d.id, d.timestamp)'
          BY <5>2 DEF HistoryFrom
        <5>3. CASE c \in Reverted(r) /\ c.timestamp = d.timestamp
          <6>1. c.shard = r
            BY <1>0, <4>2, <5>3, SavedBlock DEF DeliveryInv, SavedInv
          <6>2. Missed("accountsesdthistory", d.id, c)' /\ c \in Reverted(r)'
            BY <2>4, <3>1, <5>1, <5>3, <6>1, RemoveHistory DEF GrowsAt
          <6> QED
            BY <5>3, <6>2 DEF HistoryFrom, Left
        <5> QED
          BY <2>4, <3>1, <4>5, <5>1, <5>2, <5>3, LeftRemoved
      <4> QED
        BY <4>2, <4>3, <4>4, <4>5 DEF HistoryFrom
    <3> QED
      BY <3>2, <3>3 DEF HistoryInv, InHistory
  <2> QED
    BY <2>1, <2>2, <2>3, <2>4 DEF OperationInv, ESDTIndexes
<1> QED
  BY <1>2, <1>3, <1>4, <1>5 DEF Move
-----------------------------------------------------------------------------
(***************************************************************************)
(* The theorems.                                                           *)
(***************************************************************************)

(* Nothing was sent, and the indexes are empty.                            *)
LEMMA InitFollows == Init => FollowInv
<1> SUFFICES ASSUME Init PROVE FollowInv
  OBVIOUS
<1>1. /\ \A s \in Shards : log[s] = <<>> /\ acked[s] = 0 /\ pc[s] = "first"
      /\ late = {} /\ arrived = {} /\ accountsESDTHistory = {}
      /\ \A id \in RegularIds : accounts[id] = NoDoc
      /\ \A id \in ESDTIds : accountsESDT[id] = NoDoc
  BY DEF Init
<1>2. \A s \in Shards : \A t : Sent(s, t) = {} /\ Current(s, t) = {}
  BY <1>1 DEF Sent, Current
<1>3. \A s \in Shards : /\ Saved(s) = {} /\ Saving(s) = {} /\ Reverting(s) = {}
                        /\ Reverted(s) = {} /\ Chain(s) = {} /\ Handled(s) = {}
  BY <1>2, ChainSets DEF Saved, Saving, Reverting, Handled
<1>4. DeliveryInv
  BY <1>1, <1>3 DEF DeliveryInv, SavedInv, ChainInv
<1>5. AccountsInv
  BY <1>1, <1>3 DEF AccountsInv
<1>6. ESDTInv
  BY <1>1, <1>3 DEF ESDTInv
<1>7. HistoryInv
  BY <1>1, <1>3 DEF HistoryInv
<1> QED
  BY <1>4, <1>5, <1>6, <1>7 DEF FollowInv

(* Every step keeps what the indexes have of the chains.                   *)
LEMMA NextFollows ==
  ASSUME TypeOK, FollowInv, [Next]_vars
  PROVE  TypeOK' /\ FollowInv'
<1>1. DeliveryInv /\ AccountsInv /\ ESDTInv /\ HistoryInv
  BY DEF FollowInv
<1>2. DeliveryInv' /\ Move
  BY <1>1, NextMoves
<1>3. AccountsInv' /\ ESDTInv' /\ HistoryInv'
  BY <1>1, <1>2, AccountsMove, ESDTMove, HistoryMove
<1> QED
  BY <1>2, <1>3, NextKeeps DEF FollowInv

(* Once a shard is settled its whole chain is handled.                     *)
LEMMA SettledHandled ==
  ASSUME DeliveryTypes, NEW s \in Shards, Settled(s)
  PROVE  Handled(s) = Chain(s) /\ Reverting(s) = {}
<1>1. \A i \in DOMAIN log[s] : ~(i > acked[s])
  BY DEF Settled, DeliveryTypes
<1> QED
  BY <1>1 DEF Handled, Saving, Reverting, Current

(* The invariant gives each of the three properties.                       *)
LEMMA FollowAccounts == TypeOK /\ FollowInv => AccountsFollowChain
<1> SUFFICES ASSUME TypeOK, FollowInv, NEW s \in Shards, Settled(s), NEW id \in RegularIds,
                    NEW b \in LastToWrite(s, id, RegularIdsOf)
             PROVE  \/ \E r \in Reverted(s) : id \in RegularIdsOf(r) /\ r.timestamp > b.timestamp
                    \/ Disturbed("accounts", id, b)
                    \/ /\ accounts[id] # NoDoc
                       /\ accounts[id].balance = b.altered[id[1]].balance
                       /\ accounts[id].timestamp = b.timestamp
  BY DEF AccountsFollowChain, LastToWrite, RegularIdsOf
<1>0. IndexTypes /\ DeliveryTypes /\ DeliveryInv /\ AccountsInv
  BY Split DEF FollowInv
<1>1. /\ b \in Chain(s) /\ id \in RegularIdsOf(b)
      /\ \A c \in Chain(s) : id \in RegularIdsOf(c) => c.hash <= b.hash
  BY DEF LastToWrite
<1>2. b \in Saved(s) /\ ChainInv(s)
  BY <1>0, <1>1, ChainSets DEF DeliveryInv
<1>3. /\ b \in Blocks /\ b.altered \in Contents[s] /\ b.timestamp \in Nat /\ b.hash \in Nat
  BY <1>0, <1>2, SavedBlock
<1>4. RegularHandled(id, b) /\ ShardOf[id[1]] = s
  BY <1>0, <1>1, <1>3, SettledHandled, RegularInfo DEF AccountsInv
<1>5. PICK c \in Saved(s) : id \in RegularIdsOf(c) /\ accounts[id].timestamp = c.timestamp
  BY <1>0, <1>4 DEF AccountsInv, RegularHandled, RegularFrom
<1>6. c.timestamp \in Nat /\ c.hash \in Nat /\ (c \in Chain(s) \/ c \in Reverted(s))
      /\ (c.hash = b.hash => c = b)
  BY <1>0, <1>2, <1>5, SavedBlock
<1>7. CASE c.timestamp = b.timestamp
  BY <1>4, <1>5, <1>7 DEF RegularHandled
<1>8. CASE c.timestamp > b.timestamp
  <2>1. c \notin Chain(s)
    <3>1. SUFFICES ASSUME c \in Chain(s) PROVE FALSE
      OBVIOUS
    <3>2. c.hash < b.hash \/ c = b
      BY <1>1, <1>3, <1>5, <1>6, <3>1
    <3> QED
      BY <1>1, <1>2, <1>3, <1>6, <1>8, <3>1, <3>2 DEF ChainInv
  <2> QED
    BY <1>5, <1>6, <1>8, <2>1
<1> QED
  BY <1>3, <1>4, <1>5, <1>6, <1>7, <1>8 DEF RegularHandled

(* The same for ESDT balances.                                             *)
LEMMA FollowESDT == TypeOK /\ FollowInv => ESDTFollowsChain
<1> SUFFICES ASSUME TypeOK, FollowInv, NEW s \in Shards, Settled(s), NEW id \in ESDTIds,
                    NEW b \in LastToWrite(s, id, ESDTIdsOf),
                    ~ \E r \in Reverted(s) : id \in ESDTIdsOf(r) /\ r.hash > b.hash,
                    ~ \E r \in Reverted(s) :
                        r.timestamp > b.timestamp /\ Missed("accountsesdt", id, r)
             PROVE  ESDTHandled(id, b) /\ ~Hidden(id, b)
  BY DEF ESDTFollowsChain, ESDTHandled, WrittenLate
<1>0. IndexTypes /\ DeliveryTypes /\ DeliveryInv /\ ESDTInv
  BY Split DEF FollowInv
<1>1. /\ b \in Chain(s) /\ id \in ESDTIdsOf(b)
      /\ \A c \in Chain(s) : id \in ESDTIdsOf(c) => c.hash <= b.hash
  BY DEF LastToWrite
<1>2. b \in Saved(s)
  BY <1>1, ChainSets
<1>3. \A c \in Saved(s) : c.hash \in Nat /\ (c \in Chain(s) \/ c \in Reverted(s))
  BY <1>0, SavedBlock
<1>4. LastSaved(s, id, b) /\ b.shard = s
  BY <1>0, <1>1, <1>2, <1>3, SavedBlock DEF LastSaved
<1>5. ~Hidden(id, b)
  BY <1>4 DEF Hidden, Gone
<1> QED
  BY <1>0, <1>1, <1>4, <1>5, SettledHandled DEF ESDTInv

(* And for their history.                                                  *)
LEMMA FollowHistory == TypeOK /\ FollowInv => ESDTHistoryFollowsChain
<1> SUFFICES ASSUME TypeOK, FollowInv, NEW s \in Shards, Settled(s)
             PROVE  /\ \A b \in Chain(s) : InHistory(b)
                    /\ \A r \in Reverted(s) : \A d \in accountsESDTHistory :
                         d.shard = s /\ d.timestamp = r.timestamp =>
                           \/ WrittenLate("accountsesdthistory", d.id, d.timestamp)
                           \/ \E b \in Chain(s) : b.timestamp = r.timestamp
                           \/ Left("accountsesdthistory", s, d.id, d.timestamp)
  BY DEF ESDTHistoryFollowsChain, InHistory, HistoryOf, WrittenLate, Left
<1>1. DeliveryTypes /\ HistoryInv
  BY Split DEF FollowInv
<1>2. Handled(s) = Chain(s) /\ Reverting(s) = {}
  BY <1>1, SettledHandled
<1> QED
  BY <1>1, <1>2 DEF HistoryInv, InHistory, HistoryFrom

(* The invariant of the indexes and the chains holds in every behaviour.   *)
LEMMA FollowsHolds == Spec => [](TypeOK /\ FollowInv)
<1>1. TypeOK /\ FollowInv /\ [Next]_vars => (TypeOK /\ FollowInv)'
  BY NextFollows
<1> QED
  BY <1>1, InitTypes, InitFollows, PTL DEF Spec

(* The account documents of indexAlteredAccounts follow the chain: a       *)
(* settled shard shows the balance of the last block of its chain that     *)
(* altered the account, unless a reverted block with a higher timestamp    *)
(* hides it or a late request of another block came in between.            *)
THEOREM AccountsFollow == Spec => []AccountsFollowChain
BY FollowsHolds, FollowAccounts, PTL

(* The ESDT documents follow the chain, although RemoveAccountsESDT        *)
(* selects them by shard and timestamp only and may leave any of them: the *)
(* last block of a chain that changed a balance has it in the index, with  *)
(* no document for zero, up to reverts behind it, late requests and newer  *)
(* documents that a delete by query with a failed refresh or a version     *)
(* conflict has left.                                                      *)
THEOREM ESDTFollow == Spec => []ESDTFollowsChain
BY FollowsHolds, FollowESDT, PTL

(* The history of ESDT balances has the entries of every block of the      *)
(* chain and, once a revert is acknowledged, none of the reverted block,   *)
(* up to late requests, blocks that have taken the same timestamp and the  *)
(* entries that the delete by query has left.                              *)
THEOREM ESDTHistoryFollow == Spec => []ESDTHistoryFollowsChain
BY FollowsHolds, FollowHistory, PTL
=============================================================================
