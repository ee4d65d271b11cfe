------------------------ MODULE BlockIndexing_proofs ------------------------
(***************************************************************************)
(* Theorems about BlockIndexing, for any number of shards, miniblocks,     *)
(* transactions, blocks and failures.                                      *)
(***************************************************************************)
EXTENDS BlockIndexing, TLAPS

(***************************************************************************)
(* Type correctness: what the scripts make of a document is a document.    *)
(***************************************************************************)
(* The miniblock that a block prepares for the database is a document.     *)
LEMMA PreparedMiniblockType ==
  ASSUME NEW b \in Blocks, NEW e \in Entries
  PROVE  prepareMiniblockForDB(b, e) \in MbDocs
<1>1. b.hash \in Hashes /\ e.procType \in ProcessingTypes
  BY DEF Blocks, Entries
<1>2. setFieldsMBIntraShardAndCrossFromMe(b, e) \in MbDocs
  BY <1>1 DEF setFieldsMBIntraShardAndCrossFromMe, MbDocs, EmptyMbDoc
<1>3. [EmptyMbDoc EXCEPT !.receiverBlockHash = b.hash, !.procTypeD = e.procType] \in MbDocs
  BY <1>1 DEF MbDocs, EmptyMbDoc
<1> QED
  BY <1>2, <1>3 DEF prepareMiniblockForDB

(* The scripted upsert of a miniblock leaves a document.                   *)
LEMMA MiniblockScriptType ==
  ASSUME NEW b \in Blocks, NEW e \in Entries, NEW stored \in MbDocs \cup {NoDoc}
  PROVE  MiniblockScript(stored, b, e) \in MbDocs
<1> DEFINE mb == prepareMiniblockForDB(b, e)
<1>1. mb \in MbDocs
  BY PreparedMiniblockType
<1> HIDE DEF mb
<1>2. stored # NoDoc =>
        /\ [stored EXCEPT !.senderBlockHash = mb.senderBlockHash,
                          !.procTypeS = mb.procTypeS] \in MbDocs
        /\ [stored EXCEPT !.receiverBlockHash = mb.receiverBlockHash,
                          !.procTypeD = mb.procTypeD] \in MbDocs
  BY <1>1 DEF MbDocs
<1> QED
  BY <1>1, <1>2 DEF MiniblockScript, mb

(* A bulk request of miniblocks leaves an index of documents.              *)
LEMMA IndexMiniblocksType ==
  ASSUME NEW docs \in [Miniblocks -> MbDocs \cup {NoDoc}], NEW b \in Blocks,
         NEW es \in SUBSET b.mbs
  PROVE  IndexMiniblocks(docs, b, es) \in [Miniblocks -> MbDocs \cup {NoDoc}]
<1>1. ASSUME NEW m \in Miniblocks, \E e \in es : e.mb = m
      PROVE  MiniblockScript(docs[m], b, CHOOSE e \in es : e.mb = m) \in MbDocs
  <2> DEFINE chosen == CHOOSE e \in es : e.mb = m
  <2>1. chosen \in es
    BY <1>1
  <2>2. chosen \in Entries
    BY <2>1 DEF Blocks
  <2> QED
    BY <2>2, MiniblockScriptType
<1> QED
  BY <1>1 DEF IndexMiniblocks

(* The entry for which a transaction is written is one of the block's.     *)
LEMMA EntryOfType ==
  ASSUME NEW b \in Blocks, NEW t \in PreparedTxs(b)
  PROVE  /\ EntryOf(b, t) \in GroupedEntries(b)
         /\ EntryOf(b, t) \in b.mbs
         /\ EntryOf(b, t) \in Entries
         /\ t \in ExtractExecutedTxHashes(EntryOf(b, t))
<1>1. \E e \in GroupedEntries(b) : t \in ExtractExecutedTxHashes(e)
  BY DEF PreparedTxs
<1>2. EntryOf(b, t) \in GroupedEntries(b) /\ t \in ExtractExecutedTxHashes(EntryOf(b, t))
  BY <1>1 DEF EntryOf
<1> QED
  BY <1>2 DEF GroupedEntries, Blocks

(* The transaction that a block prepares for the database is a document.   *)
LEMMA PreparedTransactionType ==
  ASSUME NEW b \in Blocks, NEW e \in Entries, NEW t \in Txs
  PROVE  prepareTransaction(b, e, t) \in TxDocs
<1>1. b.hash \in Hashes /\ b.shard \in Shards
  BY DEF Blocks
<1>2. computeStatus(b.shard, MbInfo[e.mb].rcv) \in Statuses
  BY DEF computeStatus, Statuses
<1>3. (t \in b.failed) \in BOOLEAN
  OBVIOUS
<1> QED
  BY <1>1, <1>2, <1>3 DEF prepareTransaction, TxDocs, Statuses

(* The write of a transaction leaves a document.                           *)
LEMMA TransactionScriptType ==
  ASSUME NEW b \in Blocks, NEW t \in Txs, t \in PreparedTxs(b),
         NEW stored \in TxDocs \cup {NoDoc}
  PROVE  TransactionScript(stored, b, t) \in TxDocs
<1> DEFINE e  == EntryOf(b, t)
           tx == prepareTransaction(b, e, t)
<1>1. tx \in TxDocs
  BY EntryOfType, PreparedTransactionType
<1> HIDE DEF tx
<1>2. stored # NoDoc =>
        /\ [stored EXCEPT !.fee = tx.fee] \in TxDocs
        /\ [tx EXCEPT !.fee = stored.fee] \in TxDocs
  BY <1>1 DEF TxDocs
<1>3. stored # NoDoc => prepareNFTESDTTransferOrMultiESDTTransfer(stored, tx) \in TxDocs
  BY <1>1 DEF TxDocs, prepareNFTESDTTransferOrMultiESDTTransfer
<1> QED
  BY <1>1, <1>2, <1>3 DEF TransactionScript, tx

(* The status update of a transaction leaves a document.                   *)
LEMMA StatusScriptType ==
  ASSUME NEW b \in Blocks, NEW t \in Txs, NEW stored \in TxDocs \cup {NoDoc}
  PROVE  StatusScript(stored, b, t) \in TxDocs
<1> DEFINE info == StatusInfoOf(b, t)
<1>1. info.status \in Statuses /\ info.errorEvent \in BOOLEAN /\ info.completedEvent \in BOOLEAN
  BY DEF StatusInfoOf, Statuses
<1> HIDE DEF info
<1>2. [block |-> NoHash, status |-> info.status, fee |-> NoShard,
       errorEvent |-> info.errorEvent, completedEvent |-> info.completedEvent] \in TxDocs
  BY <1>1 DEF TxDocs
<1>3. stored # NoDoc =>
        [stored EXCEPT !.status = IF info.status # "" THEN info.status ELSE @,
                       !.errorEvent = info.errorEvent \/ @,
                       !.completedEvent = info.completedEvent \/ @] \in TxDocs
  BY <1>1 DEF TxDocs
<1> QED
  BY <1>2, <1>3 DEF StatusScript, info

(* A bulk request of transactions leaves an index of documents.            *)
LEMMA IndexTransactionsType ==
  ASSUME NEW docs \in [Txs -> TxDocs \cup {NoDoc}], NEW b \in Blocks,
         NEW ts \in SUBSET PreparedTxs(b), NEW us \in SUBSET StatusTxs(b)
  PROVE  IndexTransactions(docs, b, ts, us) \in [Txs -> TxDocs \cup {NoDoc}]
<1> SUFFICES ASSUME NEW t \in Txs
             PROVE  LET doc == IF t \in ts THEN TransactionScript(docs[t], b, t) ELSE docs[t]
                    IN  (IF t \in us THEN StatusScript(doc, b, t) ELSE doc) \in TxDocs \cup {NoDoc}
  BY DEF IndexTransactions
<1> DEFINE doc == IF t \in ts THEN TransactionScript(docs[t], b, t) ELSE docs[t]
<1>1. doc \in TxDocs \cup {NoDoc}
  BY TransactionScriptType
<1> HIDE DEF doc
<1>2. StatusScript(doc, b, t) \in TxDocs
  BY <1>1, StatusScriptType
<1> QED
  BY <1>1, <1>2 DEF doc
-----------------------------------------------------------------------------
(***************************************************************************)
(* The inductive invariant.  BlocksFollowChain speaks of the messages that *)
(* were acknowledged; to see that it survives an acknowledgement one needs *)
(* EffectBeforeAck, and to see that no handler disturbs the block of       *)
(* another one, that a hash belongs to one shard (ChainInv).               *)
(***************************************************************************)
Hash(s, i) == log[s][i].block.hash

\* A block is committed once, by one shard, and under a new hash.
ChainInv ==
  /\ \A s \in Shards : \A i \in 1..Len(log[s]) : Hash(s, i) \in 1..numBlocks
  /\ \A s, r \in Shards : \A i \in 1..Len(log[s]), j \in 1..Len(log[r]) :
       Hash(s, i) = Hash(r, j) => s = r
  /\ \A s \in Shards : \A i, j \in 1..Len(log[s]) :
       i < j /\ log[s][j].topic = "SaveBlock" => Hash(s, i) # Hash(s, j)

IdleInv == \A s \in Shards : ~Pending(s) => pc[s] = "idle"

DeliveryInv == TypeOK /\ ChainInv /\ IdleInv /\ EffectBeforeAck /\ BlocksFollowChain

(* What TypeOK says about one shard.                                       *)
LEMMA ShardTypes ==
  ASSUME TypeOK, NEW s \in Shards
  PROVE  /\ log[s] \in Seq(Messages) /\ Len(log[s]) \in Nat
         /\ acked[s] \in Nat /\ acked[s] <= Len(log[s])
         /\ pc[s] \in Steps
         /\ \A i \in 1..Len(log[s]) :
              /\ log[s][i] \in Messages /\ log[s][i].block \in Blocks
              /\ log[s][i].topic \in Topics /\ Hash(s, i) \in Nat
         /\ Pending(s) => /\ acked[s] + 1 \in 1..Len(log[s])
                          /\ Message(s) \in Messages /\ Block(s) \in Blocks
                          /\ Block(s).hash = Hash(s, acked[s] + 1)
<1>1. /\ log[s] \in Seq(Messages) /\ Len(log[s]) \in Nat
      /\ acked[s] \in Nat /\ acked[s] <= Len(log[s]) /\ pc[s] \in Steps
  BY DEF TypeOK
<1>2. ASSUME NEW i \in 1..Len(log[s])
      PROVE  /\ log[s][i] \in Messages /\ log[s][i].block \in Blocks
             /\ log[s][i].topic \in Topics /\ Hash(s, i) \in Nat
  <2>1. log[s][i] \in Messages
    BY <1>1
  <2>2. log[s][i].block \in Blocks /\ log[s][i].topic \in Topics
    BY <2>1 DEF Messages
  <2> QED
    BY <2>1, <2>2 DEF Hash, Blocks, Hashes
<1>3. ASSUME Pending(s)
      PROVE  acked[s] + 1 \in 1..Len(log[s])
  BY <1>1, <1>3 DEF Pending
<1> QED
  BY <1>1, <1>2, <1>3 DEF Message, Block, Hash

(* The observer of a shard appends a message to its log.                   *)
LEMMA AppendMessage ==
  ASSUME TypeOK, NEW s \in Shards, NEW msg \in Messages,
         log' = [log EXCEPT ![s] = Append(@, msg)]
  PROVE  /\ log' \in [Shards -> Seq(Messages)]
         /\ Len(log'[s]) = Len(log[s]) + 1
         /\ log'[s][Len(log[s]) + 1] = msg
         /\ \A r \in Shards : r # s => log'[r] = log[r]
         /\ \A r \in Shards : \A i \in 1..Len(log[r]) : log'[r][i] = log[r][i]
<1>1. log \in [Shards -> Seq(Messages)]
  BY DEF TypeOK
<1>2. log[s] \in Seq(Messages) /\ log'[s] = Append(log[s], msg)
  BY <1>1
<1>3. /\ Len(log'[s]) = Len(log[s]) + 1 /\ log'[s][Len(log[s]) + 1] = msg
      /\ \A i \in 1..Len(log[s]) : log'[s][i] = log[s][i]
      /\ log'[s] \in Seq(Messages)
  BY <1>2
<1> QED
  BY <1>1, <1>3

(* A committed or reverted block keeps ChainInv: the observer commits it   *)
(* under a new hash and reverts only one of its own.                       *)
LEMMA AppendChainInv ==
  ASSUME TypeOK, ChainInv, NEW s \in Shards, NEW msg \in Messages,
         log' = [log EXCEPT ![s] = Append(@, msg)],
         \/ numBlocks' = numBlocks + 1 /\ msg.block.hash = numBlocks + 1
         \/ /\ numBlocks' = numBlocks /\ msg.topic # "SaveBlock"
            /\ \E i \in 1..Len(log[s]) : Hash(s, i) = msg.block.hash
  PROVE  ChainInv'
<1> DEFINE n == Len(log[s])
<1>1. /\ Len(log'[s]) = n + 1 /\ log'[s][n + 1] = msg /\ n \in Nat
      /\ \A r \in Shards : r # s => log'[r] = log[r]
      /\ \A r \in Shards : Len(log[r]) \in Nat
      /\ numBlocks \in Nat
  BY AppendMessage, ShardTypes DEF TypeOK
<1>2. \A r \in Shards : \A i \in 1..Len(log[r]) : Hash(r, i)' = Hash(r, i) /\ log'[r][i] = log[r][i]
  BY AppendMessage DEF Hash
<1>3. log'[s][n + 1].block.hash = msg.block.hash
  BY <1>1
<1>4. \A r \in Shards : \A i \in 1..Len(log'[r]) :
         i \in 1..Len(log[r]) \/ (r = s /\ i = n + 1)
  BY <1>1
<1>5. msg.block.hash \in 1..numBlocks'
  BY <1>1 DEF ChainInv
<1>6. ASSUME NEW r \in Shards, NEW i \in 1..Len(log[r]), Hash(r, i) = msg.block.hash
      PROVE  r = s /\ msg.topic # "SaveBlock"
  <2>1. Hash(r, i) \in 1..numBlocks
    BY DEF ChainInv
  <2>2. msg.topic # "SaveBlock" /\ \E j \in 1..Len(log[s]) : Hash(s, j) = msg.block.hash
    BY <2>1, <1>1, <1>6
  <2> QED
    BY <2>2, <1>6 DEF ChainInv
<1>7. \A r \in Shards : \A i \in 1..Len(log'[r]) : Hash(r, i)' \in 1..numBlocks'
  <2> SUFFICES ASSUME NEW r \in Shards, NEW i \in 1..Len(log'[r])
               PROVE  Hash(r, i)' \in 1..numBlocks'
    OBVIOUS
  <2>1. CASE i \in 1..Len(log[r])
    <3>1. Hash(r, i) \in 1..numBlocks
      BY <2>1 DEF ChainInv
    <3> QED
      BY <2>1, <3>1, <1>1, <1>2
  <2>2. CASE r = s /\ i = n + 1
    BY <2>2, <1>3, <1>5 DEF Hash
  <2> QED
    BY <2>1, <2>2, <1>4
<1>8. ASSUME NEW q \in Shards, NEW r \in Shards, NEW i \in 1..Len(log'[q]),
             NEW j \in 1..Len(log'[r]), Hash(q, i)' = Hash(r, j)'
      PROVE  q = r
  <2>1. CASE i \in 1..Len(log[q]) /\ j \in 1..Len(log[r])
    BY <2>1, <1>2, <1>8 DEF ChainInv
  <2>2. CASE i \in 1..Len(log[q]) /\ r = s /\ j = n + 1
    BY <2>2, <1>2, <1>3, <1>6, <1>8 DEF Hash
  <2>3. CASE q = s /\ i = n + 1 /\ j \in 1..Len(log[r])
    BY <2>3, <1>2, <1>3, <1>6, <1>8 DEF Hash
  <2> QED
    BY <2>1, <2>2, <2>3, <1>4
<1>9. ASSUME NEW r \in Shards, NEW i \in 1..Len(log'[r]), NEW j \in 1..Len(log'[r]),
             i < j, log'[r][j].topic = "SaveBlock"
      PROVE  Hash(r, i)' # Hash(r, j)'
  <2>1. i \in 1..Len(log[r])
    BY <1>1, <1>4, <1>9
  <2>2. CASE j \in 1..Len(log[r])
    BY <2>1, <2>2, <1>2, <1>9 DEF ChainInv
  <2>3. CASE r = s /\ j = n + 1
    <3>1. Hash(r, j)' = msg.block.hash /\ msg.topic = "SaveBlock"
      BY <2>3, <1>1, <1>3, <1>9 DEF Hash
    <3> QED
      BY <2>1, <3>1, <1>2, <1>6
  <2> QED
    BY <2>2, <2>3, <1>4
<1> QED
  BY <1>7, <1>8, <1>9 DEF ChainInv

\* Hash(s, i) is the hash of a block that the first n messages of s leave.
Kept(s, i, n) == \E k \in 1..n : Hash(s, k) = Hash(s, i) /\ LiveAt(s, k, n)

(* BlocksFollowChain with the names used here.                             *)
LEMMA BlocksFollowChainDef ==
  BlocksFollowChain <=>
    \A s \in Shards : \A i \in 1..acked[s] :
      \/ Pending(s) /\ Block(s).hash = Hash(s, i)
      \/ (Hash(s, i) \in blocks) <=> Kept(s, i, acked[s])
BY DEF BlocksFollowChain, Hash, Kept

(* What the observer appends does not touch what was handled before.       *)
LEMMA AppendDelivery ==
  ASSUME DeliveryInv, NEW s \in Shards, NEW msg \in Messages,
         log' = [log EXCEPT ![s] = Append(@, msg)], UNCHANGED <<acked, pc, blocks>>
  PROVE  IdleInv' /\ EffectBeforeAck' /\ BlocksFollowChain'
<1>1. TypeOK
  BY DEF DeliveryInv
<1>2. \A r \in Shards : /\ Len(log[r]) \in Nat /\ acked[r] \in Nat /\ acked[r] <= Len(log[r])
                        /\ acked'[r] = acked[r] /\ pc'[r] = pc[r]
  BY <1>1, ShardTypes
<1>3. \A r \in Shards : /\ Len(log'[r]) >= Len(log[r]) /\ Len(log'[r]) \in Nat
                        /\ \A i \in 1..Len(log[r]) : log'[r][i] = log[r][i]
  BY <1>1, <1>2, AppendMessage
<1>4. ASSUME NEW r \in Shards, Pending(r)
      PROVE  Pending(r)' /\ Message(r)' = Message(r) /\ Block(r)' = Block(r)
  BY <1>2, <1>3, <1>4 DEF Pending, Message, Block
<1>5. ASSUME NEW r \in Shards, ~Pending(r)
      PROVE  pc'[r] = "idle"
  BY <1>2, <1>5 DEF DeliveryInv, IdleInv
<1>6. IdleInv'
  BY <1>4, <1>5 DEF IdleInv
<1>7. EffectBeforeAck'
  <2> SUFFICES ASSUME NEW r \in Shards, pc'[r] \in {"miniblocks", "transactions", "accounts", "ack"}
               PROVE  (Block(r)'.hash \in blocks) <=> (Message(r)'.topic = "SaveBlock")
    BY DEF EffectBeforeAck
  <2>1. Pending(r)
    BY <1>5
  <2> QED
    BY <2>1, <1>2, <1>4 DEF DeliveryInv, EffectBeforeAck
<1>8. ASSUME NEW r \in Shards, NEW i \in 1..acked[r]
      PROVE  /\ Hash(r, i)' = Hash(r, i)
             /\ Kept(r, i, acked[r])' <=> Kept(r, i, acked[r])
  <2>1. \A k \in 1..acked[r] : log'[r][k] = log[r][k]
    BY <1>2, <1>3
  <2>2. \A k \in 1..acked[r] : Hash(r, k)' = Hash(r, k)
    BY <2>1 DEF Hash
  <2>3. ASSUME NEW k \in 1..acked[r]
        PROVE  LiveAt(r, k, acked[r])' <=> LiveAt(r, k, acked[r])
    <3>1. \A j \in (k + 1)..acked[r] : log'[r][j] = log[r][j]
      BY <2>1, <1>2
    <3> QED
      BY <2>1, <3>1, <1>2 DEF LiveAt, IsRevert
  <2> QED
    BY <2>2, <2>3, <1>2 DEF Kept
<1>9. BlocksFollowChain'
  <2> SUFFICES ASSUME NEW r \in Shards, NEW i \in 1..acked[r]
               PROVE  \/ Pending(r)' /\ Block(r)'.hash = Hash(r, i)'
                      \/ (Hash(r, i)' \in blocks') <=> Kept(r, i, acked[r])'
    BY <1>2 DEF BlocksFollowChain, Hash, Kept
  <2>1. \/ Pending(r) /\ Block(r).hash = Hash(r, i)
        \/ (Hash(r, i) \in blocks) <=> Kept(r, i, acked[r])
    BY BlocksFollowChainDef DEF DeliveryInv
  <2> QED
    BY <2>1, <1>4, <1>8
<1> QED
  BY <1>6, <1>7, <1>9

(* A request of the handler of s changes at most the document of its own   *)
(* block, and leaves the header step only when the effect is there.        *)
LEMMA RequestDelivery ==
  ASSUME DeliveryInv, NEW s \in Shards, Pending(s), UNCHANGED <<log, acked, numBlocks>>,
         NEW step \in Steps, pc' = [pc EXCEPT ![s] = step],
         \A h : h # Block(s).hash => ((h \in blocks') <=> (h \in blocks)),
         step \in {"miniblocks", "transactions", "accounts", "ack"} =>
           ((Block(s).hash \in blocks') <=> (Message(s).topic = "SaveBlock"))
  PROVE  ChainInv' /\ IdleInv' /\ EffectBeforeAck' /\ BlocksFollowChain'
<1>1. TypeOK
  BY DEF DeliveryInv
<1>2. /\ \A r \in Shards : Pending(r)' <=> Pending(r)
      /\ \A r \in Shards : Message(r)' = Message(r) /\ Block(r)' = Block(r)
      /\ \A r, i : Hash(r, i)' = Hash(r, i)
      /\ \A r \in Shards : \A i : Kept(r, i, acked[r])' <=> Kept(r, i, acked[r])
  BY DEF Pending, Message, Block, Hash, Kept, LiveAt, IsRevert
<1>3. pc'[s] = step /\ \A r \in Shards : r # s => pc'[r] = pc[r]
  BY <1>1 DEF TypeOK
<1>4. ASSUME NEW r \in Shards, r # s, NEW i \in 1..Len(log[r])
      PROVE  (Hash(r, i) \in blocks') <=> (Hash(r, i) \in blocks)
  <2>1. acked[s] + 1 \in 1..Len(log[s]) /\ Block(s).hash = Hash(s, acked[s] + 1)
    BY <1>1, ShardTypes
  <2>2. Hash(r, i) # Block(s).hash
    BY <2>1, <1>4 DEF DeliveryInv, ChainInv
  <2> QED
    BY <2>2
<1>5. ChainInv'
  BY DEF DeliveryInv, ChainInv, Hash
<1>6. IdleInv'
  BY <1>2, <1>3 DEF DeliveryInv, IdleInv
<1>7. EffectBeforeAck'
  <2> SUFFICES ASSUME NEW r \in Shards, Pending(r),
                      pc'[r] \in {"miniblocks", "transactions", "accounts", "ack"}
               PROVE  (Block(r).hash \in blocks') <=> (Message(r).topic = "SaveBlock")
    BY <1>2 DEF EffectBeforeAck
  <2>1. CASE r = s
    BY <2>1, <1>3
  <2>2. CASE r # s
    <3>1. acked[r] + 1 \in 1..Len(log[r]) /\ Block(r).hash = Hash(r, acked[r] + 1)
      BY <1>1, ShardTypes
    <3>2. (Block(r).hash \in blocks) <=> (Message(r).topic = "SaveBlock")
      BY <2>2, <1>3 DEF DeliveryInv, EffectBeforeAck
    <3> QED
      BY <2>2, <3>1, <3>2, <1>4
  <2> QED
    BY <2>1, <2>2
<1>8. BlocksFollowChain'
  <2> SUFFICES ASSUME NEW r \in Shards, NEW i \in 1..acked[r]
               PROVE  \/ Pending(r)' /\ Block(r)'.hash = Hash(r, i)'
                      \/ (Hash(r, i)' \in blocks') <=> Kept(r, i, acked[r])'
    BY DEF BlocksFollowChain, Hash, Kept
  <2>1. \/ Pending(r) /\ Block(r).hash = Hash(r, i)
        \/ (Hash(r, i) \in blocks) <=> Kept(r, i, acked[r])
    BY BlocksFollowChainDef DEF DeliveryInv
  <2>2. i \in 1..Len(log[r])
    BY <1>1, ShardTypes
  <2>3. CASE r = s
    BY <2>1, <2>3, <1>2
  <2>4. CASE r # s
    BY <2>1, <2>2, <2>4, <1>2, <1>4
  <2> QED
    BY <2>3, <2>4
<1> QED
  BY <1>5, <1>6, <1>7, <1>8

(* The acknowledgement finds the effect of its message in the index.       *)
LEMMA AckDelivery ==
  ASSUME DeliveryInv, NEW s \in Shards, Acknowledge(s)
  PROVE  ChainInv' /\ IdleInv' /\ EffectBeforeAck' /\ BlocksFollowChain'
<1> DEFINE n == acked[s]
<1>1. TypeOK
  BY DEF DeliveryInv
<1>2. /\ Pending(s) /\ pc[s] = "ack" /\ pc' = [pc EXCEPT ![s] = "idle"]
      /\ acked' = [acked EXCEPT ![s] = @ + 1]
      /\ log' = log /\ numBlocks' = numBlocks /\ blocks' = blocks
  BY DEF Acknowledge, Continue, chainVars
<1>3. /\ n \in Nat /\ n + 1 \in 1..Len(log[s]) /\ Len(log[s]) \in Nat
      /\ Block(s).hash = Hash(s, n + 1)
  BY <1>1, <1>2, ShardTypes
<1>4. /\ acked'[s] = n + 1 /\ pc'[s] = "idle"
      /\ \A r \in Shards : r # s => acked'[r] = acked[r] /\ pc'[r] = pc[r]
  BY <1>1, <1>2 DEF TypeOK
<1>5. /\ \A r \in Shards : r # s => /\ Pending(r)' <=> Pending(r)
                                    /\ Message(r)' = Message(r) /\ Block(r)' = Block(r)
      /\ \A r, i : Hash(r, i)' = Hash(r, i)
  BY <1>2, <1>4 DEF Pending, Message, Block, Hash
<1>6. (Hash(s, n + 1) \in blocks) <=> (log[s][n + 1].topic = "SaveBlock")
  BY <1>2, <1>3 DEF DeliveryInv, EffectBeforeAck, Message
<1>7. ChainInv'
  BY <1>2 DEF DeliveryInv, ChainInv, Hash
<1>8. IdleInv'
  BY <1>4, <1>5 DEF DeliveryInv, IdleInv
<1>9. EffectBeforeAck'
  BY <1>2, <1>4, <1>5 DEF DeliveryInv, EffectBeforeAck
<1>10. BlocksFollowChain'
  <2> SUFFICES ASSUME NEW r \in Shards, NEW i \in 1..acked'[r]
               PROVE  \/ Pending(r)' /\ Block(r)'.hash = Hash(r, i)'
                      \/ (Hash(r, i)' \in blocks') <=> Kept(r, i, acked[r])'
    BY DEF BlocksFollowChain, Hash, Kept
  <2>1. CASE r # s
    <3>1. Kept(r, i, acked[r])' <=> Kept(r, i, acked[r])
      BY <2>1, <1>2, <1>4 DEF Kept, Hash, LiveAt, IsRevert
    <3>2. \/ Pending(r) /\ Block(r).hash = Hash(r, i)
          \/ (Hash(r, i) \in blocks) <=> Kept(r, i, acked[r])
      BY <2>1, <1>4, BlocksFollowChainDef DEF DeliveryInv
    <3> QED
      BY <2>1, <3>1, <3>2, <1>2, <1>5
  <2>2. CASE r = s
    <3>1. Kept(s, i, acked[s])' <=> Kept(s, i, n + 1)
      BY <1>2, <1>4 DEF Kept, Hash, LiveAt, IsRevert
    <3>2. CASE Hash(s, i) = Hash(s, n + 1)
      <4>1. CASE log[s][n + 1].topic = "SaveBlock"
        <5>1. LiveAt(s, n + 1, n + 1)
          BY <4>1, <1>3 DEF LiveAt
        <5>2. Kept(s, i, n + 1)
          BY <5>1, <3>2, <1>3 DEF Kept
        <5> QED
          BY <5>2, <4>1, <3>1, <3>2, <2>2, <1>2, <1>5, <1>6
      <4>2. CASE log[s][n + 1].topic # "SaveBlock"
        <5>1. ASSUME NEW k \in 1..(n + 1), Hash(s, k) = Hash(s, i)
              PROVE  ~LiveAt(s, k, n + 1)
          <6>1. CASE k = n + 1
            BY <6>1, <4>2 DEF LiveAt
          <6>2. CASE k < n + 1
            <7>1. n + 1 \in (k + 1)..(n + 1)
              BY <6>2, <1>3
            <7>2. log[s][n + 1].topic = "RevertIndexedBlock"
              BY <4>2, <1>1, <1>3, ShardTypes DEF Topics
            <7>3. IsRevert(log[s][n + 1], log[s][k].block.hash)
              BY <7>2, <5>1, <3>2 DEF IsRevert, Hash
            <7> QED
              BY <7>1, <7>3 DEF LiveAt
          <6> QED
            BY <6>1, <6>2, <1>3
        <5>2. ~Kept(s, i, n + 1)
          BY <5>1 DEF Kept
        <5> QED
          BY <5>2, <4>2, <3>1, <3>2, <2>2, <1>2, <1>5, <1>6
      <4> QED
        BY <4>1, <4>2
    <3>3. CASE Hash(s, i) # Hash(s, n + 1)
      <4>1. i \in 1..n
        BY <3>3, <2>2, <1>3, <1>4
      <4>2. (Hash(s, i) \in blocks) <=> Kept(s, i, n)
        BY <3>3, <4>1, <1>3, BlocksFollowChainDef DEF DeliveryInv
      <4>3. ASSUME NEW k \in 1..n, Hash(s, k) = Hash(s, i)
            PROVE  LiveAt(s, k, n + 1) <=> LiveAt(s, k, n)
        <5>1. ~IsRevert(log[s][n + 1], log[s][k].block.hash)
          BY <3>3, <4>3 DEF IsRevert, Hash
        <5>2. \A j \in (k + 1)..(n + 1) : j \in (k + 1)..n \/ j = n + 1
          BY <1>3
        <5>3. /\ k \in 1..(n + 1)
              /\ \A j \in (k + 1)..n : j \in (k + 1)..(n + 1)
          BY <1>3
        <5> QED
          BY <5>1, <5>2, <5>3 DEF LiveAt
      <4>4. \A k \in 1..(n + 1) : Hash(s, k) = Hash(s, i) => k \in 1..n
        BY <3>3, <1>3
      <4>5. Kept(s, i, n + 1) <=> Kept(s, i, n)
        <5>1. \A k \in 1..n : k \in 1..(n + 1)
          BY <1>3
        <5> QED
          BY <4>3, <4>4, <5>1 DEF Kept
      <4> QED
        BY <4>2, <4>5, <3>1, <2>2, <1>2, <1>5
    <3> QED
      BY <3>2, <3>3
  <2> QED
    BY <2>1, <2>2
<1> QED
  BY <1>7, <1>8, <1>9, <1>10
-----------------------------------------------------------------------------
(* The message of a new block is a message.                                *)
LEMMA CommitMessage ==
  ASSUME TypeOK, NEW s \in Shards, NEW content \in Contents[s], Commit(s, content)
  PROVE  \E msg \in Messages :
           /\ log' = [log EXCEPT ![s] = Append(@, msg)]
           /\ msg.topic = "SaveBlock"
           /\ msg.block.hash = numBlocks + 1
           /\ msg.block.shard = s /\ msg.block.mbs = content.mbs
           /\ msg.block.infos = content.infos
           /\ \A e \in content.mbs : MayHold(s, e)
           /\ \A c \in Chain(s) : PreparedTxs(msg.block) \cap PreparedTxs(c) = {}
           /\ numBlocks' = numBlocks + 1
           /\ UNCHANGED <<acked, pc, blocks, miniblocks, txs, rewritten, failures>>
<1> DEFINE b == [hash |-> numBlocks + 1, shard |-> s, mbs |-> content.mbs,
                 failed |-> content.failed, infos |-> content.infos]
           msg == [topic |-> "SaveBlock", block |-> b]
<1>1. content \in [mbs : SUBSET Entries, failed : SUBSET Txs, infos : SUBSET StatusInfos]
  BY ContentsAssumption
<1>2. numBlocks + 1 \in Hashes
  BY DEF TypeOK, Hashes
<1>3. b \in Blocks
  BY <1>1, <1>2 DEF Blocks
<1>4. msg \in Messages /\ msg.topic = "SaveBlock" /\ msg.block.hash = numBlocks + 1
      /\ msg.block.shard = s /\ msg.block.mbs = content.mbs
      /\ msg.block.infos = content.infos
  BY <1>3 DEF Messages, Topics
<1>5. log' = [log EXCEPT ![s] = Append(@, msg)]
  BY DEF Commit
<1>6. /\ numBlocks' = numBlocks + 1 /\ UNCHANGED <<acked, pc, blocks, miniblocks, txs, rewritten, failures>>
      /\ \A e \in content.mbs : MayHold(s, e)
      /\ \A c \in Chain(s) : PreparedTxs(msg.block) \cap PreparedTxs(c) = {}
  BY DEF Commit
<1> QED
  BY <1>4, <1>5, <1>6

(* The message that reverts a block is a message about a saved one.        *)
LEMMA RollbackMessage ==
  ASSUME TypeOK, NEW s \in Shards, Rollback(s)
  PROVE  \E msg \in Messages :
           /\ log' = [log EXCEPT ![s] = Append(@, msg)]
           /\ msg.topic = "RevertIndexedBlock"
           /\ \E i \in 1..Len(log[s]) : log[s][i].block = msg.block
                                        /\ LiveAt(s, i, Len(log[s]))
           /\ \A c \in Chain(s) : c.hash <= msg.block.hash
           /\ UNCHANGED <<acked, pc, blocks, miniblocks, txs, rewritten, numBlocks, failures>>
<1>1. PICK b \in Chain(s) :
        /\ \A c \in Chain(s) : c.hash <= b.hash
        /\ log' = [log EXCEPT ![s] =
                     Append(@, [topic |-> "RevertIndexedBlock", block |-> b])]
        /\ UNCHANGED <<acked, pc, blocks, miniblocks, txs, rewritten, numBlocks, failures>>
  BY DEF Rollback
<1>2. PICK i \in DOMAIN log[s] : b = log[s][i].block /\ LiveAt(s, i, Len(log[s]))
  BY DEF Chain
<1>3. log[s] \in Seq(Messages) /\ i \in 1..Len(log[s])
  BY <1>2, ShardTypes
<1>4. b \in Blocks
  BY <1>2, <1>3, ShardTypes
<1> DEFINE msg == [topic |-> "RevertIndexedBlock", block |-> b]
<1>5. msg \in Messages /\ msg.topic = "RevertIndexedBlock" /\ msg.block = b
  BY <1>4 DEF Messages, Topics
<1> QED
  BY <1>1, <1>2, <1>3, <1>5

(* An appended message keeps the type of the log.                          *)
LEMMA AppendType ==
  ASSUME TypeOK, NEW s \in Shards, NEW msg \in Messages,
         log' = [log EXCEPT ![s] = Append(@, msg)],
         numBlocks' \in {numBlocks, numBlocks + 1},
         UNCHANGED <<acked, pc, blocks, miniblocks, txs, rewritten, failures>>
  PROVE  TypeOK'
<1>1. \A r \in Shards : acked'[r] <= Len(log'[r])
  <2> SUFFICES ASSUME NEW r \in Shards PROVE acked[r] <= Len(log'[r])
    OBVIOUS
  <2>1. Len(log'[r]) \in {Len(log[r]), Len(log[r]) + 1}
    BY AppendMessage
  <2> QED
    BY <2>1, ShardTypes
<1>2. log' \in [Shards -> Seq(Messages)]
  BY AppendMessage
<1>3. numBlocks' \in Nat /\ blocks' \subseteq 1..numBlocks'
  BY DEF TypeOK
<1> QED
  BY <1>1, <1>2, <1>3 DEF TypeOK

(* The counters after a request that went through or failed.               *)
LEMMA RequestOutcome ==
  ASSUME TypeOK, NEW s \in Shards, NEW step \in Steps, Continue(s, step) \/ Fail(s)
  PROVE  pc' \in [Shards -> Steps] /\ failures' \in 0..MaxFailures
<1>1. pc \in [Shards -> Steps] /\ failures \in 0..MaxFailures /\ "idle" \in Steps
  BY DEF TypeOK, Steps
<1>2. CASE Continue(s, step)
  BY <1>1, <1>2 DEF Continue
<1>3. CASE Fail(s)
  <2>1. failures' = failures + 1 /\ failures < MaxFailures /\ pc' = [pc EXCEPT ![s] = "idle"]
    BY <1>3 DEF Fail
  <2> QED
    BY <1>1, <2>1, BoundsAssumption
<1> QED
  BY <1>2, <1>3

(* What a block writes into the index of transactions are transactions.    *)
LEMMA PreparedAreTxs ==
  ASSUME NEW b \in Blocks
  PROVE  PreparedTxs(b) \subseteq Txs /\ StatusTxs(b) \subseteq Txs
<1>1. \A e \in GroupedEntries(b) : ExtractExecutedTxHashes(e) \subseteq Txs
  <2> SUFFICES ASSUME NEW e \in GroupedEntries(b) PROVE ExtractExecutedTxHashes(e) \subseteq Txs
    OBVIOUS
  <2>1. e \in Entries
    BY DEF GroupedEntries, Blocks
  <2>2. e.executed \subseteq Txs /\ MbInfo[e.mb].txs \subseteq Txs
    BY <2>1, MiniblockAssumption DEF Entries
  <2> QED
    BY <2>2 DEF ExtractExecutedTxHashes
<1>2. \A i \in b.infos : i.tx \in Txs
  BY DEF Blocks, StatusInfos
<1> QED
  BY <1>1, <1>2 DEF PreparedTxs, StatusTxs

(* The writes that overlap a query remove are pairs of a block and a       *)
(* document.                                                               *)
LEMMA OverlappedType ==
  ASSUME TypeOK, ChainInv, NEW s \in Shards, NEW step,
         NEW docs \in SUBSET (Miniblocks \cup Txs)
  PROVE  Overlapped(s, step, docs) \subseteq Nat \X (Miniblocks \cup Txs)
<1>1. \A r \in Shards : At(r, "RevertIndexedBlock", step) => Block(r).hash \in Nat
  <2> SUFFICES ASSUME NEW r \in Shards, Pending(r) PROVE Block(r).hash \in 1..numBlocks
    BY DEF At, TypeOK
  <2> QED
    BY ShardTypes DEF ChainInv
<1> QED
  BY <1>1 DEF Overlapped

(* The requests and the acknowledgements keep the types.                   *)
LEMMA HandlerType ==
  ASSUME TypeOK, ChainInv, NEW s \in Shards, Handler(s)
  PROVE  TypeOK'
<1> DEFINE b == Block(s)
<1>1. Pending(s)
  BY DEF Handler, ProcessPayload, SaveHeader, SaveMiniblocks, SaveTransactions, RemoveHeader,
         RemoveMiniblocks, RemoveTransactions,
         RemoveAccountsESDT, Acknowledge, LoseAck, At
<1>2. b \in Blocks /\ b.hash \in 1..numBlocks
  BY <1>1, ShardTypes DEF ChainInv
<1> HIDE DEF b
<1>3. CASE ProcessPayload(s)
  <2>1. pc' \in [Shards -> Steps] /\ failures' \in 0..MaxFailures
    BY <1>3, RequestOutcome DEF ProcessPayload, Steps
  <2> QED
    BY <1>3, <2>1 DEF ProcessPayload, chainVars, TypeOK
<1>4. CASE SaveHeader(s)
  <2>1. pc' \in [Shards -> Steps] /\ failures' \in 0..MaxFailures
    <3>1. \A x : (IF HasBody(x) THEN "miniblocks" ELSE "ack") \in Steps
      BY DEF Steps
    <3> QED
      BY <1>4, <3>1, RequestOutcome DEF SaveHeader, Steps
  <2>2. blocks' \subseteq 1..numBlocks
    BY <1>2, <1>4 DEF SaveHeader, TypeOK, b
  <2> QED
    BY <1>4, <2>1, <2>2 DEF SaveHeader, chainVars, TypeOK
<1>5. CASE SaveMiniblocks(s)
  <2>1. pc' \in [Shards -> Steps] /\ failures' \in 0..MaxFailures
    BY <1>5, RequestOutcome DEF SaveMiniblocks, Steps
  <2>2. PrepareDBMiniblocks(b) \subseteq b.mbs
    BY DEF PrepareDBMiniblocks
  <2>3. \A es \in SUBSET PrepareDBMiniblocks(b) :
           IndexMiniblocks(miniblocks, b, es) \in [Miniblocks -> MbDocs \cup {NoDoc}]
    BY <1>2, <2>2, IndexMiniblocksType DEF TypeOK
  <2>4. miniblocks' \in [Miniblocks -> MbDocs \cup {NoDoc}]
    BY <1>5, <2>3 DEF SaveMiniblocks, b
  <2>5. \A es \in SUBSET PrepareDBMiniblocks(b) : {e.mb : e \in es} \subseteq Miniblocks
    BY <1>2, <2>2 DEF Blocks, Entries
  <2>6. rewritten' \subseteq Nat \X (Miniblocks \cup Txs)
    <3>1. PICK es \in SUBSET PrepareDBMiniblocks(b) :
            rewritten' = rewritten \cup Overlapped(s, "miniblocks", {e.mb : e \in es})
      BY <1>5 DEF SaveMiniblocks, b
    <3>2. {e.mb : e \in es} \in SUBSET (Miniblocks \cup Txs)
      BY <2>5
    <3>3. Overlapped(s, "miniblocks", {e.mb : e \in es}) \subseteq Nat \X (Miniblocks \cup Txs)
      BY <3>2, OverlappedType
    <3> QED
      BY <3>1, <3>3 DEF TypeOK
  <2> QED
    BY <1>5, <2>1, <2>4, <2>6 DEF SaveMiniblocks, chainVars, TypeOK
<1>6. CASE SaveTransactions(s)
  <2>1. pc' \in [Shards -> Steps] /\ failures' \in 0..MaxFailures
    BY <1>6, RequestOutcome DEF SaveTransactions, Steps
  <2>2. \A ts \in SUBSET PreparedTxs(b), us \in SUBSET StatusTxs(b) :
           IndexTransactions(txs, b, ts, us) \in [Txs -> TxDocs \cup {NoDoc}]
    BY <1>2, IndexTransactionsType DEF TypeOK
  <2>3. txs' \in [Txs -> TxDocs \cup {NoDoc}]
    <3>1. PICK ts \in SUBSET PreparedTxs(b), us \in SUBSET StatusTxs(b) :
            txs' = IndexTransactions(txs, b, ts, us)
      BY <1>6 DEF SaveTransactions, b
    <3> QED
      BY <2>2, <3>1
  <2>4. PreparedTxs(b) \subseteq Txs /\ StatusTxs(b) \subseteq Txs
    BY <1>2, PreparedAreTxs
  <2>5. rewritten' \subseteq Nat \X (Miniblocks \cup Txs)
    <3>1. PICK ts \in SUBSET PreparedTxs(b), us \in SUBSET StatusTxs(b) :
            rewritten' = rewritten \cup Overlapped(s, "transactions", ts \cup us)
      BY <1>6 DEF SaveTransactions, b
    <3>2. Overlapped(s, "transactions", ts \cup us) \subseteq Nat \X (Miniblocks \cup Txs)
      BY <2>4, OverlappedType
    <3> QED
      BY <3>1, <3>2 DEF TypeOK
  <2> QED
    BY <1>6, <2>1, <2>3, <2>5 DEF SaveTransactions, chainVars, TypeOK
<1>7. CASE RemoveHeader(s)
  <2>1. pc' \in [Shards -> Steps] /\ failures' \in 0..MaxFailures
    BY <1>7, RequestOutcome DEF RemoveHeader, Steps
  <2>2. blocks' \subseteq blocks
    BY <1>7 DEF RemoveHeader
  <2>3. rewritten' \subseteq rewritten
    BY <1>7 DEF RemoveHeader
  <2> QED
    BY <1>7, <2>1, <2>2, <2>3 DEF RemoveHeader, chainVars, TypeOK
<1>8. CASE RemoveMiniblocks(s)
  <2>1. pc' \in [Shards -> Steps] /\ failures' \in 0..MaxFailures
    BY <1>8, RequestOutcome DEF RemoveMiniblocks, Steps
  <2>2. \A removed : Without(miniblocks, removed) \in [Miniblocks -> MbDocs \cup {NoDoc}]
    BY DEF Without, TypeOK
  <2>3. miniblocks' \in [Miniblocks -> MbDocs \cup {NoDoc}]
    BY <1>8, <2>2 DEF RemoveMiniblocks
  <2> QED
    BY <1>8, <2>1, <2>3 DEF RemoveMiniblocks, chainVars, TypeOK
<1>9. CASE RemoveTransactions(s)
  <2>1. pc' \in [Shards -> Steps] /\ failures' \in 0..MaxFailures
    BY <1>9, RequestOutcome DEF RemoveTransactions, Steps
  <2>2. \A removed : Without(txs, removed) \in [Txs -> TxDocs \cup {NoDoc}]
    BY DEF Without, TypeOK
  <2>3. txs' \in [Txs -> TxDocs \cup {NoDoc}]
    BY <1>9, <2>2 DEF RemoveTransactions
  <2> QED
    BY <1>9, <2>1, <2>3 DEF RemoveTransactions, chainVars, TypeOK
<1>10. CASE Acknowledge(s)
  <2>1. pc' \in [Shards -> Steps] /\ failures' \in 0..MaxFailures
    BY <1>10, RequestOutcome DEF Acknowledge, Steps
  <2>2. acked' \in [Shards -> Nat] /\ \A r \in Shards : acked'[r] <= Len(log[r])
    <3>1. acked' = [acked EXCEPT ![s] = @ + 1]
      BY <1>10 DEF Acknowledge
    <3>2. acked[s] + 1 <= Len(log[s]) /\ acked[s] + 1 \in Nat
      BY <1>1, ShardTypes
    <3> QED
      BY <3>1, <3>2 DEF TypeOK
  <2> QED
    BY <1>10, <2>1, <2>2 DEF Acknowledge, chainVars, TypeOK
<1>11. CASE LoseAck(s)
  <2>1. pc' \in [Shards -> Steps] /\ failures' \in 0..MaxFailures
    BY <1>11, RequestOutcome DEF LoseAck, Steps
  <2> QED
    BY <1>11, <2>1 DEF LoseAck, chainVars, TypeOK
<1>12. CASE RemoveAccountsESDT(s)
  <2>1. pc' \in [Shards -> Steps] /\ failures' \in 0..MaxFailures
    BY <1>12, RequestOutcome DEF RemoveAccountsESDT, Steps
  <2> QED
    BY <1>12, <2>1 DEF RemoveAccountsESDT, chainVars, TypeOK
<1> QED
  BY <1>3, <1>4, <1>5, <1>6, <1>7, <1>8, <1>9, <1>10, <1>11, <1>12 DEF Handler

(* Every step keeps TypeOK and ChainInv.                                   *)
LEMMA NextType == TypeOK /\ ChainInv /\ [Next]_vars => TypeOK' /\ ChainInv'
<1> SUFFICES ASSUME TypeOK, ChainInv, [Next]_vars PROVE TypeOK' /\ ChainInv'
  OBVIOUS
<1>1. ASSUME NEW s \in Shards, NEW content \in Contents[s], Commit(s, content)
      PROVE  TypeOK' /\ ChainInv'
  BY <1>1, CommitMessage, AppendType, AppendChainInv
<1>2. ASSUME NEW s \in Shards, Rollback(s)
      PROVE  TypeOK' /\ ChainInv'
  <2>1. PICK msg \in Messages :
           /\ log' = [log EXCEPT ![s] = Append(@, msg)]
           /\ msg.topic = "RevertIndexedBlock"
           /\ \E i \in 1..Len(log[s]) : log[s][i].block = msg.block
           /\ UNCHANGED <<acked, pc, blocks, miniblocks, txs, rewritten, numBlocks, failures>>
    BY <1>2, RollbackMessage
  <2>2. TypeOK'
    BY <2>1, AppendType
  <2>3. \E i \in 1..Len(log[s]) : Hash(s, i) = msg.block.hash
    BY <2>1 DEF Hash
  <2>4. ChainInv'
    BY <2>1, <2>3, AppendChainInv
  <2> QED
    BY <2>2, <2>4
<1>3. ASSUME NEW s \in Shards, Handler(s)
      PROVE  TypeOK' /\ ChainInv'
  <2>1. log' = log /\ numBlocks' = numBlocks
    BY <1>3 DEF Handler, ProcessPayload, SaveHeader, SaveMiniblocks, SaveTransactions,
           RemoveHeader, RemoveMiniblocks, RemoveTransactions,
         RemoveAccountsESDT, Acknowledge, LoseAck, chainVars
  <2> QED
    BY <2>1, <1>3, HandlerType DEF ChainInv, Hash
<1>4. CASE UNCHANGED vars
  BY <1>4 DEF vars, TypeOK, ChainInv, Hash
<1> QED
  BY <1>1, <1>2, <1>3, <1>4 DEF Next, Observer

(* In the initial state nothing was committed and nothing indexed.         *)
LEMMA InitDelivery == Init => DeliveryInv
<1> SUFFICES ASSUME Init PROVE DeliveryInv
  OBVIOUS
<1>1. \A s \in Shards : log[s] = <<>> /\ Len(log[s]) = 0 /\ acked[s] = 0 /\ pc[s] = "idle"
  BY DEF Init
<1>2. TypeOK
  <2>1. log \in [Shards -> Seq(Messages)] /\ acked \in [Shards -> Nat] /\ pc \in [Shards -> Steps]
    BY DEF Init, Steps
  <2>2. failures \in 0..MaxFailures
    BY BoundsAssumption DEF Init
  <2> QED
    BY <1>1, <2>1, <2>2 DEF Init, TypeOK
<1>3. ChainInv /\ IdleInv /\ EffectBeforeAck /\ BlocksFollowChain
  BY <1>1 DEF ChainInv, IdleInv, EffectBeforeAck, BlocksFollowChain
<1> QED
  BY <1>2, <1>3 DEF DeliveryInv

(* The handlers keep the invariant, when the refresh before a query remove *)
(* does not fail.                                                          *)
LEMMA HandlerDelivery ==
  ASSUME RefreshFails = FALSE, DeliveryInv, NEW s \in Shards, Handler(s)
  PROVE  IdleInv' /\ EffectBeforeAck' /\ BlocksFollowChain'
<1> DEFINE after == {"miniblocks", "transactions", "accounts", "ack"}
<1>1. Pending(s)
  BY DEF Handler, ProcessPayload, SaveHeader, SaveMiniblocks, SaveTransactions, RemoveHeader,
         RemoveMiniblocks, RemoveTransactions,
         RemoveAccountsESDT, Acknowledge, LoseAck, At
<1>2. pc[s] \in after => ((Block(s).hash \in blocks) <=> (Message(s).topic = "SaveBlock"))
  BY <1>1 DEF DeliveryInv, EffectBeforeAck
<1>3. CASE Acknowledge(s)
  BY <1>3, AckDelivery
<1>4. CASE ~Acknowledge(s)
  <2>1. UNCHANGED <<log, acked, numBlocks>>
    BY <1>4 DEF Handler, ProcessPayload, SaveHeader, SaveMiniblocks, SaveTransactions,
           RemoveHeader, RemoveMiniblocks, RemoveTransactions,
             RemoveAccountsESDT, LoseAck, chainVars
  <2>2. \A h : h # Block(s).hash => ((h \in blocks') <=> (h \in blocks))
    <3>1. CASE SaveHeader(s) \/ RemoveHeader(s)
      BY <3>1, RefreshFails = FALSE DEF SaveHeader, RemoveHeader, Removable
    <3>2. CASE ~(SaveHeader(s) \/ RemoveHeader(s))
      BY <1>4, <3>2 DEF Handler, ProcessPayload, SaveMiniblocks, SaveTransactions,
             RemoveMiniblocks, RemoveTransactions,
             RemoveAccountsESDT, LoseAck
    <3> QED
      BY <3>1, <3>2
  <2>3. \E step \in Steps :
          /\ pc' = [pc EXCEPT ![s] = step]
          /\ step \in after =>
               ((Block(s).hash \in blocks') <=> (Message(s).topic = "SaveBlock"))
    <3>1. CASE SaveHeader(s)
      <4>1. Message(s).topic = "SaveBlock"
        BY <3>1 DEF SaveHeader, At
      <4>2. CASE blocks' = blocks \cup {Block(s).hash} /\
                 Continue(s, IF HasBody(Block(s)) THEN "miniblocks" ELSE "ack")
        <5>1. (Block(s).hash \in blocks') <=> (Message(s).topic = "SaveBlock")
          BY <4>1, <4>2
        <5>2. (IF HasBody(Block(s)) THEN "miniblocks" ELSE "ack") \in Steps
          BY DEF Steps
        <5> QED
          BY <4>2, <5>1, <5>2 DEF Continue
      <4>3. CASE Fail(s)
        BY <4>3 DEF Fail, Steps
      <4> QED
        BY <3>1, <4>2, <4>3 DEF SaveHeader
    <3>2. CASE RemoveHeader(s)
      <4>1. Message(s).topic = "RevertIndexedBlock"
        BY <3>2 DEF RemoveHeader, At
      <4>2. CASE blocks' = blocks \ {Block(s).hash} /\ Continue(s, "miniblocks")
        BY <4>1, <4>2 DEF Continue, Steps
      <4>3. CASE Fail(s)
        BY <4>3 DEF Fail, Steps
      <4> QED
        BY <3>2, <4>2, <4>3, RefreshFails = FALSE DEF RemoveHeader, Removable
    <3>3. CASE ProcessPayload(s) \/ LoseAck(s)
      BY <3>3 DEF ProcessPayload, LoseAck, Continue, Fail, Steps
    <3>4. CASE SaveMiniblocks(s) \/ SaveTransactions(s) \/ RemoveMiniblocks(s)
               \/ RemoveTransactions(s) \/ RemoveAccountsESDT(s)
      <4>1. pc[s] \in after /\ blocks' = blocks
        BY <3>4 DEF SaveMiniblocks, SaveTransactions, RemoveMiniblocks, RemoveTransactions,
               RemoveAccountsESDT, At
      <4>2. \/ Continue(s, "transactions") \/ Continue(s, "accounts")
            \/ Continue(s, "ack") \/ Fail(s)
        BY <3>4 DEF SaveMiniblocks, SaveTransactions, RemoveMiniblocks, RemoveTransactions,
               RemoveAccountsESDT
      <4> QED
        BY <4>1, <4>2, <1>2 DEF Continue, Fail, Steps
    <3> QED
      BY <1>4, <3>1, <3>2, <3>3, <3>4 DEF Handler
  <2>4. ASSUME NEW step \in Steps, pc' = [pc EXCEPT ![s] = step],
               step \in after =>
                 ((Block(s).hash \in blocks') <=> (Message(s).topic = "SaveBlock"))
        PROVE  IdleInv' /\ EffectBeforeAck' /\ BlocksFollowChain'
    BY <1>1, <2>1, <2>2, <2>4, RequestDelivery
  <2> QED
    BY <2>3, <2>4
<1> QED
  BY <1>3, <1>4

(* Every step keeps the invariant.                                         *)
LEMMA NextDelivery ==
  ASSUME RefreshFails = FALSE
  PROVE  DeliveryInv /\ [Next]_vars => DeliveryInv'
<1> SUFFICES ASSUME DeliveryInv, [Next]_vars PROVE DeliveryInv'
  OBVIOUS
<1>1. TypeOK' /\ ChainInv' /\ TypeOK
  BY NextType DEF DeliveryInv
<1>2. ASSUME NEW s \in Shards, Observer(s)
      PROVE  IdleInv' /\ EffectBeforeAck' /\ BlocksFollowChain'
  <2>1. \E msg \in Messages : /\ log' = [log EXCEPT ![s] = Append(@, msg)]
                              /\ UNCHANGED <<acked, pc, blocks>>
    <3>1. CASE \E content \in Contents[s] : Commit(s, content)
      BY <3>1, <1>1, CommitMessage
    <3>2. CASE Rollback(s)
      BY <3>2, <1>1, RollbackMessage
    <3> QED
      BY <1>2, <3>1, <3>2 DEF Observer
  <2> QED
    BY <2>1, AppendDelivery
<1>3. CASE UNCHANGED vars
  <2>1. IdleInv' /\ EffectBeforeAck' /\ BlocksFollowChain'
    BY <1>3 DEF vars, DeliveryInv, IdleInv, EffectBeforeAck, BlocksFollowChain, Pending, Block,
           Message, LiveAt, IsRevert
  <2> QED
    BY <1>1, <2>1 DEF DeliveryInv
<1> QED
  BY <1>1, <1>2, <1>3, HandlerDelivery DEF Next, DeliveryInv
-----------------------------------------------------------------------------
(***************************************************************************)
(* The theorems.                                                           *)
(***************************************************************************)
(* The logs, the handlers and the indexes have their types, also when      *)
(* requests are executed in part.                                          *)
THEOREM TypeCorrect == Spec => []TypeOK
<1>1. Init => TypeOK /\ ChainInv
  BY InitDelivery DEF DeliveryInv
<1>2. TypeOK /\ ChainInv /\ [Next]_vars => TypeOK' /\ ChainInv'
  BY NextType
<1> QED
  BY <1>1, <1>2, PTL DEF Spec

(* The index "blocks" is the chain of the acknowledged messages, for any   *)
(* number of shards, failures and repetitions, if the refresh before a     *)
(* query remove does not fail.                                             *)
THEOREM BlocksFollowChainHolds ==
  ASSUME RefreshFails = FALSE
  PROVE  Spec => []BlocksFollowChain
<1>1. DeliveryInv => BlocksFollowChain
  BY DEF DeliveryInv
<1> QED
  BY <1>1, InitDelivery, NextDelivery, PTL DEF Spec

(* A step of the indexer is a step of the contract or leaves it alone.     *)
LEMMA NextContract ==
  ASSUME RefreshFails = FALSE, DeliveryInv, [Next]_vars
  PROVE  [Contract!Next]_(Contract!vars)
<1>1. TypeOK
  BY DEF DeliveryInv
<1>2. ASSUME NEW s \in Shards, Observer(s)
      PROVE  Contract!Publish(s)
  <2>1. PICK msg \in Messages : /\ log' = [log EXCEPT ![s] = Append(@, msg)]
                                /\ UNCHANGED <<acked, blocks>>
    <3>1. CASE \E content \in Contents[s] : Commit(s, content)
      BY <3>1, <1>1, CommitMessage
    <3>2. CASE Rollback(s)
      BY <3>2, <1>1, RollbackMessage
    <3> QED
      BY <1>2, <3>1, <3>2 DEF Observer
  <2>2. Len(log'[s]) = Len(log[s]) + 1 /\ log'[s][Len(log[s]) + 1] = msg
    BY <1>1, <2>1, AppendMessage
  <2> QED
    BY <2>1, <2>2 DEF Contract!Publish
<1>3. ASSUME NEW s \in Shards, Handler(s)
      PROVE  Contract!Apply(s) \/ Contract!Ack(s) \/ UNCHANGED Contract!vars
  <2>1. Pending(s) /\ acked[s] < Len(log[s]) /\ Contract!Current(s) = Message(s)
    BY <1>3 DEF Handler, ProcessPayload, SaveHeader, SaveMiniblocks, SaveTransactions,
           RemoveHeader, RemoveMiniblocks, RemoveTransactions,
         RemoveAccountsESDT, Acknowledge, LoseAck, At,
           Contract!Current, Message, Pending
  <2>2. CASE Acknowledge(s)
    <3>1. (Block(s).hash \in blocks) <=> (Message(s).topic = "SaveBlock")
      BY <2>1, <2>2 DEF Acknowledge, DeliveryInv, EffectBeforeAck
    <3>2. Contract!Effect(Message(s), blocks) = blocks
      BY <3>1 DEF Contract!Effect, Block
    <3> QED
      BY <2>1, <2>2, <3>2 DEF Contract!Ack, Acknowledge, chainVars
  <2>3. CASE SaveHeader(s) \/ RemoveHeader(s)
    <3>1. blocks' = blocks \/ blocks' = Contract!Effect(Message(s), blocks)
      <4>1. CASE SaveHeader(s)
        BY <4>1 DEF SaveHeader, At, Contract!Effect, Block
      <4>2. CASE RemoveHeader(s)
        BY <4>2, RefreshFails = FALSE DEF RemoveHeader, Removable, At, Contract!Effect, Block
      <4> QED
        BY <2>3, <4>1, <4>2
    <3>2. UNCHANGED <<log, acked>>
      BY <2>3 DEF SaveHeader, RemoveHeader, chainVars
    <3> QED
      BY <2>1, <3>1, <3>2 DEF Contract!Apply, Contract!vars
  <2>4. CASE ~(Acknowledge(s) \/ SaveHeader(s) \/ RemoveHeader(s))
    BY <1>3, <2>4 DEF Handler, ProcessPayload, SaveMiniblocks, SaveTransactions,
           RemoveMiniblocks, RemoveTransactions,
             RemoveAccountsESDT, LoseAck, chainVars, Contract!vars
  <2> QED
    BY <2>2, <2>3, <2>4
<1>4. CASE UNCHANGED vars
  BY <1>4 DEF vars, Contract!vars
<1> QED
  BY <1>2, <1>3, <1>4 DEF Next, Contract!Next

(* The indexer implements the contract: every message of a shard is        *)
(* carried out in order and acknowledged only while the index shows its    *)
(* effect.                                                                 *)
THEOREM Implementation ==
  ASSUME RefreshFails = FALSE
  PROVE  Spec => ImplementsContract
<1>1. Init => Contract!Init
  BY DEF Init, Contract!Init
<1>2. DeliveryInv /\ [Next]_vars => [Contract!Next]_(Contract!vars)
  BY NextContract
<1> QED
  BY <1>1, <1>2, InitDelivery, NextDelivery, PTL DEF Spec, ImplementsContract, Contract!Spec
-----------------------------------------------------------------------------
(***************************************************************************)
(* A document never goes back to "pending".  The reason is that a block    *)
(* writes "pending" only for a transaction that leaves its shard, and then *)
(* TransactionScript leaves an existing document alone; it rests on every  *)
(* block holding only miniblocks that its shard sends or receives.         *)
(***************************************************************************)
Participates(b) ==
  \A e \in b.mbs :
    \/ b.shard \in {MbInfo[e.mb].snd, MbInfo[e.mb].rcv}
    \/ MbInfo[e.mb].rcv = AllShards /\ MbInfo[e.mb].type = "PeerBlock"

ParticipantInv ==
  \A s \in Shards : \A i \in 1..Len(log[s]) : Participates(log[s][i].block)

HasOutcome(doc) == doc # NoDoc /\ doc.status \in {"success", "fail"}

(* The write of a transaction does not make an outcome pending again.      *)
LEMMA TransactionScriptOutcome ==
  ASSUME NEW b \in Blocks, Participates(b), NEW t \in Txs, t \in PreparedTxs(b),
         NEW stored \in TxDocs \cup {NoDoc}, HasOutcome(stored)
  PROVE  TransactionScript(stored, b, t).status # "pending"
<1> DEFINE e  == EntryOf(b, t)
           tx == prepareTransaction(b, e, t)
<1>1. e \in b.mbs /\ e \in GroupedEntries(b)
  BY EntryOfType
<1>2. b.shard \in {MbInfo[e.mb].snd, MbInfo[e.mb].rcv}
  BY <1>1 DEF GroupedEntries, Participates
<1>3. /\ tx.status = IF t \in b.failed THEN "fail"
                     ELSE IF MbInfo[e.mb].type = "InvalidBlock" THEN "invalid"
                     ELSE computeStatus(b.shard, MbInfo[e.mb].rcv)
      /\ tx \in TxDocs /\ stored \in TxDocs
  BY EntryOfType, PreparedTransactionType DEF prepareTransaction, HasOutcome
<1> HIDE DEF tx, e
<1>4. ~isCrossShardOnSourceShard(b, e, t) => tx.status # "pending"
  BY <1>2, <1>3 DEF isCrossShardOnSourceShard, ReceiverShard, computeStatus
<1>5. CASE isCrossShardOnSourceShard(b, e, t)
  <2>1. [stored EXCEPT !.fee = tx.fee].status = stored.status
    BY <1>3 DEF TxDocs
  <2> QED
    BY <1>5, <2>1 DEF TransactionScript, HasOutcome, tx, e
<1>6. CASE ~isCrossShardOnSourceShard(b, e, t)
  <2>1. prepareNFTESDTTransferOrMultiESDTTransfer(stored, tx).status = stored.status
    BY <1>3 DEF prepareNFTESDTTransferOrMultiESDTTransfer, HasOutcome, TxDocs
  <2>2. [tx EXCEPT !.fee = stored.fee].status = tx.status
    BY <1>3 DEF TxDocs
  <2> QED
    BY <1>4, <1>6, <2>1, <2>2 DEF TransactionScript, HasOutcome, tx, e
<1> QED
  BY <1>5, <1>6

(* Neither does a status update.                                           *)
LEMMA StatusScriptOutcome ==
  ASSUME NEW b \in Blocks, NEW t \in Txs, NEW stored \in TxDocs, stored # NoDoc,
         stored.status # "pending"
  PROVE  StatusScript(stored, b, t).status # "pending"
<1> DEFINE info == StatusInfoOf(b, t)
<1>1. info.status \in {"", "fail"}
  BY DEF StatusInfoOf
<1> HIDE DEF info
<1>2. [stored EXCEPT !.status = IF info.status # "" THEN info.status ELSE @,
                     !.errorEvent = info.errorEvent \/ @,
                     !.completedEvent = info.completedEvent \/ @].status # "pending"
  BY <1>1 DEF TxDocs
<1> QED
  BY <1>2 DEF StatusScript, info

(* The bulk request of SaveTransactions keeps every outcome.               *)
LEMMA IndexTransactionsOutcome ==
  ASSUME NEW docs \in [Txs -> TxDocs \cup {NoDoc}], NEW b \in Blocks, Participates(b),
         NEW ts \in SUBSET PreparedTxs(b), NEW us \in SUBSET StatusTxs(b),
         NEW t \in Txs, HasOutcome(docs[t])
  PROVE  \/ IndexTransactions(docs, b, ts, us)[t] = NoDoc
         \/ IndexTransactions(docs, b, ts, us)[t].status # "pending"
<1> DEFINE doc == IF t \in ts THEN TransactionScript(docs[t], b, t) ELSE docs[t]
<1>1. doc \in TxDocs /\ doc.status # "pending"
  BY TransactionScriptType, TransactionScriptOutcome DEF HasOutcome
<1>2. IndexTransactions(docs, b, ts, us)[t] = IF t \in us THEN StatusScript(doc, b, t) ELSE doc
  BY DEF IndexTransactions
<1> HIDE DEF doc
<1>3. CASE doc = NoDoc /\ t \in us
  <2>1. StatusInfoOf(b, t).status \in {"", "fail"}
    BY DEF StatusInfoOf
  <2>2. StatusScript(doc, b, t).status = StatusInfoOf(b, t).status
    BY <1>3 DEF StatusScript
  <2> QED
    BY <1>2, <1>3, <2>1, <2>2
<1>4. CASE doc # NoDoc /\ t \in us
  BY <1>1, <1>2, <1>4, StatusScriptOutcome
<1>5. CASE t \notin us
  BY <1>1, <1>2, <1>5
<1> QED
  BY <1>3, <1>4, <1>5

(* Every block of every log holds only miniblocks of its shard.            *)
LEMMA NextParticipant ==
  ASSUME TypeOK, ParticipantInv, [Next]_vars
  PROVE  ParticipantInv'
<1>1. ASSUME NEW s \in Shards, NEW msg \in Messages, Participates(msg.block),
             log' = [log EXCEPT ![s] = Append(@, msg)]
      PROVE  ParticipantInv'
  <2> SUFFICES ASSUME NEW r \in Shards, NEW i \in 1..Len(log'[r])
               PROVE  Participates(log'[r][i].block)
    BY DEF ParticipantInv, Participates
  <2>1. CASE i \in 1..Len(log[r])
    BY <2>1, <1>1, AppendMessage DEF ParticipantInv
  <2>2. CASE r = s /\ i = Len(log[s]) + 1
    BY <2>2, <1>1, AppendMessage
  <2>3. i \in 1..Len(log[r]) \/ (r = s /\ i = Len(log[s]) + 1)
    BY <1>1, AppendMessage, ShardTypes
  <2> QED
    BY <2>1, <2>2, <2>3
<1>2. ASSUME NEW s \in Shards, NEW content \in Contents[s], Commit(s, content)
      PROVE  ParticipantInv'
  <2>1. PICK msg \in Messages :
          /\ log' = [log EXCEPT ![s] = Append(@, msg)]
          /\ msg.block.shard = s /\ msg.block.mbs = content.mbs
    BY <1>2, CommitMessage
  <2>2. Participates(msg.block)
    BY <2>1, ParticipantAssumption DEF Participates
  <2> QED
    BY <1>1, <2>1, <2>2
<1>3. ASSUME NEW s \in Shards, Rollback(s)
      PROVE  ParticipantInv'
  <2>1. PICK msg \in Messages :
          /\ log' = [log EXCEPT ![s] = Append(@, msg)]
          /\ \E i \in 1..Len(log[s]) : log[s][i].block = msg.block
    BY <1>3, RollbackMessage
  <2>2. Participates(msg.block)
    BY <2>1 DEF ParticipantInv
  <2> QED
    BY <1>1, <2>1, <2>2
<1>4. ASSUME NEW s \in Shards, Handler(s)
      PROVE  ParticipantInv'
  <2>1. log' = log
    BY <1>4 DEF Handler, ProcessPayload, SaveHeader, SaveMiniblocks, SaveTransactions,
           RemoveHeader, RemoveMiniblocks, RemoveTransactions,
         RemoveAccountsESDT, Acknowledge, LoseAck, chainVars
  <2> QED
    BY <2>1 DEF ParticipantInv, Participates
<1>5. CASE UNCHANGED vars
  BY <1>5 DEF vars, ParticipantInv, Participates
<1> QED
  BY <1>2, <1>3, <1>4, <1>5 DEF Next, Observer

(* No step takes a transaction from an outcome back to "pending".          *)
LEMMA StepKeepsOutcome ==
  ASSUME TypeOK, ParticipantInv, Next, NEW t \in Txs, HasOutcome(txs[t])
  PROVE  txs'[t] = NoDoc \/ txs'[t].status # "pending"
<1>1. CASE txs' = txs
  BY <1>1 DEF HasOutcome
<1>2. ASSUME NEW s \in Shards, SaveTransactions(s)
      PROVE  txs'[t] = NoDoc \/ txs'[t].status # "pending"
  <2>1. Pending(s)
    BY <1>2 DEF SaveTransactions, At
  <2>2. Block(s) \in Blocks /\ Participates(Block(s))
    <3>1. acked[s] + 1 \in 1..Len(log[s]) /\ Block(s) \in Blocks
      BY <2>1, ShardTypes
    <3> QED
      BY <3>1 DEF ParticipantInv, Block, Message
  <2>3. \A ts \in SUBSET PreparedTxs(Block(s)), us \in SUBSET StatusTxs(Block(s)) :
          \/ IndexTransactions(txs, Block(s), ts, us)[t] = NoDoc
          \/ IndexTransactions(txs, Block(s), ts, us)[t].status # "pending"
    BY <2>2, IndexTransactionsOutcome DEF TypeOK
  <2>4. \E ts \in SUBSET PreparedTxs(Block(s)), us \in SUBSET StatusTxs(Block(s)) :
          txs' = IndexTransactions(txs, Block(s), ts, us)
    BY <1>2 DEF SaveTransactions
  <2> QED
    BY <2>3, <2>4
<1>3. ASSUME NEW s \in Shards, RemoveTransactions(s)
      PROVE  txs'[t] = NoDoc \/ txs'[t].status # "pending"
  <2>1. \E removed : txs' = Without(txs, removed)
    BY <1>3 DEF RemoveTransactions
  <2> QED
    BY <2>1 DEF Without, HasOutcome, TypeOK
<1>4. \/ txs' = txs
      \/ \E s \in Shards : SaveTransactions(s) \/ RemoveTransactions(s)
  BY DEF Next, Observer, Commit, Rollback, Handler, ProcessPayload, SaveHeader, SaveMiniblocks,
         RemoveHeader, RemoveMiniblocks, RemoveAccountsESDT, Acknowledge, LoseAck
<1> QED
  BY <1>1, <1>2, <1>3, <1>4

(* A transaction whose document reports success or failure never has a     *)
(* pending document after it, whichever observers deliver it and in which  *)
(* order.                                                                  *)
THEOREM NeverBackToPendingHolds == Spec => NeverBackToPending
<1> DEFINE OutcomeInv == TypeOK /\ ChainInv /\ ParticipantInv
<1>1. Init => OutcomeInv
  <2>1. Init => ParticipantInv
    BY DEF Init, ParticipantInv
  <2> QED
    BY <2>1, InitDelivery DEF DeliveryInv
<1>2. OutcomeInv /\ [Next]_vars => OutcomeInv'
  BY NextType, NextParticipant
<1>3. OutcomeInv /\ [Next]_vars =>
        [\A t \in Txs : txs[t] # NoDoc /\ txs[t].status \in {"success", "fail"} =>
           txs'[t] = NoDoc \/ txs'[t].status # "pending"]_vars
  BY StepKeepsOutcome DEF HasOutcome
<1> HIDE DEF OutcomeInv
<1> QED
  BY <1>1, <1>2, <1>3, PTL DEF Spec, NeverBackToPending
=============================================================================
