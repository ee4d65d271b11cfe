------------------------ MODULE BlockDocuments_proofs ------------------------
(***************************************************************************)
(* Theorems about the indexes "transactions" and "miniblocks" of           *)
(* BlockIndexing, for any number of shards, miniblocks, transactions,      *)
(* blocks and failures.                                                    *)
(*                                                                         *)
(* A message is handled when its requests on the index were carried out.   *)
(* The invariant says what the document of a transaction is after the      *)
(* messages handled so far, of all shards together; a step of the system   *)
(* appends a message, carries out the writes of one block in full or in    *)
(* part, carries out the removals of one revert in full or in part, or     *)
(* leaves the index alone.                                                 *)
(***************************************************************************)
EXTENDS BlockIndexing_proofs

Handled(s, i) ==
  \/ i <= acked[s]
  \/ i = acked[s] + 1 /\ pc[s] \in {"accounts", "ack"}

IsSave(s, i) == log[s][i].topic = "SaveBlock"
BlockAt(s, i) == log[s][i].block

(***************************************************************************)
(* The messages.                                                           *)
(***************************************************************************)
\* A block holds what a block of its shard may hold.
WellFormed(b) ==
  \E content \in Contents[b.shard] : b.mbs = content.mbs /\ b.infos = content.infos

\* Every block is well-formed, and a hash names one block.
BlocksInv ==
  \A s \in Shards : \A i \in 1..Len(log[s]) :
    /\ BlockAt(s, i).shard = s /\ WellFormed(BlockAt(s, i))
    /\ \A j \in 1..Len(log[s]) : Hash(s, i) = Hash(s, j) => BlockAt(s, i) = BlockAt(s, j)

\* While a block is in the chain, only younger ones are reverted and no other
\* one writes its transactions.
YoungestInv ==
  \A s \in Shards : \A i, j \in 1..Len(log[s]) :
    i < j /\ IsSave(s, i) /\ LiveAt(s, i, j) =>
      /\ IsSave(s, j) => PreparedTxs(BlockAt(s, i)) \cap PreparedTxs(BlockAt(s, j)) = {}
      /\ ~IsSave(s, j) => Hash(s, i) < Hash(s, j)

\* A block is reverted once.
RevertOnceInv ==
  \A s \in Shards : \A i, j \in 1..Len(log[s]) :
    ~IsSave(s, i) /\ ~IsSave(s, j) /\ Hash(s, i) = Hash(s, j) => i = j

(***************************************************************************)
(* The documents.                                                          *)
(***************************************************************************)
\* A document names the block that wrote it, or none if an outcome was reported
\* and nothing written.
OriginInv ==
  \A t \in Txs : txs[t] # NoDoc =>
    \E s \in Shards : \E i \in 1..Len(log[s]) :
      /\ IsSave(s, i)
      /\ \/ t \in StatusTxs(BlockAt(s, i)) /\ txs[t].block = NoHash
         \/ t \in PreparedTxs(BlockAt(s, i)) /\ txs[t].block = Hash(s, i)

\* Only a transaction that travels between shards is pending, and never in a
\* document written by the block that executes it.
Travels(t) ==
  \E m \in Miniblocks : /\ t \in MbInfo[m].txs /\ IsCrossShard(m)
                        /\ MbInfo[m].type \in {"TxBlock", "RewardsBlock"}
Final(doc) == doc.status \notin {"", "pending"}
StatusInv ==
  \A t \in Txs : txs[t] # NoDoc =>
    /\ txs[t].status = "pending" => Travels(t)
    /\ \A s \in Shards : \A i \in 1..Len(log[s]) :
         t \in Executed(BlockAt(s, i)) /\ txs[t].block = Hash(s, i) => Final(txs[t])

\* No document names a block whose revert was handled, for a transaction that
\* the block executed, unless another handler wrote it during the delete.
PhantomInv ==
  \A s \in Shards : \A i \in 1..Len(log[s]) : Handled(s, i) /\ ~IsSave(s, i) =>
    \A t \in Executed(BlockAt(s, i)) : txs[t] # NoDoc =>
      txs[t].block # Hash(s, i) \/ <<Hash(s, i), t>> \in rewritten

\* What a block of the chain that was handled executed is there.
ExecutedInv ==
  \A s \in Shards : \A i \in 1..Len(log[s]) :
    Handled(s, i) /\ LiveAt(s, i, Len(log[s])) =>
      \A t \in Executed(BlockAt(s, i)) :
        \/ Clobbered(s, BlockAt(s, i), t)
        \/ Hidden(BlockAt(s, i), t)
        \/ txs[t] # NoDoc /\ txs[t].block = Hash(s, i) /\ Final(txs[t])

\* The fee of a token transfer that a handled block of the source wrote.
SentFrom(b, t) ==
  /\ t \in PreparedTxs(b) /\ TxInfo[t].kind = "esdt"
  /\ isCrossShardOnSourceShard(b, EntryOf(b, t), t)
FeeInv ==
  \A s \in Shards : \A i \in 1..Len(log[s]) : Handled(s, i) /\ IsSave(s, i) =>
    \A t \in Txs : SentFrom(BlockAt(s, i), t) =>
      Removed(t) \/ (txs[t] # NoDoc /\ txs[t].fee = s)

\* The outcome that a handled block reported.
Reports(doc, b, t) ==
  /\ doc # NoDoc
  /\ StatusInfoOf(b, t).status = "fail" => doc.status = "fail" /\ doc.errorEvent
  /\ StatusInfoOf(b, t).completedEvent => doc.completedEvent
ReportInv ==
  \A s \in Shards : \A i \in 1..Len(log[s]) : Handled(s, i) /\ IsSave(s, i) =>
    \A t \in StatusTxs(BlockAt(s, i)) : SelfTransfer(t) =>
      Removed(t) \/ Reports(txs[t], BlockAt(s, i), t)

MessagesInv == BlocksInv /\ YoungestInv /\ RevertOnceInv
DocumentsInv == OriginInv /\ StatusInv /\ PhantomInv /\ ExecutedInv /\ FeeInv /\ ReportInv
TransactionsInv == DeliveryInv /\ MessagesInv /\ DocumentsInv
-----------------------------------------------------------------------------
(* The message of a well-formed block speaks of what its shard may hold.   *)
LEMMA WellFormedBlock ==
  ASSUME NEW s \in Shards, NEW b \in Blocks, b.shard = s, WellFormed(b)
  PROVE  /\ Participates(b)
         /\ \A e \in b.mbs : e.inBody \/ MbInfo[e.mb].type = "SmartContractResultBlock"
         /\ \A e, f \in b.mbs : MbInfo[e.mb].txs \cap MbInfo[f.mb].txs # {} => e = f
         /\ b.infos # {} => HasBody(b)
<1>1. PICK content \in Contents[s] : b.mbs = content.mbs /\ b.infos = content.infos
  BY DEF WellFormed
<1>2. Participates(b)
  BY <1>1, ParticipantAssumption DEF Participates
<1> QED
  BY <1>1, <1>2, BlockAssumption DEF HasBody

(* What the invariants say of a message.                                   *)
LEMMA MessageFacts ==
  ASSUME TypeOK, BlocksInv, NEW s \in Shards, NEW i \in 1..Len(log[s])
  PROVE  /\ BlockAt(s, i) \in Blocks /\ BlockAt(s, i).shard = s /\ WellFormed(BlockAt(s, i))
         /\ BlockAt(s, i).hash = Hash(s, i) /\ Hash(s, i) \in Hashes
         /\ ~IsSave(s, i) => log[s][i].topic = "RevertIndexedBlock"
<1>1. log[s][i] \in Messages /\ BlockAt(s, i) \in Blocks /\ log[s][i].topic \in Topics
  BY ShardTypes DEF BlockAt
<1> QED
  BY <1>1 DEF BlocksInv, BlockAt, Hash, Blocks, IsSave, Topics

(* A block that is in the chain after n messages was in it before.         *)
LEMMA LiveBefore ==
  ASSUME NEW s, NEW i \in Nat, NEW n \in Nat, NEW k \in Nat, i <= k, k <= n, LiveAt(s, i, n)
  PROVE  LiveAt(s, i, k)
<1>1. \A j \in (i + 1)..k : j \in (i + 1)..n
  OBVIOUS
<1>2. i \in 1..k
  BY DEF LiveAt
<1> QED
  BY <1>1, <1>2 DEF LiveAt

(* The observer appends a message: what it said before stays.              *)
LEMMA AppendKeeps ==
  ASSUME TypeOK, NEW s \in Shards, NEW msg \in Messages,
         log' = [log EXCEPT ![s] = Append(@, msg)]
  PROVE  \A r \in Shards :
           /\ Len(log[r]) \in Nat /\ Len(log'[r]) \in Nat /\ Len(log[r]) <= Len(log'[r])
           /\ \A i \in 1..Len(log'[r]) :
                i \in 1..Len(log[r]) \/ (r = s /\ i = Len(log[s]) + 1)
           /\ \A i \in 1..Len(log[r]) :
                /\ i \in 1..Len(log'[r])
                /\ log'[r][i] = log[r][i] /\ BlockAt(r, i)' = BlockAt(r, i)
                /\ Hash(r, i)' = Hash(r, i) /\ IsSave(r, i)' = IsSave(r, i)
           /\ \A i, n \in 1..Len(log[r]) : LiveAt(r, i, n)' <=> LiveAt(r, i, n)
<1> SUFFICES ASSUME NEW r \in Shards
             PROVE  /\ Len(log[r]) \in Nat /\ Len(log'[r]) \in Nat /\ Len(log[r]) <= Len(log'[r])
                    /\ \A i \in 1..Len(log'[r]) :
                         i \in 1..Len(log[r]) \/ (r = s /\ i = Len(log[s]) + 1)
                    /\ \A i \in 1..Len(log[r]) :
                         /\ i \in 1..Len(log'[r])
                         /\ log'[r][i] = log[r][i] /\ BlockAt(r, i)' = BlockAt(r, i)
                         /\ Hash(r, i)' = Hash(r, i) /\ IsSave(r, i)' = IsSave(r, i)
                    /\ \A i, n \in 1..Len(log[r]) : LiveAt(r, i, n)' <=> LiveAt(r, i, n)
  OBVIOUS
<1>1. /\ Len(log[r]) \in Nat /\ Len(log'[r]) \in Nat /\ Len(log[r]) <= Len(log'[r])
      /\ \A i \in 1..Len(log'[r]) : i \in 1..Len(log[r]) \/ (r = s /\ i = Len(log[s]) + 1)
  BY AppendMessage, ShardTypes
<1>2. \A i \in 1..Len(log[r]) :
         /\ i \in 1..Len(log'[r])
         /\ log'[r][i] = log[r][i] /\ BlockAt(r, i)' = BlockAt(r, i)
         /\ Hash(r, i)' = Hash(r, i) /\ IsSave(r, i)' = IsSave(r, i)
  BY <1>1, AppendMessage DEF BlockAt, Hash, IsSave
<1>3. ASSUME NEW i \in 1..Len(log[r]), NEW n \in 1..Len(log[r])
      PROVE  LiveAt(r, i, n)' <=> LiveAt(r, i, n)
  <2>1. \A j \in (i + 1)..n : log'[r][j] = log[r][j]
    BY <1>1, <1>2
  <2> QED
    BY <1>2, <2>1 DEF LiveAt, IsRevert
<1> QED
  BY <1>1, <1>2, <1>3

(* A block that is in the chain once a message is appended was in it.      *)
LEMMA AppendLive ==
  ASSUME TypeOK, NEW s \in Shards, NEW msg \in Messages,
         log' = [log EXCEPT ![s] = Append(@, msg)],
         NEW r \in Shards, NEW i \in 1..Len(log[r]), NEW n \in Nat,
         Len(log[r]) <= n, LiveAt(r, i, n)'
  PROVE  LiveAt(r, i, Len(log[r]))
<1>1. Len(log[r]) \in Nat /\ Len(log[r]) \in 1..Len(log[r]) /\ log'[r][i] = log[r][i]
  BY AppendKeeps
<1>2. \A j \in (i + 1)..Len(log[r]) : j \in (i + 1)..n /\ log'[r][j] = log[r][j]
  BY <1>1, AppendKeeps
<1> QED
  BY <1>1, <1>2 DEF LiveAt, IsRevert

(* A block that lives at the end of the log is in the chain.               *)
LEMMA LiveInChain ==
  ASSUME TypeOK, NEW s \in Shards, NEW i \in 1..Len(log[s]), LiveAt(s, i, Len(log[s]))
  PROVE  BlockAt(s, i) \in Chain(s)
<1>1. i \in DOMAIN log[s]
  BY ShardTypes
<1> QED
  BY <1>1 DEF Chain, BlockAt

(* What the observer appends: a new block of its shard, which sends or     *)
(* executes no transaction of the chain again, or the revert of the        *)
(* youngest block of the chain.                                            *)
Appends(s, msg) ==
  /\ log' = [log EXCEPT ![s] = Append(@, msg)]
  /\ UNCHANGED <<acked, pc, miniblocks, txs, rewritten>>
  /\ msg.block.shard = s /\ WellFormed(msg.block)
  /\ msg.topic = "SaveBlock" =>
       /\ \A r \in Shards : \A i \in 1..Len(log[r]) : Hash(r, i) < msg.block.hash
       /\ \A e \in msg.block.mbs : MayHold(s, e)
       /\ \A c \in Chain(s) : PreparedTxs(msg.block) \cap PreparedTxs(c) = {}
  /\ msg.topic # "SaveBlock" =>
       /\ \E i \in 1..Len(log[s]) : BlockAt(s, i) = msg.block /\ LiveAt(s, i, Len(log[s]))
       /\ \A c \in Chain(s) : c.hash <= msg.block.hash

LEMMA ObserverAppends ==
  ASSUME TypeOK, ChainInv, BlocksInv, NEW s \in Shards, Observer(s)
  PROVE  \E msg \in Messages : Appends(s, msg)
<1>1. ASSUME NEW content \in Contents[s], Commit(s, content)
      PROVE  \E msg \in Messages : Appends(s, msg)
  <2>1. PICK msg \in Messages :
           /\ log' = [log EXCEPT ![s] = Append(@, msg)]
           /\ msg.topic = "SaveBlock"
           /\ msg.block.hash = numBlocks + 1
           /\ msg.block.shard = s /\ msg.block.mbs = content.mbs
           /\ msg.block.infos = content.infos
           /\ \A e \in content.mbs : MayHold(s, e)
           /\ \A c \in Chain(s) : PreparedTxs(msg.block) \cap PreparedTxs(c) = {}
           /\ UNCHANGED <<acked, pc, miniblocks, txs, rewritten>>
    BY <1>1, CommitMessage
  <2>2. WellFormed(msg.block)
    BY <2>1 DEF WellFormed
  <2>3. \A r \in Shards : \A i \in 1..Len(log[r]) : Hash(r, i) < msg.block.hash
    <3>1. /\ numBlocks \in Nat
          /\ \A r \in Shards : \A i \in 1..Len(log[r]) : Hash(r, i) \in 1..numBlocks
      BY DEF TypeOK, ChainInv
    <3> QED
      BY <2>1, <3>1
  <2> QED
    BY <2>1, <2>2, <2>3 DEF Appends
<1>2. ASSUME Rollback(s)
      PROVE  \E msg \in Messages : Appends(s, msg)
  <2>1. PICK msg \in Messages :
           /\ log' = [log EXCEPT ![s] = Append(@, msg)]
           /\ msg.topic = "RevertIndexedBlock"
           /\ \E i \in 1..Len(log[s]) : log[s][i].block = msg.block
                                        /\ LiveAt(s, i, Len(log[s]))
           /\ \A c \in Chain(s) : c.hash <= msg.block.hash
           /\ UNCHANGED <<acked, pc, miniblocks, txs, rewritten>>
    BY <1>2, RollbackMessage
  <2>2. PICK i \in 1..Len(log[s]) : BlockAt(s, i) = msg.block /\ LiveAt(s, i, Len(log[s]))
    BY <2>1 DEF BlockAt
  <2>3. msg.block.shard = s /\ WellFormed(msg.block)
    BY <2>2 DEF BlocksInv
  <2> QED
    BY <2>1, <2>2, <2>3 DEF Appends
<1> QED
  BY <1>1, <1>2 DEF Observer

(* An appended message keeps what is known of the messages.                *)
LEMMA AppendMessagesInv ==
  ASSUME TypeOK, ChainInv, MessagesInv, NEW s \in Shards, NEW msg \in Messages, Appends(s, msg)
  PROVE  MessagesInv'
<1>0. PICK n \in Nat : n = Len(log[s])
  BY ShardTypes
<1>1. /\ log' = [log EXCEPT ![s] = Append(@, msg)]
      /\ log'[s][n + 1] = msg /\ BlockAt(s, n + 1)' = msg.block
      /\ Hash(s, n + 1)' = msg.block.hash /\ (IsSave(s, n + 1)' <=> msg.topic = "SaveBlock")
  <2>1. log' = [log EXCEPT ![s] = Append(@, msg)]
    BY DEF Appends
  <2>2. log'[s][n + 1] = msg
    BY <1>0, <2>1, AppendMessage
  <2> QED
    BY <2>1, <2>2 DEF BlockAt, Hash, IsSave
<1>2. \A r \in Shards : \A i \in 1..Len(log'[r]) :
         i \in 1..Len(log[r]) \/ (r = s /\ i = n + 1)
  BY <1>0, <1>1, AppendKeeps
<1>3. \A r \in Shards : \A i \in 1..Len(log[r]) :
        /\ BlockAt(r, i)' = BlockAt(r, i) /\ Hash(r, i)' = Hash(r, i)
        /\ IsSave(r, i)' = IsSave(r, i)
  BY <1>1, AppendKeeps
<1>4. \A i \in 1..n : Hash(s, i) = msg.block.hash => BlockAt(s, i) = msg.block
  <2> SUFFICES ASSUME NEW i \in 1..n, Hash(s, i) = msg.block.hash
               PROVE  BlockAt(s, i) = msg.block
    OBVIOUS
  <2>1. PICK j \in 1..n : BlockAt(s, j) = msg.block
    BY <1>0, ShardTypes DEF Appends
  <2>2. Hash(s, j) = Hash(s, i)
    BY <2>1 DEF Hash, BlockAt
  <2> QED
    BY <1>0, <2>1, <2>2 DEF MessagesInv, BlocksInv
<1>6. BlocksInv'
  <2> SUFFICES ASSUME NEW r \in Shards, NEW i \in 1..Len(log'[r])
               PROVE  /\ BlockAt(r, i)'.shard = r /\ WellFormed(BlockAt(r, i)')
                      /\ \A j \in 1..Len(log'[r]) :
                           Hash(r, i)' = Hash(r, j)' => BlockAt(r, i)' = BlockAt(r, j)'
    BY DEF BlocksInv, WellFormed
  <2>1. BlockAt(r, i)'.shard = r /\ WellFormed(BlockAt(r, i)')
    BY <1>1, <1>2, <1>3 DEF MessagesInv, BlocksInv, Appends
  <2>2. ASSUME NEW j \in 1..Len(log'[r]), Hash(r, i)' = Hash(r, j)'
        PROVE  BlockAt(r, i)' = BlockAt(r, j)'
    <3>1. CASE i \in 1..Len(log[r]) /\ j \in 1..Len(log[r])
      BY <2>2, <3>1, <1>3 DEF MessagesInv, BlocksInv
    <3>2. CASE r = s /\ i = n + 1 /\ j \in 1..n
      BY <2>2, <3>2, <1>0, <1>1, <1>3, <1>4
    <3>3. CASE r = s /\ j = n + 1 /\ i \in 1..n
      BY <2>2, <3>3, <1>0, <1>1, <1>3, <1>4
    <3> QED
      BY <3>1, <3>2, <3>3, <1>0, <1>2
  <2> QED
    BY <2>1, <2>2
<1>7. YoungestInv'
  <2> SUFFICES ASSUME NEW r \in Shards, NEW i \in 1..Len(log'[r]), NEW j \in 1..Len(log'[r]),
                      i < j, IsSave(r, i)', LiveAt(r, i, j)'
               PROVE  /\ IsSave(r, j)' =>
                           PreparedTxs(BlockAt(r, i)') \cap PreparedTxs(BlockAt(r, j)') = {}
                      /\ ~IsSave(r, j)' => Hash(r, i)' < Hash(r, j)'
    BY DEF YoungestInv, PreparedTxs, GroupedEntries
  <2>1. CASE j \in 1..Len(log[r])
    <3>1. i \in 1..Len(log[r])
      BY <2>1, AppendKeeps, <1>1
    <3>2. LiveAt(r, i, j)
      BY <2>1, <3>1, AppendKeeps, <1>1
    <3> QED
      BY <2>1, <3>1, <3>2, <1>3 DEF MessagesInv, YoungestInv
  <2>2. CASE r = s /\ j = n + 1
    <3>1. i \in 1..n
      BY <2>2, <1>0, <1>1, <1>2
    <3>2. LiveAt(s, i, n)
      <4>1. i \in 1..Len(log[s]) /\ n + 1 \in Nat /\ Len(log[s]) <= n + 1
            /\ LiveAt(s, i, n + 1)'
        BY <1>0, <2>2, <3>1
      <4> QED
        BY <1>0, <1>1, <4>1, AppendLive
    <3>3. BlockAt(s, i) \in Chain(s)
      BY <1>0, <3>1, <3>2, LiveInChain
    <3>4. BlockAt(s, i).hash = Hash(s, i) /\ Hash(s, i) \in Nat /\ msg.block.hash \in Nat
      BY <1>0, <3>1, ShardTypes DEF BlockAt, Hash, Messages, Blocks, Hashes
    <3>5. CASE msg.topic = "SaveBlock"
      BY <2>2, <3>1, <3>3, <3>5, <1>0, <1>1, <1>3 DEF Appends
    <3>6. CASE msg.topic # "SaveBlock"
      <4>1. Hash(s, i) <= msg.block.hash
        BY <3>3, <3>4, <3>6 DEF Appends
      <4>2. Hash(s, i) # msg.block.hash
        <5>1. n + 1 \in (i + 1)..(n + 1) /\ msg.topic = "RevertIndexedBlock"
          BY <3>1, <3>6, <1>1 DEF Messages, Topics
        <5>2. ~IsRevert(log'[s][n + 1], log'[s][i].block.hash)
          BY <2>2, <5>1 DEF LiveAt
        <5>3. log'[s][i] = log[s][i]
          BY <1>0, <3>1, <1>1, AppendKeeps
        <5> QED
          BY <5>1, <5>2, <5>3, <1>1 DEF IsRevert, Hash
      <4> QED
        BY <2>2, <3>1, <3>4, <3>6, <4>1, <4>2, <1>0, <1>1, <1>3
    <3> QED
      BY <3>5, <3>6
  <2> QED
    BY <2>1, <2>2, <1>0, <1>2
<1>8. RevertOnceInv'
  <2>1. ASSUME msg.topic # "SaveBlock", NEW i \in 1..n, ~IsSave(s, i)
        PROVE  Hash(s, i) # msg.block.hash
    <3>1. PICK j \in 1..n : BlockAt(s, j) = msg.block /\ LiveAt(s, j, n)
      BY <2>1, <1>0 DEF Appends
    <3>2. Hash(s, j) = msg.block.hash /\ IsSave(s, j)
      BY <3>1 DEF Hash, BlockAt, LiveAt, IsSave
    <3>3. CASE i < j
      BY <3>2, <3>3, <1>0 DEF ChainInv, IsSave
    <3>4. CASE j < i
      <4>1. i \in (j + 1)..n /\ log[s][i].topic = "RevertIndexedBlock"
        BY <2>1, <3>4, <1>0, ShardTypes DEF IsSave, Messages, Topics
      <4> QED
        BY <3>1, <3>2, <4>1 DEF LiveAt, IsRevert, Hash
    <3>5. i # j
      BY <2>1, <3>2
    <3> QED
      BY <3>3, <3>4, <3>5
  <2> SUFFICES ASSUME NEW r \in Shards, NEW i \in 1..Len(log'[r]), NEW j \in 1..Len(log'[r]),
                      ~IsSave(r, i)', ~IsSave(r, j)', Hash(r, i)' = Hash(r, j)'
               PROVE  i = j
    BY DEF RevertOnceInv
  <2>2. CASE i \in 1..Len(log[r]) /\ j \in 1..Len(log[r])
    BY <2>2, <1>3 DEF MessagesInv, RevertOnceInv
  <2>3. CASE r = s /\ i = n + 1 /\ j \in 1..n
    BY <2>1, <2>3, <1>0, <1>1, <1>3
  <2>4. CASE r = s /\ j = n + 1 /\ i \in 1..n
    BY <2>1, <2>4, <1>0, <1>1, <1>3
  <2> QED
    BY <2>2, <2>3, <2>4, <1>0, <1>2
<1> QED
  BY <1>6, <1>7, <1>8 DEF MessagesInv
-----------------------------------------------------------------------------
(***************************************************************************)
(* The moves of a handler, as the index "transactions" sees them.          *)
(***************************************************************************)
\* Message k is the current one of s and its requests are not carried out.
Current(s, k) == k \in 1..Len(log[s]) /\ k = acked[s] + 1 /\ ~Handled(s, k)

\* No message but, if done, message k of s becomes handled.
OnlyHandles(s, k, done) ==
  \A r \in Shards : \A i \in 1..Len(log[r]) :
    Handled(r, i)' => Handled(r, i) \/ (r = s /\ i = k /\ done)

\* The request of SaveTransactions writes ts and updates us.
Writes(s, k, ts, us) ==
  /\ Current(s, k) /\ IsSave(s, k) /\ log' = log
  /\ ts \subseteq PreparedTxs(BlockAt(s, k)) /\ us \subseteq StatusTxs(BlockAt(s, k))
  /\ txs' = IndexTransactions(txs, BlockAt(s, k), ts, us)
  /\ rewritten \subseteq rewritten'
  /\ OnlyHandles(s, k, ts = PreparedTxs(BlockAt(s, k)) /\ us = StatusTxs(BlockAt(s, k)))

\* The request of RemoveTransactions removes the documents of removed, and all
\* that it should remove but for those another handler wrote meanwhile.
LeavesRewritten(s, k, removed) ==
  \A d \in GetHexEncodedHashesForRemove(BlockAt(s, k)) \ removed :
    <<Hash(s, k), d>> \in rewritten
Removes(s, k, removed) ==
  /\ Current(s, k) /\ ~IsSave(s, k) /\ log' = log
  /\ removed \subseteq GetHexEncodedHashesForRemove(BlockAt(s, k))
  /\ txs' = Without(txs, removed) /\ rewritten' = rewritten
  /\ OnlyHandles(s, k, LeavesRewritten(s, k, removed))

\* A request on another index, or an acknowledgement: the message becomes
\* handled only when saveBlockData has nothing to write.  The first request of
\* a revert forgets what was written during an earlier attempt.
Leaves(s, k) ==
  /\ k \in 1..Len(log[s]) /\ UNCHANGED <<log, txs>>
  /\ \A w \in rewritten :
       w \in rewritten' \/ (Current(s, k) /\ ~IsSave(s, k) /\ w[1] = Hash(s, k))
  /\ OnlyHandles(s, k, IsSave(s, k) /\ ~HasBody(BlockAt(s, k)))

(* A request that leads the handler of s to a step.                        *)
LEMMA RequestHandles ==
  ASSUME TypeOK, NEW s \in Shards, NEW k, k = acked[s] + 1, NEW step, NEW done,
         UNCHANGED <<log, acked>>, pc' = [pc EXCEPT ![s] = step],
         step \in {"accounts", "ack"} => done \/ Handled(s, k)
  PROVE  OnlyHandles(s, k, done)
<1> SUFFICES ASSUME NEW r \in Shards, NEW i \in 1..Len(log[r]), Handled(r, i)'
             PROVE  Handled(r, i) \/ (r = s /\ i = k /\ done)
  BY DEF OnlyHandles
<1>1. CASE r = s
  <2>1. pc'[s] = step
    BY DEF TypeOK
  <2> QED
    BY <1>1, <2>1 DEF Handled
<1>2. CASE r # s
  <2>1. pc'[r] = pc[r]
    BY <1>2 DEF TypeOK
  <2> QED
    BY <1>2, <2>1 DEF Handled
<1> QED
  BY <1>1, <1>2

(* Every step of a handler is one of the moves.                            *)
LEMMA HandlerMoves ==
  ASSUME RefreshFails = FALSE, TypeOK, NEW s \in Shards, Handler(s)
  PROVE  \E k \in 1..Len(log[s]) :
           \/ \E ts, us : Writes(s, k, ts, us)
           \/ \E removed : Removes(s, k, removed)
           \/ Leaves(s, k)
<1>1. Pending(s)
  BY DEF Handler, ProcessPayload, SaveHeader, SaveMiniblocks, SaveTransactions, RemoveHeader,
         RemoveMiniblocks, RemoveTransactions, RemoveAccountsESDT, Acknowledge, LoseAck, At
<1>2. PICK k \in 1..Len(log[s]) : k = acked[s] + 1
  BY <1>1, ShardTypes
<1>3. Message(s) = log[s][k] /\ Block(s) = BlockAt(s, k)
      /\ (Message(s).topic = "SaveBlock" <=> IsSave(s, k))
      /\ (Message(s).topic = "RevertIndexedBlock" => ~IsSave(s, k))
  BY <1>2 DEF Message, Block, BlockAt, IsSave
<1>4. k \in Nat /\ acked[s] \in Nat /\ ~(k <= acked[s])
  BY <1>2, ShardTypes
<1>5. Handled(s, k) <=> pc[s] \in {"accounts", "ack"}
  BY <1>2, <1>4 DEF Handled
<1>6. CASE SaveTransactions(s)
  <2>1. Current(s, k) /\ IsSave(s, k) /\ UNCHANGED <<log, acked>>
    BY <1>2, <1>3, <1>5, <1>6 DEF SaveTransactions, At, chainVars, Current
  <2>0. rewritten \subseteq rewritten'
    BY <1>6 DEF SaveTransactions
  <2>2. CASE txs' = IndexTransactions(txs, Block(s), PreparedTxs(Block(s)), StatusTxs(Block(s)))
             /\ Continue(s, "ack")
    <3>1. OnlyHandles(s, k, TRUE)
      BY <1>2, <2>1, <2>2, RequestHandles DEF Continue
    <3> QED
      BY <1>3, <2>0, <2>1, <2>2, <3>1 DEF Writes, OnlyHandles
  <2>3. ASSUME NEW ts \in SUBSET PreparedTxs(Block(s)), NEW us \in SUBSET StatusTxs(Block(s)),
               txs' = IndexTransactions(txs, Block(s), ts, us), Fail(s)
        PROVE  Writes(s, k, ts, us)
    <3>1. OnlyHandles(s, k, FALSE)
      BY <1>2, <2>1, <2>3, RequestHandles DEF Fail
    <3> QED
      BY <1>3, <2>0, <2>1, <2>3, <3>1 DEF Writes, OnlyHandles
  <2> QED
    BY <1>6, <2>2, <2>3 DEF SaveTransactions
<1>7. CASE RemoveTransactions(s)
  <2>1. Current(s, k) /\ ~IsSave(s, k) /\ UNCHANGED <<log, acked>>
    BY <1>2, <1>3, <1>5, <1>7 DEF RemoveTransactions, At, chainVars, Current
  <2>0. rewritten' = rewritten /\ Hash(s, k) = Block(s).hash
    BY <1>3, <1>7 DEF RemoveTransactions, Hash, BlockAt
  <2>2. ASSUME NEW removed \in Removable(GetHexEncodedHashesForRemove(Block(s)),
                                 Conflicts(Block(s).hash, GetHexEncodedHashesForRemove(Block(s)))),
               txs' = Without(txs, removed), Continue(s, "accounts")
        PROVE  Removes(s, k, removed)
    <3>1. OnlyHandles(s, k, TRUE)
      BY <1>2, <2>1, <2>2, RequestHandles DEF Continue
    <3>2. removed \subseteq GetHexEncodedHashesForRemove(Block(s))
      BY <2>2 DEF Removable
    <3>3. LeavesRewritten(s, k, removed)
      BY <2>2, <2>0, <1>3, RefreshFails = FALSE DEF Removable, Conflicts, LeavesRewritten
    <3> QED
      BY <1>3, <2>0, <2>1, <2>2, <3>1, <3>2, <3>3 DEF Removes, OnlyHandles
  <2>3. ASSUME NEW removed \in SUBSET GetHexEncodedHashesForRemove(Block(s)),
               txs' = Without(txs, removed), Fail(s)
        PROVE  Removes(s, k, removed)
    <3>1. OnlyHandles(s, k, FALSE)
      BY <1>2, <2>1, <2>3, RequestHandles DEF Fail
    <3> QED
      BY <1>3, <2>0, <2>1, <2>3, <3>1 DEF Removes, OnlyHandles
  <2> QED
    BY <1>7, <2>2, <2>3 DEF RemoveTransactions
<1>8. CASE Acknowledge(s)
  <2>1. /\ pc[s] = "ack" /\ pc' = [pc EXCEPT ![s] = "idle"]
        /\ acked' = [acked EXCEPT ![s] = @ + 1] /\ UNCHANGED <<log, txs, rewritten>>
    BY <1>8 DEF Acknowledge, Continue, chainVars
  <2>2. ASSUME NEW r \in Shards, NEW i \in 1..Len(log[r]), Handled(r, i)'
        PROVE  Handled(r, i)
    <3>1. CASE r = s
      <4>1. pc'[s] = "idle" /\ acked'[s] = k
        BY <2>1, <1>2 DEF TypeOK
      <4>2. i <= k
        BY <2>2, <3>1, <4>1 DEF Handled
      <4> QED
        BY <2>1, <3>1, <4>2, <1>2, <1>4 DEF Handled
    <3>2. CASE r # s
      <4>1. pc'[r] = pc[r] /\ acked'[r] = acked[r]
        BY <2>1, <3>2 DEF TypeOK
      <4> QED
        BY <2>2, <4>1 DEF Handled
    <3> QED
      BY <3>1, <3>2
  <2> QED
    BY <1>2, <2>1, <2>2 DEF Leaves, OnlyHandles
<1>9. CASE SaveHeader(s)
  <2>1. IsSave(s, k) /\ UNCHANGED <<log, acked, txs, rewritten>>
    BY <1>3, <1>9 DEF SaveHeader, At, chainVars
  <2>2. CASE Continue(s, IF HasBody(Block(s)) THEN "miniblocks" ELSE "ack")
    <3>1. OnlyHandles(s, k, ~HasBody(Block(s)))
      BY <1>2, <2>1, <2>2, RequestHandles DEF Continue
    <3> QED
      BY <1>3, <2>1, <3>1 DEF Leaves, OnlyHandles
  <2>3. CASE Fail(s)
    <3>1. OnlyHandles(s, k, FALSE)
      BY <1>2, <2>1, <2>3, RequestHandles DEF Fail
    <3> QED
      BY <2>1, <3>1 DEF Leaves, OnlyHandles
  <2> QED
    BY <1>9, <2>2, <2>3 DEF SaveHeader
<1>10. CASE ProcessPayload(s) \/ SaveMiniblocks(s) \/ RemoveHeader(s) \/ RemoveMiniblocks(s)
            \/ RemoveAccountsESDT(s) \/ LoseAck(s)
  <2>1. UNCHANGED <<log, acked, txs>>
    BY <1>10 DEF ProcessPayload, SaveMiniblocks, RemoveHeader, RemoveMiniblocks,
           RemoveAccountsESDT, LoseAck, chainVars
  <2>2. \E step : /\ pc' = [pc EXCEPT ![s] = step]
                  /\ step \in {"accounts", "ack"} => pc[s] \in {"accounts", "ack"}
    BY <1>10 DEF ProcessPayload, SaveMiniblocks, RemoveHeader, RemoveMiniblocks,
           RemoveAccountsESDT, LoseAck, Continue, Fail, At
  <2>3. OnlyHandles(s, k, FALSE)
    BY <1>2, <1>5, <2>1, <2>2, RequestHandles
  <2>4. \A w \in rewritten :
       w \in rewritten' \/ (Current(s, k) /\ ~IsSave(s, k) /\ w[1] = Hash(s, k))
    <3>1. CASE RemoveHeader(s)
      <4>1. Current(s, k) /\ ~IsSave(s, k) /\ Hash(s, k) = Block(s).hash
        BY <3>1, <1>2, <1>3, <1>5 DEF RemoveHeader, At, Current, Hash, BlockAt
      <4>2. \A w \in rewritten : w \in rewritten' \/ w[1] = Block(s).hash
        BY <3>1 DEF RemoveHeader
      <4> QED
        BY <4>1, <4>2
    <3>2. CASE ~RemoveHeader(s)
      <4>1. rewritten \subseteq rewritten'
        <5>1. CASE SaveMiniblocks(s)
          BY <5>1 DEF SaveMiniblocks
        <5>2. CASE ~SaveMiniblocks(s)
          BY <5>2, <3>2, <1>10 DEF ProcessPayload, RemoveMiniblocks, RemoveAccountsESDT, LoseAck
        <5> QED
          BY <5>1, <5>2
      <4> QED
        BY <4>1
    <3> QED
      BY <3>1, <3>2
  <2> QED
    BY <2>1, <2>3, <2>4 DEF Leaves, OnlyHandles
<1> QED
  BY <1>6, <1>7, <1>8, <1>9, <1>10 DEF Handler

(* Appending a message handles nothing.                                    *)
LEMMA AppendHandles ==
  ASSUME TypeOK, IdleInv, NEW s \in Shards, NEW msg \in Messages, Appends(s, msg),
         NEW r \in Shards, NEW i \in 1..Len(log'[r]), Handled(r, i)'
  PROVE  i \in 1..Len(log[r]) /\ Handled(r, i)
<1>1. UNCHANGED <<acked, pc>> /\ log' = [log EXCEPT ![s] = Append(@, msg)]
  BY DEF Appends
<1>2. Handled(r, i)
  BY <1>1 DEF Handled
<1>3. acked[r] \in Nat /\ acked[r] <= Len(log[r]) /\ Len(log[r]) \in Nat
      /\ (Pending(r) => acked[r] + 1 \in 1..Len(log[r]))
  BY ShardTypes
<1>4. i \in Nat /\ i >= 1
  BY <1>1, AppendKeeps
<1>5. CASE i <= acked[r]
  BY <1>2, <1>3, <1>4, <1>5
<1>6. CASE i = acked[r] + 1 /\ pc[r] \in {"accounts", "ack"}
  <2>1. Pending(r)
    BY <1>6 DEF IdleInv
  <2> QED
    BY <2>1, <1>2, <1>3, <1>6
<1> QED
  BY <1>2, <1>5, <1>6 DEF Handled
-----------------------------------------------------------------------------
(***************************************************************************)
(* What the scripts do to a document.                                      *)
(***************************************************************************)
(* The write of a transaction: an upsert of the source keeps the document  *)
(* and replaces the fee of a token transfer; any other write takes over    *)
(* the block, and what it merges it keeps.                                 *)
ScriptEffect(stored, doc, tx, b, e, t) ==
  /\ doc \in TxDocs /\ tx.block = b.hash /\ tx.fee = b.shard
  /\ stored = NoDoc => doc = tx
  /\ stored # NoDoc /\ isCrossShardOnSourceShard(b, e, t) =>
       /\ doc.block = stored.block /\ doc.status = stored.status
       /\ doc.errorEvent = stored.errorEvent
       /\ doc.completedEvent = stored.completedEvent
       /\ doc.fee = IF TxInfo[t].kind = "esdt" THEN b.shard ELSE stored.fee
  /\ stored # NoDoc /\ ~isCrossShardOnSourceShard(b, e, t) =>
       /\ doc.block = b.hash
       /\ isNFTTransferOrMultiTransfer(e, t) =>
            /\ doc.status = IF stored.status # "" THEN stored.status ELSE tx.status
            /\ stored.errorEvent => doc.errorEvent
            /\ stored.completedEvent => doc.completedEvent
       /\ ~isNFTTransferOrMultiTransfer(e, t) =>
            /\ doc.status = tx.status
            /\ isSimpleESDTTransferCrossShardOnDestination(b, e, t) => doc.fee = stored.fee

LEMMA TransactionScriptCases ==
  ASSUME NEW b \in Blocks, NEW t \in Txs, t \in PreparedTxs(b),
         NEW stored \in TxDocs \cup {NoDoc}
  PROVE  ScriptEffect(stored, TransactionScript(stored, b, t),
                      prepareTransaction(b, EntryOf(b, t), t), b, EntryOf(b, t), t)
<1>0. PICK doc, e : doc = TransactionScript(stored, b, t) /\ e = EntryOf(b, t)
  OBVIOUS
<1>01. PICK tx : tx = prepareTransaction(b, e, t)
  OBVIOUS
<1>1. doc \in TxDocs
  BY <1>0, TransactionScriptType
<1>2. tx \in TxDocs
  BY <1>0, <1>01, EntryOfType, PreparedTransactionType
<1>3. tx.block = b.hash /\ tx.fee = b.shard
  BY <1>01 DEF prepareTransaction
<1>4. doc = IF stored = NoDoc THEN tx
            ELSE IF isCrossShardOnSourceShard(b, e, t)
              THEN IF TxInfo[t].kind = "esdt" THEN [stored EXCEPT !.fee = tx.fee] ELSE stored
            ELSE IF isNFTTransferOrMultiTransfer(e, t)
              THEN prepareNFTESDTTransferOrMultiESDTTransfer(stored, tx)
            ELSE IF isSimpleESDTTransferCrossShardOnDestination(b, e, t)
              THEN [tx EXCEPT !.fee = stored.fee]
            ELSE tx
  BY <1>0, <1>01 DEF TransactionScript
<1>5. ASSUME stored # NoDoc, isCrossShardOnSourceShard(b, e, t)
      PROVE  /\ doc.block = stored.block /\ doc.status = stored.status
             /\ doc.errorEvent = stored.errorEvent
             /\ doc.completedEvent = stored.completedEvent
             /\ doc.fee = IF TxInfo[t].kind = "esdt" THEN b.shard ELSE stored.fee
  <2>1. stored \in TxDocs /\ doc = IF TxInfo[t].kind = "esdt" THEN [stored EXCEPT !.fee = tx.fee]
                                   ELSE stored
    BY <1>4, <1>5
  <2> QED
    BY <2>1, <1>3 DEF TxDocs
<1>6. ASSUME stored # NoDoc, ~isCrossShardOnSourceShard(b, e, t),
             isNFTTransferOrMultiTransfer(e, t)
      PROVE  /\ doc.block = b.hash
             /\ doc.status = IF stored.status # "" THEN stored.status ELSE tx.status
             /\ stored.errorEvent => doc.errorEvent
             /\ stored.completedEvent => doc.completedEvent
  <2>1. stored \in TxDocs /\ doc = prepareNFTESDTTransferOrMultiESDTTransfer(stored, tx)
    BY <1>4, <1>6
  <2> QED
    BY <2>1, <1>2, <1>3 DEF TxDocs, prepareNFTESDTTransferOrMultiESDTTransfer
<1>7. ASSUME stored # NoDoc, ~isCrossShardOnSourceShard(b, e, t),
             ~isNFTTransferOrMultiTransfer(e, t)
      PROVE  /\ doc.block = b.hash /\ doc.status = tx.status
             /\ isSimpleESDTTransferCrossShardOnDestination(b, e, t) => doc.fee = stored.fee
  <2>1. doc = IF isSimpleESDTTransferCrossShardOnDestination(b, e, t)
                THEN [tx EXCEPT !.fee = stored.fee] ELSE tx
    BY <1>4, <1>7
  <2> QED
    BY <2>1, <1>2, <1>3 DEF TxDocs
<1>8. ScriptEffect(stored, doc, tx, b, e, t)
  BY <1>1, <1>2, <1>3, <1>4, <1>5, <1>6, <1>7 DEF ScriptEffect
<1> QED
  BY <1>0, <1>01, <1>8

(* A status update: it adds the outcome and keeps the rest.                *)
StatusEffect(stored, doc, b, t) ==
  /\ doc \in TxDocs /\ Reports(doc, b, t)
  /\ stored = NoDoc => doc.block = NoHash /\ doc.status \in {"", "fail"}
  /\ stored # NoDoc =>
       /\ doc.block = stored.block /\ doc.fee = stored.fee
       /\ doc.status \in {stored.status, "fail"}
       /\ stored.errorEvent => doc.errorEvent
       /\ stored.completedEvent => doc.completedEvent

LEMMA StatusScriptCases ==
  ASSUME NEW b \in Blocks, NEW t \in Txs, NEW stored \in TxDocs \cup {NoDoc}
  PROVE  StatusEffect(stored, StatusScript(stored, b, t), b, t)
<1>0. PICK doc : doc = StatusScript(stored, b, t)
  OBVIOUS
<1> SUFFICES StatusEffect(stored, doc, b, t)
  BY <1>0
<1> DEFINE info == StatusInfoOf(b, t)
<1>1. /\ info.status \in {"", "fail"} /\ info.errorEvent \in BOOLEAN
      /\ info.completedEvent \in BOOLEAN /\ (info.status = "fail" => info.errorEvent)
  BY DEF StatusInfoOf
<1> HIDE DEF info
<1>2. doc \in TxDocs
  BY <1>0, StatusScriptType
<1>3. doc # NoDoc
  BY <1>2, NoTxDocAssumption
<1>4. CASE stored = NoDoc
  <2>1. doc = [block |-> NoHash, status |-> info.status, fee |-> NoShard,
               errorEvent |-> info.errorEvent, completedEvent |-> info.completedEvent]
    BY <1>0, <1>4 DEF StatusScript, info
  <2>2. /\ doc.block = NoHash /\ doc.status = info.status
        /\ doc.errorEvent = info.errorEvent /\ doc.completedEvent = info.completedEvent
    BY <2>1
  <2> QED
    BY <2>2, <1>1, <1>2, <1>3, <1>4 DEF Reports, StatusEffect, info
<1>5. CASE stored # NoDoc
  <2>1. doc = [stored EXCEPT !.status = IF info.status # "" THEN info.status ELSE @,
                             !.errorEvent = info.errorEvent \/ @,
                             !.completedEvent = info.completedEvent \/ @]
    BY <1>0, <1>5 DEF StatusScript, info
  <2>2. /\ doc.block = stored.block /\ doc.fee = stored.fee
        /\ doc.status = IF info.status # "" THEN info.status ELSE stored.status
        /\ doc.errorEvent = (info.errorEvent \/ stored.errorEvent)
        /\ doc.completedEvent = (info.completedEvent \/ stored.completedEvent)
    BY <2>1, <1>5 DEF TxDocs
  <2> QED
    BY <2>2, <1>1, <1>2, <1>3, <1>5 DEF Reports, StatusEffect, info
<1> QED
  BY <1>4, <1>5

(* The request of SaveTransactions writes a transaction and then updates   *)
(* its status.                                                             *)
LEMMA WrittenDocument ==
  ASSUME TypeOK, BlocksInv, NEW s \in Shards, NEW k, NEW ts, NEW us, Writes(s, k, ts, us),
         NEW t \in Txs
  PROVE  \E mid \in TxDocs \cup {NoDoc} :
           /\ t \in ts => t \in PreparedTxs(BlockAt(s, k))
                          /\ mid = TransactionScript(txs[t], BlockAt(s, k), t)
           /\ t \notin ts => mid = txs[t]
           /\ t \in us => t \in StatusTxs(BlockAt(s, k))
                          /\ txs'[t] = StatusScript(mid, BlockAt(s, k), t)
           /\ t \notin us => txs'[t] = mid
<1> DEFINE b == BlockAt(s, k)
           mid == IF t \in ts THEN TransactionScript(txs[t], b, t) ELSE txs[t]
<1>1. b \in Blocks /\ txs[t] \in TxDocs \cup {NoDoc}
  BY MessageFacts DEF Writes, Current, TypeOK
<1>2. mid \in TxDocs \cup {NoDoc}
  BY <1>1, TransactionScriptType DEF Writes
<1>3. txs'[t] = IF t \in us THEN StatusScript(mid, b, t) ELSE mid
  BY DEF Writes, IndexTransactions
<1> QED
  BY <1>2, <1>3 DEF Writes

(* Where a block and the transactions that it writes belong.               *)
LEMMA PreparedRoutes ==
  ASSUME NEW s \in Shards, NEW b \in Blocks, b.shard = s, WellFormed(b),
         NEW t, t \in PreparedTxs(b), NEW e, e = EntryOf(b, t)
  PROVE  /\ e \in b.mbs /\ e.mb \in Miniblocks /\ t \in MbInfo[e.mb].txs /\ t \in Txs
         /\ MbInfo[e.mb].type \in {"TxBlock", "RewardsBlock", "InvalidBlock"}
         /\ e.inBody /\ HasBody(b)
         /\ s = MbInfo[e.mb].snd \/ s = MbInfo[e.mb].rcv
         /\ MbInfo[e.mb].snd = TxInfo[t].snd
         /\ MbInfo[e.mb].type = "TxBlock" =>
              /\ TxInfo[t].kind # "reward"
              /\ MbInfo[e.mb].rcv = IF TxInfo[t].kind = "deploy" THEN TxInfo[t].snd
                                    ELSE TxInfo[t].rcv
         /\ MbInfo[e.mb].type = "RewardsBlock" =>
              TxInfo[t].kind = "reward" /\ MbInfo[e.mb].rcv = TxInfo[t].rcv
         /\ MbInfo[e.mb].type = "InvalidBlock" =>
              TxInfo[t].kind # "reward" /\ MbInfo[e.mb].rcv = TxInfo[t].snd
<1>1. e \in b.mbs /\ e \in Entries /\ e \in GroupedEntries(b) /\ t \in ExtractExecutedTxHashes(e)
  BY EntryOfType
<1>2. e.mb \in Miniblocks /\ t \in MbInfo[e.mb].txs
  BY <1>1 DEF Entries, ExtractExecutedTxHashes
<1>3. MbInfo[e.mb].type \in {"TxBlock", "RewardsBlock", "InvalidBlock"}
  BY <1>1 DEF GroupedEntries
<1>4. /\ e.inBody \/ MbInfo[e.mb].type = "SmartContractResultBlock"
      /\ Participates(b)
  BY <1>1, WellFormedBlock
<1>5. e.inBody /\ HasBody(b)
  BY <1>1, <1>3, <1>4 DEF HasBody
<1>6. s = MbInfo[e.mb].snd \/ s = MbInfo[e.mb].rcv
  BY <1>1, <1>3, <1>4 DEF Participates
<1>7. t \in Txs
  <2>1. MbInfo[e.mb].txs \subseteq Txs
    BY <1>2, MiniblockAssumption
  <2> QED
    BY <1>2, <2>1
<1> QED
  BY <1>1, <1>2, <1>3, <1>5, <1>6, <1>7, RoutingAssumption

(* A block writes the transactions that it executes, for the miniblock     *)
(* that it executes them in, and its revert removes them.                  *)
LEMMA ExecutedPrepared ==
  ASSUME NEW s \in Shards, NEW b \in Blocks, b.shard = s, WellFormed(b), NEW t \in Executed(b)
  PROVE  /\ t \in PreparedTxs(b) /\ MbInfo[EntryOf(b, t).mb].rcv = s
         /\ t \in GetHexEncodedHashesForRemove(b)
<1>1. PICK x \in b.mbs :
        /\ MbInfo[x.mb].rcv = b.shard
        /\ MbInfo[x.mb].type \in {"TxBlock", "RewardsBlock", "InvalidBlock"}
        /\ x.procType # "Processed" /\ t \in ExtractExecutedTxHashes(x)
  BY DEF Executed
<1>2. t \in MbInfo[x.mb].txs
  BY <1>1 DEF ExtractExecutedTxHashes
<1>3. x.inBody
  BY <1>1, WellFormedBlock
<1>4. x \in GroupedEntries(b)
  BY <1>1 DEF GroupedEntries, shouldIndex
<1>5. t \in PreparedTxs(b)
  BY <1>1, <1>4 DEF PreparedTxs
<1>6. EntryOf(b, t) = x
  <2>1. EntryOf(b, t) \in b.mbs /\ t \in MbInfo[EntryOf(b, t).mb].txs
    BY <1>5, PreparedRoutes
  <2> QED
    BY <2>1, <1>2, WellFormedBlock
<1>7. t \in GetHexEncodedHashesForRemove(b)
  BY <1>1, <1>2, <1>3 DEF GetHexEncodedHashesForRemove, isCrossShardAtSourceNormalTx, IsCrossShard
<1> QED
  BY <1>1, <1>5, <1>6, <1>7

(* A document that another one excuses stays excused as the logs grow.     *)
LEMMA AppendExcuses ==
  ASSUME TypeOK, NEW s \in Shards, NEW msg \in Messages, Appends(s, msg),
         NEW q, NEW b, NEW t
  PROVE  /\ Removed(t) => Removed(t)'
         /\ Clobbered(q, b, t) => Clobbered(q, b, t)'
         /\ Hidden(b, t) => Hidden(b, t)'
<1>1. \A r \in Shards : \A i \in DOMAIN log[r] : i \in DOMAIN log'[r] /\ log'[r][i] = log[r][i]
  <2>1. \A r \in Shards : log[r] \in Seq(Messages) /\ log'[r] \in Seq(Messages)
    BY AppendMessage DEF TypeOK, Appends
  <2>2. \A r \in Shards : \A i \in 1..Len(log[r]) : i \in 1..Len(log'[r]) /\ log'[r][i] = log[r][i]
    BY AppendKeeps DEF Appends
  <2> QED
    BY <2>1, <2>2
<1>2. \A r \in Shards : \A h : RemovedAfter(r, t, h) => RemovedAfter(r, t, h)'
  BY <1>1 DEF RemovedAfter
<1>3. Removed(t) => Removed(t)'
  BY <1>2 DEF Removed
<1>4. Clobbered(q, b, t) => Clobbered(q, b, t)'
  BY <1>2 DEF Clobbered
<1>5. Hidden(b, t) => Hidden(b, t)'
  BY <1>1 DEF Hidden, WrittenBefore
<1> QED
  BY <1>3, <1>4, <1>5

(* A step that leaves the logs alone leaves the excuses alone.             *)
LEMMA SameLog ==
  ASSUME log' = log
  PROVE  /\ \A r, i : /\ BlockAt(r, i)' = BlockAt(r, i) /\ Hash(r, i)' = Hash(r, i)
                      /\ IsSave(r, i)' <=> IsSave(r, i)
         /\ \A r, i, n : LiveAt(r, i, n)' <=> LiveAt(r, i, n)
         /\ \A t : Removed(t)' <=> Removed(t)
         /\ \A q, b, t : Clobbered(q, b, t)' <=> Clobbered(q, b, t)
         /\ \A b, t : Hidden(b, t)' <=> Hidden(b, t)
<1>1. /\ \A r, i : /\ BlockAt(r, i)' = BlockAt(r, i) /\ Hash(r, i)' = Hash(r, i)
                   /\ IsSave(r, i)' <=> IsSave(r, i)
      /\ \A r, i, n : LiveAt(r, i, n)' <=> LiveAt(r, i, n)
  BY DEF BlockAt, Hash, IsSave, LiveAt, IsRevert
<1>2. \A t : Removed(t)' <=> Removed(t)
  BY DEF Removed, RemovedAfter
<1>3. \A q, b, t : Clobbered(q, b, t)' <=> Clobbered(q, b, t)
  BY DEF Clobbered, RemovedAfter
<1>4. \A b, t : Hidden(b, t)' <=> Hidden(b, t)
  BY DEF Hidden, WrittenBefore
<1> QED
  BY <1>1, <1>2, <1>3, <1>4

(* The revert that is being handled excuses what it removes: on every      *)
(* other shard and, on its own, for the blocks still in the chain.         *)
LEMMA RemovalExcuses ==
  ASSUME TypeOK, MessagesInv, NEW s \in Shards, NEW k, NEW removed, Removes(s, k, removed),
         NEW t \in removed
  PROVE  /\ Removed(t)
         /\ \A r \in Shards : \A i \in 1..Len(log[r]) :
              Handled(r, i) /\ LiveAt(r, i, Len(log[r])) => Clobbered(r, BlockAt(r, i), t)
<1>1. /\ k \in 1..Len(log[s]) /\ k = acked[s] + 1 /\ ~Handled(s, k) /\ ~IsSave(s, k)
      /\ t \in GetHexEncodedHashesForRemove(BlockAt(s, k))
  BY DEF Removes, Current
<1>2. /\ log[s][k].topic = "RevertIndexedBlock" /\ Hash(s, k) \in Nat /\ Hash(s, k) > NoHash
      /\ k \in DOMAIN log[s]
  BY <1>1, MessageFacts, ShardTypes DEF MessagesInv, Hashes, NoHash
<1>3. \A h : Hash(s, k) > h => RemovedAfter(s, t, h)
  BY <1>1, <1>2 DEF RemovedAfter, Hash, BlockAt
<1>4. Removed(t)
  BY <1>2, <1>3 DEF Removed
<1>5. ASSUME NEW r \in Shards, NEW i \in 1..Len(log[r]), Handled(r, i),
             LiveAt(r, i, Len(log[r]))
      PROVE  Clobbered(r, BlockAt(r, i), t)
  <2>1. CASE r # s
    BY <2>1, <1>2, <1>3 DEF Clobbered
  <2>2. CASE r = s
    <3>1. i # k /\ acked[s] \in Nat /\ Len(log[s]) \in Nat
      BY <2>2, <1>1, <1>5, ShardTypes
    <3>2. i < k
      BY <2>2, <3>1, <1>1, <1>5 DEF Handled
    <3>3. LiveAt(s, i, k)
      BY <2>2, <3>1, <3>2, <1>1, <1>5, LiveBefore
    <3>4. IsSave(s, i)
      BY <3>3 DEF LiveAt, IsSave
    <3>5. Hash(s, i) < Hash(s, k)
      BY <2>2, <3>2, <3>3, <3>4, <1>1 DEF MessagesInv, YoungestInv
    <3>6. Hash(s, i) \in Nat /\ BlockAt(s, i).hash = Hash(s, i)
      BY <2>2, ShardTypes DEF BlockAt, Hash
    <3> QED
      BY <2>2, <3>5, <3>6, <1>2, <1>3 DEF Clobbered
  <2> QED
    BY <2>1, <2>2
<1> QED
  BY <1>4, <1>5
-----------------------------------------------------------------------------
(***************************************************************************)
(* The moves keep the documents.  An appended message changes no document  *)
(* and is not handled yet; a new block has a hash that no document names.  *)
(***************************************************************************)
LEMMA AppendDocuments ==
  ASSUME TypeOK, IdleInv, MessagesInv, DocumentsInv,
         NEW s \in Shards, NEW msg \in Messages, Appends(s, msg)
  PROVE  DocumentsInv'
<1>0. PICK n \in Nat : n = Len(log[s])
  BY ShardTypes
<1>1. /\ log' = [log EXCEPT ![s] = Append(@, msg)] /\ txs' = txs
      /\ BlockAt(s, n + 1)' = msg.block /\ Hash(s, n + 1)' = msg.block.hash
  <2>1. log' = [log EXCEPT ![s] = Append(@, msg)] /\ txs' = txs
    BY DEF Appends
  <2>2. log'[s][n + 1] = msg
    BY <1>0, <2>1, AppendMessage
  <2> QED
    BY <2>1, <2>2 DEF BlockAt, Hash
<1>2. \A r \in Shards : \A i \in 1..Len(log[r]) :
        /\ i \in 1..Len(log'[r])
        /\ BlockAt(r, i)' = BlockAt(r, i) /\ Hash(r, i)' = Hash(r, i)
        /\ IsSave(r, i)' <=> IsSave(r, i)
  BY <1>1, AppendKeeps
<1>3. \A r \in Shards : \A i \in 1..Len(log'[r]) :
        Handled(r, i)' => i \in 1..Len(log[r]) /\ Handled(r, i)
  BY AppendHandles
<1>4. OriginInv'
  <2> SUFFICES ASSUME NEW t \in Txs, txs[t] # NoDoc
               PROVE  \E r \in Shards : \E i \in 1..Len(log'[r]) :
                        /\ IsSave(r, i)'
                        /\ \/ t \in StatusTxs(BlockAt(r, i)') /\ txs[t].block = NoHash
                           \/ t \in PreparedTxs(BlockAt(r, i)') /\ txs[t].block = Hash(r, i)'
    BY <1>1 DEF OriginInv, StatusTxs, PreparedTxs, GroupedEntries
  <2>1. PICK r \in Shards : \E i \in 1..Len(log[r]) :
          /\ IsSave(r, i)
          /\ \/ t \in StatusTxs(BlockAt(r, i)) /\ txs[t].block = NoHash
             \/ t \in PreparedTxs(BlockAt(r, i)) /\ txs[t].block = Hash(r, i)
    BY DEF DocumentsInv, OriginInv
  <2> QED
    BY <2>1, <1>2
<1>5. StatusInv'
  <2> SUFFICES ASSUME NEW t \in Txs, txs[t] # NoDoc
               PROVE  /\ txs[t].status = "pending" => Travels(t)
                      /\ \A r \in Shards : \A i \in 1..Len(log'[r]) :
                           t \in Executed(BlockAt(r, i)') /\ txs[t].block = Hash(r, i)' =>
                             Final(txs[t])
    BY <1>1 DEF StatusInv, Travels, Final, Executed
  <2>1. txs[t].status = "pending" => Travels(t)
    BY DEF DocumentsInv, StatusInv
  <2>2. ASSUME NEW r \in Shards, NEW i \in 1..Len(log[r]), t \in Executed(BlockAt(r, i)),
               txs[t].block = Hash(r, i)
        PROVE  Final(txs[t])
    BY <2>2 DEF DocumentsInv, StatusInv
  <2>3. ASSUME t \in Executed(msg.block), txs[t].block = msg.block.hash
        PROVE  Final(txs[t])
    <3>1. CASE msg.topic # "SaveBlock"
      <4>1. PICK i \in 1..Len(log[s]) : BlockAt(s, i) = msg.block
        BY <3>1 DEF Appends
      <4>2. Hash(s, i) = msg.block.hash
        BY <4>1 DEF Hash, BlockAt
      <4> QED
        BY <2>2, <2>3, <4>1, <4>2
    <3>2. CASE msg.topic = "SaveBlock"
      <4>1. \A r \in Shards : \A i \in 1..Len(log[r]) : Hash(r, i) # txs[t].block
        BY <2>3, <3>2, ShardTypes DEF Appends
      <4>2. txs[t].block # NoHash
        BY <2>3 DEF Messages, Blocks, Hashes, NoHash
      <4> QED
        BY <4>1, <4>2 DEF DocumentsInv, OriginInv
    <3> QED
      BY <3>1, <3>2
  <2>4. ASSUME NEW r \in Shards, NEW i \in 1..Len(log'[r]), t \in Executed(BlockAt(r, i)'),
               txs[t].block = Hash(r, i)'
        PROVE  Final(txs[t])
    <3>1. CASE i \in 1..Len(log[r])
      BY <2>2, <2>4, <3>1, <1>2
    <3>2. CASE r = s /\ i = n + 1
      BY <2>3, <2>4, <3>2, <1>1
    <3> QED
      BY <3>1, <3>2, <1>0, <1>1, AppendKeeps
  <2> QED
    BY <2>1, <2>4
<1>6. PhantomInv'
  <2> SUFFICES ASSUME NEW r \in Shards, NEW i \in 1..Len(log'[r]), Handled(r, i)', ~IsSave(r, i)',
                      NEW t \in Executed(BlockAt(r, i)'), txs[t] # NoDoc
               PROVE  txs[t].block # Hash(r, i)' \/ <<Hash(r, i)', t>> \in rewritten
    BY <1>1 DEF PhantomInv, Executed, Appends
  <2> QED
    BY <1>2, <1>3 DEF DocumentsInv, PhantomInv
<1>7. ExecutedInv'
  <2> SUFFICES ASSUME NEW r \in Shards, NEW i \in 1..Len(log'[r]), Handled(r, i)',
                      LiveAt(r, i, Len(log[r]))', NEW t \in Executed(BlockAt(r, i)')
               PROVE  \/ Clobbered(r, BlockAt(r, i), t)'
                      \/ Hidden(BlockAt(r, i), t)'
                      \/ txs[t] # NoDoc /\ txs[t].block = Hash(r, i)' /\ Final(txs[t])
    BY <1>1 DEF ExecutedInv, Executed, Final
  <2>1. i \in 1..Len(log[r]) /\ Handled(r, i)
    BY <1>3
  <2>2. LiveAt(r, i, Len(log[r]))
    <3>1. PICK l : l = Len(log'[r])
      OBVIOUS
    <3>2. l \in Nat /\ Len(log[r]) <= l
      BY <3>1, <1>1, AppendKeeps
    <3>3. LiveAt(r, i, l)'
      BY <3>1
    <3> QED
      BY <2>1, <3>2, <3>3, <1>1, AppendLive
  <2>3. PICK b : b = BlockAt(r, i)
    OBVIOUS
  <2>4. BlockAt(r, i)' = b /\ Hash(r, i)' = Hash(r, i) /\ t \in Executed(b)
    BY <2>1, <2>3, <1>2
  <2>5. \/ Clobbered(r, b, t) \/ Hidden(b, t)
        \/ txs[t] # NoDoc /\ txs[t].block = Hash(r, i) /\ Final(txs[t])
    BY <2>1, <2>2, <2>3, <2>4 DEF DocumentsInv, ExecutedInv
  <2>6. Clobbered(r, b, t) \/ Hidden(b, t) => Clobbered(r, b, t)' \/ Hidden(b, t)'
    BY AppendExcuses
  <2>7. (Clobbered(r, BlockAt(r, i), t)' <=> Clobbered(r, b, t)')
        /\ (Hidden(BlockAt(r, i), t)' <=> Hidden(b, t)')
    BY <2>4 DEF Clobbered, Hidden, WrittenBefore, isCrossShardOnSourceShard
  <2> QED
    BY <2>4, <2>5, <2>6, <2>7
<1>8. FeeInv'
  <2> SUFFICES ASSUME NEW r \in Shards, NEW i \in 1..Len(log'[r]), Handled(r, i)', IsSave(r, i)',
                      NEW t \in Txs, SentFrom(BlockAt(r, i)', t)
               PROVE  Removed(t)' \/ (txs[t] # NoDoc /\ txs[t].fee = r)
    BY <1>1 DEF FeeInv
  <2>1. Removed(t) => Removed(t)'
    BY AppendExcuses
  <2> QED
    BY <2>1, <1>2, <1>3 DEF DocumentsInv, FeeInv
<1>9. ReportInv'
  <2> SUFFICES ASSUME NEW r \in Shards, NEW i \in 1..Len(log'[r]), Handled(r, i)', IsSave(r, i)',
                      NEW t \in StatusTxs(BlockAt(r, i)'), SelfTransfer(t)
               PROVE  Removed(t)' \/ Reports(txs[t], BlockAt(r, i)', t)
    BY <1>1 DEF ReportInv, StatusTxs, Reports, StatusInfoOf, SelfTransfer
  <2>1. Removed(t) => Removed(t)'
    BY AppendExcuses
  <2> QED
    BY <2>1, <1>2, <1>3 DEF DocumentsInv, ReportInv
<1> QED
  BY <1>4, <1>5, <1>6, <1>7, <1>8, <1>9 DEF DocumentsInv

(* A move that writes nothing: a block without a body executes, sends and  *)
(* reports nothing.                                                        *)
LEMMA LeaveDocuments ==
  ASSUME TypeOK, ChainInv, MessagesInv, DocumentsInv, NEW s \in Shards, NEW k, Leaves(s, k)
  PROVE  DocumentsInv'
<1>1. log' = log /\ txs' = txs /\ k \in 1..Len(log[s])
  BY DEF Leaves
<1>2. /\ \A r, i : /\ BlockAt(r, i)' = BlockAt(r, i) /\ Hash(r, i)' = Hash(r, i)
                   /\ IsSave(r, i)' <=> IsSave(r, i)
      /\ \A r, i, n : LiveAt(r, i, n)' <=> LiveAt(r, i, n)
      /\ \A t : Removed(t)' <=> Removed(t)
      /\ \A q, b, t : Clobbered(q, b, t)' <=> Clobbered(q, b, t)
      /\ \A b, t : Hidden(b, t)' <=> Hidden(b, t)
  BY <1>1, SameLog
<1>3. \A r \in Shards : \A i \in 1..Len(log[r]) :
        Handled(r, i)' => \/ Handled(r, i)
                          \/ r = s /\ i = k /\ IsSave(s, k) /\ ~HasBody(BlockAt(s, k))
  BY DEF Leaves, OnlyHandles
<1>4. ~HasBody(BlockAt(s, k)) =>
        /\ PreparedTxs(BlockAt(s, k)) = {} /\ Executed(BlockAt(s, k)) = {}
        /\ StatusTxs(BlockAt(s, k)) = {}
  <2> SUFFICES ASSUME ~HasBody(BlockAt(s, k))
               PROVE  /\ PreparedTxs(BlockAt(s, k)) = {} /\ Executed(BlockAt(s, k)) = {}
                      /\ StatusTxs(BlockAt(s, k)) = {}
    OBVIOUS
  <2>1. PICK b : b = BlockAt(s, k)
    OBVIOUS
  <2>2. b \in Blocks /\ b.shard = s /\ WellFormed(b) /\ ~HasBody(b)
    BY <1>1, <2>1, MessageFacts DEF MessagesInv
  <2>3. PreparedTxs(b) = {}
    BY <2>2, PreparedRoutes
  <2>4. Executed(b) = {}
    BY <2>2, <2>3, ExecutedPrepared
  <2>5. StatusTxs(b) = {}
    BY <2>2, WellFormedBlock DEF StatusTxs
  <2> QED
    BY <2>1, <2>3, <2>4, <2>5
<1>5. OriginInv' /\ StatusInv'
  BY <1>1, <1>2 DEF DocumentsInv, OriginInv, StatusInv
<1>6. PhantomInv'
  <2> SUFFICES ASSUME NEW r \in Shards, NEW i \in 1..Len(log[r]), Handled(r, i)', ~IsSave(r, i),
                      NEW t \in Executed(BlockAt(r, i)), txs[t] # NoDoc
               PROVE  txs[t].block # Hash(r, i) \/ <<Hash(r, i), t>> \in rewritten'
    BY <1>1, <1>2 DEF PhantomInv
  <2>1. Handled(r, i)
    BY <1>3
  <2>2. txs[t].block # Hash(r, i) \/ <<Hash(r, i), t>> \in rewritten
    BY <2>1 DEF DocumentsInv, PhantomInv
  <2>3. ASSUME Current(s, k), ~IsSave(s, k), Hash(r, i) = Hash(s, k)
        PROVE  FALSE
    <3>1. r = s
      BY <2>3, <1>1 DEF ChainInv
    <3>2. i = k
      BY <2>3, <3>1, <1>1 DEF MessagesInv, RevertOnceInv
    <3> QED
      BY <2>1, <2>3, <3>1, <3>2 DEF Current
  <2>4. PICK w : w = <<Hash(r, i), t>>
    OBVIOUS
  <2>5. w \in rewritten => w \in rewritten'
    BY <2>3, <2>4 DEF Leaves
  <2> QED
    BY <2>2, <2>4, <2>5
<1>7. ExecutedInv'
  <2> SUFFICES ASSUME NEW r \in Shards, NEW i \in 1..Len(log[r]), Handled(r, i)',
                      LiveAt(r, i, Len(log[r])), NEW t \in Executed(BlockAt(r, i))
               PROVE  \/ Clobbered(r, BlockAt(r, i), t)
                      \/ Hidden(BlockAt(r, i), t)
                      \/ txs[t] # NoDoc /\ txs[t].block = Hash(r, i) /\ Final(txs[t])
    <3>1. \A r, i : LiveAt(r, i, Len(log[r]))' <=> LiveAt(r, i, Len(log[r]))
      BY <1>1 DEF LiveAt, IsRevert
    <3>2. \A r, i, t : /\ Clobbered(r, BlockAt(r, i), t)' <=> Clobbered(r, BlockAt(r, i), t)
                       /\ Hidden(BlockAt(r, i), t)' <=> Hidden(BlockAt(r, i), t)
      BY <1>1 DEF Clobbered, RemovedAfter, BlockAt, Hidden, WrittenBefore
    <3> QED
      BY <1>1, <1>2, <3>1, <3>2 DEF ExecutedInv
  <2>1. Handled(r, i)
    BY <1>3, <1>4
  <2> QED
    BY <2>1 DEF DocumentsInv, ExecutedInv
<1>8. FeeInv'
  <2> SUFFICES ASSUME NEW r \in Shards, NEW i \in 1..Len(log[r]), Handled(r, i)', IsSave(r, i),
                      NEW t \in Txs, SentFrom(BlockAt(r, i), t)
               PROVE  Removed(t) \/ (txs[t] # NoDoc /\ txs[t].fee = r)
    BY <1>1, <1>2 DEF FeeInv
  <2>1. Handled(r, i)
    BY <1>3, <1>4 DEF SentFrom
  <2> QED
    BY <2>1 DEF DocumentsInv, FeeInv
<1>9. ReportInv'
  <2> SUFFICES ASSUME NEW r \in Shards, NEW i \in 1..Len(log[r]), Handled(r, i)', IsSave(r, i),
                      NEW t \in StatusTxs(BlockAt(r, i)), SelfTransfer(t)
               PROVE  Removed(t) \/ Reports(txs[t], BlockAt(r, i), t)
    BY <1>1, <1>2 DEF ReportInv
  <2>1. Handled(r, i)
    BY <1>3, <1>4
  <2> QED
    BY <2>1 DEF DocumentsInv, ReportInv
<1> QED
  BY <1>5, <1>6, <1>7, <1>8, <1>9 DEF DocumentsInv

(* A removal, in full or in part: what it takes away is excused, and when  *)
(* it is complete no document names the reverted block but those that      *)
(* another handler wrote meanwhile.                                        *)
LEMMA RemoveDocuments ==
  ASSUME TypeOK, MessagesInv, DocumentsInv, NEW s \in Shards, NEW k, NEW removed,
         Removes(s, k, removed)
  PROVE  DocumentsInv'
<1>1. log' = log /\ k \in 1..Len(log[s]) /\ ~IsSave(s, k)
  BY DEF Removes, Current
<1>2. /\ \A r, i : /\ BlockAt(r, i)' = BlockAt(r, i) /\ Hash(r, i)' = Hash(r, i)
                   /\ IsSave(r, i)' <=> IsSave(r, i)
      /\ \A r, i, n : LiveAt(r, i, n)' <=> LiveAt(r, i, n)
      /\ \A t : Removed(t)' <=> Removed(t)
  BY <1>1, SameLog
<1>3. \A r \in Shards : \A i \in 1..Len(log[r]) :
        Handled(r, i)' =>
          \/ Handled(r, i)
          \/ r = s /\ i = k /\ LeavesRewritten(s, k, removed)
  BY DEF Removes, OnlyHandles
<1>4. \A t \in Txs : txs'[t] = IF t \in removed THEN NoDoc ELSE txs[t]
  <2>1. DOMAIN txs = Txs
    BY DEF TypeOK
  <2> QED
    BY <2>1 DEF Removes, Without
<1>5. \A r \in Shards : \A i \in 1..Len(log[r]) : Executed(BlockAt(r, i)) \subseteq Txs
  <2> SUFFICES ASSUME NEW r \in Shards, NEW i \in 1..Len(log[r]), NEW t \in Executed(BlockAt(r, i))
               PROVE  t \in Txs
    OBVIOUS
  <2>1. BlockAt(r, i) \in Blocks /\ BlockAt(r, i).shard = r /\ WellFormed(BlockAt(r, i))
    BY MessageFacts DEF MessagesInv
  <2>2. t \in PreparedTxs(BlockAt(r, i))
    BY <2>1, ExecutedPrepared
  <2> QED
    BY <2>1, <2>2, PreparedRoutes
<1>6. OriginInv' /\ StatusInv'
  BY <1>1, <1>2, <1>4 DEF DocumentsInv, OriginInv, StatusInv
<1>7. PhantomInv'
  <2> SUFFICES ASSUME NEW r \in Shards, NEW i \in 1..Len(log[r]), Handled(r, i)', ~IsSave(r, i),
                      NEW t \in Executed(BlockAt(r, i)), txs'[t] # NoDoc
               PROVE  txs'[t].block # Hash(r, i) \/ <<Hash(r, i), t>> \in rewritten
    BY <1>1, <1>2 DEF PhantomInv, Removes
  <2>1. t \notin removed /\ txs'[t] = txs[t]
    BY <1>4, <1>5
  <2>2. CASE Handled(r, i)
    BY <2>1, <2>2 DEF DocumentsInv, PhantomInv
  <2>3. CASE r = s /\ i = k /\ LeavesRewritten(s, k, removed)
    <3>1. BlockAt(r, i) \in Blocks /\ BlockAt(r, i).shard = r /\ WellFormed(BlockAt(r, i))
      BY MessageFacts DEF MessagesInv
    <3>2. t \in GetHexEncodedHashesForRemove(BlockAt(r, i))
      BY <3>1, ExecutedPrepared
    <3> QED
      BY <2>1, <2>3, <3>2 DEF LeavesRewritten
  <2> QED
    BY <2>2, <2>3, <1>3
<1>8. ExecutedInv'
  <2> SUFFICES ASSUME NEW r \in Shards, NEW i \in 1..Len(log[r]), Handled(r, i)',
                      LiveAt(r, i, Len(log[r])), NEW t \in Executed(BlockAt(r, i))
               PROVE  \/ Clobbered(r, BlockAt(r, i), t)
                      \/ Hidden(BlockAt(r, i), t)
                      \/ txs'[t] # NoDoc /\ txs'[t].block = Hash(r, i) /\ Final(txs'[t])
    <3>1. \A r, i : LiveAt(r, i, Len(log[r]))' <=> LiveAt(r, i, Len(log[r]))
      BY <1>1 DEF LiveAt, IsRevert
    <3>2. \A r, i, t : /\ Clobbered(r, BlockAt(r, i), t)' <=> Clobbered(r, BlockAt(r, i), t)
                       /\ Hidden(BlockAt(r, i), t)' <=> Hidden(BlockAt(r, i), t)
      BY <1>1 DEF Clobbered, RemovedAfter, BlockAt, Hidden, WrittenBefore
    <3> QED
      BY <1>1, <1>2, <3>1, <3>2 DEF ExecutedInv
  <2>1. IsSave(r, i)
    BY DEF LiveAt, IsSave
  <2>2. Handled(r, i)
    BY <2>1, <1>1, <1>3
  <2>3. CASE t \in removed
    BY <2>2, <2>3, RemovalExcuses
  <2>4. CASE t \notin removed
    <3>1. txs'[t] = txs[t]
      BY <2>4, <1>4, <1>5
    <3> QED
      BY <2>2, <3>1 DEF DocumentsInv, ExecutedInv
  <2> QED
    BY <2>3, <2>4
<1>9. FeeInv'
  <2> SUFFICES ASSUME NEW r \in Shards, NEW i \in 1..Len(log[r]), Handled(r, i)', IsSave(r, i),
                      NEW t \in Txs, SentFrom(BlockAt(r, i), t)
               PROVE  Removed(t) \/ (txs'[t] # NoDoc /\ txs'[t].fee = r)
    BY <1>1, <1>2 DEF FeeInv
  <2>1. Handled(r, i)
    BY <1>1, <1>3
  <2>2. t \in removed => Removed(t)
    BY RemovalExcuses
  <2> QED
    BY <2>1, <2>2, <1>4 DEF DocumentsInv, FeeInv
<1>10. ReportInv'
  <2> SUFFICES ASSUME NEW r \in Shards, NEW i \in 1..Len(log[r]), Handled(r, i)', IsSave(r, i),
                      NEW t \in StatusTxs(BlockAt(r, i)), SelfTransfer(t)
               PROVE  Removed(t) \/ Reports(txs'[t], BlockAt(r, i), t)
    BY <1>1, <1>2 DEF ReportInv
  <2>1. Handled(r, i)
    BY <1>1, <1>3
  <2>2. t \in removed => Removed(t)
    BY RemovalExcuses
  <2>3. t \in Txs
    <3>1. BlockAt(r, i) \in Blocks
      BY MessageFacts DEF MessagesInv
    <3> QED
      BY <3>1 DEF StatusTxs, Blocks, StatusInfos
  <2> QED
    BY <2>1, <2>2, <2>3, <1>4 DEF DocumentsInv, ReportInv
<1> QED
  BY <1>6, <1>7, <1>8, <1>9, <1>10 DEF DocumentsInv

(***************************************************************************)
(* The request of SaveTransactions of block c makes new of a document old: *)
(* it keeps the document but for the fee and the outcome, creates one that *)
(* has only the outcome, or writes the transaction.                        *)
(***************************************************************************)
KeepsDoc(old, new, c, t) ==
  /\ old # NoDoc /\ new # NoDoc
  /\ new.block = old.block /\ new.status \in {old.status, "fail"}
  /\ old.errorEvent => new.errorEvent
  /\ old.completedEvent => new.completedEvent
  /\ new.fee = old.fee \/ (SentFrom(c, t) /\ new.fee = c.shard)

CreatesDoc(old, new, c, t) ==
  /\ old = NoDoc /\ new # NoDoc /\ t \in StatusTxs(c)
  /\ new.block = NoHash /\ new.status \in {"", "fail"}

WritesDoc(old, new, c, t) ==
  LET e == EntryOf(c, t) IN
  /\ t \in PreparedTxs(c) /\ new # NoDoc /\ new.block = c.hash
  /\ old = NoDoc \/ ~isCrossShardOnSourceShard(c, e, t)
  /\ \/ new.status \in {prepareTransaction(c, e, t).status, "fail"}
     \/ /\ old # NoDoc /\ isNFTTransferOrMultiTransfer(e, t) /\ old.status # ""
        /\ new.status \in {old.status, "fail"}
  /\ old # NoDoc /\ isNFTTransferOrMultiTransfer(e, t) =>
       /\ old.status = "fail" => new.status = "fail"
       /\ old.errorEvent => new.errorEvent
       /\ old.completedEvent => new.completedEvent
  /\ old # NoDoc /\ isSimpleESDTTransferCrossShardOnDestination(c, e, t) => new.fee = old.fee

LEMMA WriteCases ==
  ASSUME TypeOK, BlocksInv, NEW s \in Shards, NEW k, NEW ts, NEW us, Writes(s, k, ts, us),
         NEW c, c = BlockAt(s, k), NEW t \in Txs
  PROVE  /\ \/ txs[t] = NoDoc /\ txs'[t] = NoDoc /\ t \notin ts /\ t \notin us
            \/ CreatesDoc(txs[t], txs'[t], c, t) /\ t \notin ts
            \/ KeepsDoc(txs[t], txs'[t], c, t)
               /\ (t \in ts => isCrossShardOnSourceShard(c, EntryOf(c, t), t))
            \/ WritesDoc(txs[t], txs'[t], c, t) /\ t \in ts
         /\ t \in us => Reports(txs'[t], c, t)
         /\ t \in ts /\ SentFrom(c, t) => txs'[t].fee = c.shard
<1>1. PICK mid \in TxDocs \cup {NoDoc} :
        /\ t \in ts => t \in PreparedTxs(c) /\ mid = TransactionScript(txs[t], c, t)
        /\ t \notin ts => mid = txs[t]
        /\ t \in us => t \in StatusTxs(c) /\ txs'[t] = StatusScript(mid, c, t)
        /\ t \notin us => txs'[t] = mid
  BY WrittenDocument
<1>2. c \in Blocks /\ txs[t] \in TxDocs \cup {NoDoc}
  BY MessageFacts DEF Writes, Current, TypeOK
<1>3. PICK old : old = txs[t]
  OBVIOUS
<1>4. PICK new : new = txs'[t]
  OBVIOUS
<1>5. PICK e : e = EntryOf(c, t)
  OBVIOUS
<1>6. PICK tx : tx = prepareTransaction(c, e, t)
  OBVIOUS
<1>7. /\ t \in us => Reports(new, c, t) /\ new # NoDoc
      /\ mid = NoDoc /\ t \in us => new.block = NoHash /\ new.status \in {"", "fail"}
      /\ mid # NoDoc =>
           /\ new # NoDoc /\ new.block = mid.block /\ new.fee = mid.fee
           /\ new.status \in {mid.status, "fail"}
           /\ mid.errorEvent => new.errorEvent
           /\ mid.completedEvent => new.completedEvent
  <2>1. CASE t \in us
    <3>1. new = StatusScript(mid, c, t)
      BY <1>1, <1>4, <2>1
    <3>2. new # NoDoc
      BY <1>2, <3>1, StatusScriptType, NoTxDocAssumption
    <3>3. /\ Reports(new, c, t)
          /\ mid = NoDoc => new.block = NoHash /\ new.status \in {"", "fail"}
          /\ mid # NoDoc =>
               /\ new.block = mid.block /\ new.fee = mid.fee
               /\ new.status \in {mid.status, "fail"}
               /\ mid.errorEvent => new.errorEvent
               /\ mid.completedEvent => new.completedEvent
      <4>1. StatusEffect(mid, new, c, t)
        BY <1>2, <3>1, StatusScriptCases
      <4> QED
        BY <4>1 DEF StatusEffect
    <3> QED
      BY <3>2, <3>3
  <2>2. CASE t \notin us
    BY <1>1, <1>4, <2>2
  <2> QED
    BY <2>1, <2>2
<1>8. CASE t \notin ts
  <2>1. mid = old
    BY <1>1, <1>3, <1>8
  <2>2. old = NoDoc /\ t \notin us => new = NoDoc
    BY <2>1, <1>1, <1>4
  <2>3. old = NoDoc /\ t \in us => CreatesDoc(old, new, c, t)
    BY <2>1, <1>1, <1>7 DEF CreatesDoc
  <2>4. old # NoDoc => KeepsDoc(old, new, c, t)
    BY <2>1, <1>7 DEF KeepsDoc
  <2> QED
    BY <2>2, <2>3, <2>4, <1>3, <1>4, <1>7, <1>8
<1>9. CASE t \in ts
  <2>1. t \in PreparedTxs(c) /\ mid = TransactionScript(old, c, t)
    BY <1>1, <1>3, <1>9
  <2>2. /\ mid \in TxDocs /\ tx.block = c.hash /\ tx.fee = c.shard
        /\ old = NoDoc => mid = tx
        /\ old # NoDoc /\ isCrossShardOnSourceShard(c, e, t) =>
             /\ mid.block = old.block /\ mid.status = old.status
             /\ mid.errorEvent = old.errorEvent
             /\ mid.completedEvent = old.completedEvent
             /\ mid.fee = IF TxInfo[t].kind = "esdt" THEN c.shard ELSE old.fee
        /\ old # NoDoc /\ ~isCrossShardOnSourceShard(c, e, t) =>
             /\ mid.block = c.hash
             /\ isNFTTransferOrMultiTransfer(e, t) =>
                  /\ mid.status = IF old.status # "" THEN old.status ELSE tx.status
                  /\ old.errorEvent => mid.errorEvent
                  /\ old.completedEvent => mid.completedEvent
             /\ ~isNFTTransferOrMultiTransfer(e, t) =>
                  /\ mid.status = tx.status
                  /\ isSimpleESDTTransferCrossShardOnDestination(c, e, t) => mid.fee = old.fee
    <3>1. old \in TxDocs \cup {NoDoc}
      BY <1>2, <1>3
    <3>2. ScriptEffect(old, mid, tx, c, e, t)
      BY <2>1, <3>1, <1>2, <1>5, <1>6, TransactionScriptCases
    <3> QED
      BY <3>2 DEF ScriptEffect
  <2>3. mid # NoDoc
    BY <2>2, NoTxDocAssumption
  <2>4. CASE old # NoDoc /\ isCrossShardOnSourceShard(c, e, t)
    <3>1. /\ new # NoDoc /\ new.block = old.block /\ new.status \in {old.status, "fail"}
          /\ old.errorEvent => new.errorEvent
          /\ old.completedEvent => new.completedEvent
      BY <2>2, <2>3, <2>4, <1>7
    <3>2. new.fee = IF TxInfo[t].kind = "esdt" THEN c.shard ELSE old.fee
      BY <2>2, <2>3, <2>4, <1>7
    <3>3. SentFrom(c, t) <=> TxInfo[t].kind = "esdt"
      BY <2>1, <2>4, <1>5 DEF SentFrom
    <3>4. KeepsDoc(old, new, c, t)
      BY <2>4, <3>1, <3>2, <3>3 DEF KeepsDoc
    <3> QED
      BY <2>4, <3>2, <3>3, <3>4, <1>3, <1>4, <1>5, <1>7
  <2>5. CASE old = NoDoc \/ ~isCrossShardOnSourceShard(c, e, t)
    <3>1. new # NoDoc /\ new.block = c.hash
      BY <2>2, <2>3, <2>5, <1>7
    <3>2. \/ new.status \in {tx.status, "fail"}
          \/ /\ old # NoDoc /\ isNFTTransferOrMultiTransfer(e, t) /\ old.status # ""
             /\ new.status \in {old.status, "fail"}
      BY <2>2, <2>3, <2>5, <1>7
    <3>3. old # NoDoc /\ isNFTTransferOrMultiTransfer(e, t) =>
            /\ old.status = "fail" => new.status = "fail"
            /\ old.errorEvent => new.errorEvent
            /\ old.completedEvent => new.completedEvent
      BY <2>2, <2>3, <2>5, <1>7
    <3>4. isSimpleESDTTransferCrossShardOnDestination(c, e, t) =>
            ~isNFTTransferOrMultiTransfer(e, t)
      BY DEF isSimpleESDTTransferCrossShardOnDestination, isNFTTransferOrMultiTransfer
    <3>5. old # NoDoc /\ isSimpleESDTTransferCrossShardOnDestination(c, e, t) =>
            new.fee = old.fee
      BY <2>2, <2>3, <2>5, <3>4, <1>7
    <3>6. WritesDoc(old, new, c, t)
      BY <2>1, <2>5, <3>1, <3>2, <3>3, <3>5, <1>5, <1>6 DEF WritesDoc
    <3>7. SentFrom(c, t) => new.fee = c.shard
      <4>1. SentFrom(c, t) => old = NoDoc
        BY <2>5, <1>5 DEF SentFrom
      <4> QED
        BY <4>1, <2>2, <2>3, <1>7
    <3> QED
      BY <3>6, <3>7, <1>3, <1>4, <1>7, <1>9
  <2> QED
    BY <2>4, <2>5
<1> QED
  BY <1>8, <1>9

(* The documents that are merged are those of NFT transfers that their     *)
(* sender addressed to itself; these do not travel.                        *)
LEMMA SelfTransfers ==
  ASSUME NEW s \in Shards, NEW c \in Blocks, c.shard = s, WellFormed(c),
         NEW t, t \in PreparedTxs(c), NEW e, e = EntryOf(c, t)
  PROVE  /\ isNFTTransferOrMultiTransfer(e, t) <=> SelfTransfer(t)
         /\ SelfTransfer(t) => ~isCrossShardOnSourceShard(c, e, t) /\ ~Travels(t)
<1>1. /\ MbInfo[e.mb].type \in {"TxBlock", "RewardsBlock", "InvalidBlock"}
      /\ MbInfo[e.mb].snd = TxInfo[t].snd
      /\ MbInfo[e.mb].type = "TxBlock" =>
           MbInfo[e.mb].rcv = IF TxInfo[t].kind = "deploy" THEN TxInfo[t].snd ELSE TxInfo[t].rcv
      /\ MbInfo[e.mb].type = "RewardsBlock" => TxInfo[t].kind = "reward"
  BY PreparedRoutes
<1>2. TxInfo[t].kind = "nft" => ReceiverShard(e, t) = TxInfo[t].rcv
  BY <1>1 DEF ReceiverShard
<1>3. SelfTransfer(t) => ~Travels(t)
  BY RoutingAssumption DEF SelfTransfer, Travels, IsCrossShard
<1> QED
  BY <1>1, <1>2, <1>3 DEF SelfTransfer, isNFTTransferOrMultiTransfer, isCrossShardOnSourceShard

(* The status that a block gives to a transaction: pending only if it      *)
(* travels, and an outcome if the block executes it.                       *)
LEMMA PreparedStatus ==
  ASSUME NEW s \in Shards, NEW c \in Blocks, c.shard = s, WellFormed(c),
         NEW t, t \in PreparedTxs(c), NEW status,
         status = prepareTransaction(c, EntryOf(c, t), t).status
  PROVE  /\ status \in {"fail", "invalid", "success", "pending"}
         /\ status = "pending" => Travels(t) /\ t \notin Executed(c)
<1>1. PICK e : e = EntryOf(c, t)
  OBVIOUS
<1>2. status = IF t \in c.failed THEN "fail"
               ELSE IF MbInfo[e.mb].type = "InvalidBlock" THEN "invalid"
               ELSE IF s = MbInfo[e.mb].rcv THEN "success" ELSE "pending"
  BY <1>1 DEF prepareTransaction, computeStatus
<1>3. /\ e.mb \in Miniblocks /\ t \in MbInfo[e.mb].txs
      /\ MbInfo[e.mb].type \in {"TxBlock", "RewardsBlock", "InvalidBlock"}
      /\ s = MbInfo[e.mb].snd \/ s = MbInfo[e.mb].rcv
  BY <1>1, PreparedRoutes
<1>4. status = "pending" => Travels(t)
  BY <1>2, <1>3 DEF Travels, IsCrossShard
<1>5. t \in Executed(c) => s = MbInfo[e.mb].rcv
  BY <1>1, ExecutedPrepared
<1> QED
  BY <1>2, <1>4, <1>5

(* What a request of SaveTransactions writes names its block and says what *)
(* became of the transaction.                                              *)
LEMMA WriteOrigins ==
  ASSUME TypeOK, ChainInv, MessagesInv, DocumentsInv, NEW s \in Shards, NEW k, NEW ts, NEW us,
         Writes(s, k, ts, us)
  PROVE  OriginInv' /\ StatusInv'
<1>1. PICK c : c = BlockAt(s, k)
  OBVIOUS
<1>2. k \in 1..Len(log[s]) /\ IsSave(s, k) /\ log' = log
  BY DEF Writes, Current
<1>3. c \in Blocks /\ c.shard = s /\ WellFormed(c) /\ c.hash = Hash(s, k) /\ Hash(s, k) # NoHash
  BY <1>1, <1>2, MessageFacts DEF MessagesInv, Hashes, NoHash
<1>4. \A r, i : /\ BlockAt(r, i)' = BlockAt(r, i) /\ Hash(r, i)' = Hash(r, i)
                /\ IsSave(r, i)' <=> IsSave(r, i)
  BY <1>2, SameLog
<1>5. \A t \in Txs :
        \/ txs'[t] = NoDoc
        \/ CreatesDoc(txs[t], txs'[t], c, t)
        \/ KeepsDoc(txs[t], txs'[t], c, t)
        \/ WritesDoc(txs[t], txs'[t], c, t)
  BY <1>1, WriteCases DEF MessagesInv
<1>6. OriginInv'
  <2> SUFFICES ASSUME NEW t \in Txs, txs'[t] # NoDoc
               PROVE  \E r \in Shards : \E i \in 1..Len(log[r]) :
                        /\ IsSave(r, i)
                        /\ \/ t \in StatusTxs(BlockAt(r, i)) /\ txs'[t].block = NoHash
                           \/ t \in PreparedTxs(BlockAt(r, i)) /\ txs'[t].block = Hash(r, i)
    BY <1>2, <1>4 DEF OriginInv
  <2>1. CASE CreatesDoc(txs[t], txs'[t], c, t)
    BY <2>1, <1>1, <1>2 DEF CreatesDoc
  <2>2. CASE KeepsDoc(txs[t], txs'[t], c, t)
    <3>1. txs[t] # NoDoc /\ txs'[t].block = txs[t].block
      BY <2>2 DEF KeepsDoc
    <3> QED
      BY <3>1 DEF DocumentsInv, OriginInv
  <2>3. CASE WritesDoc(txs[t], txs'[t], c, t)
    <3>1. t \in PreparedTxs(c) /\ txs'[t].block = c.hash
      BY <2>3 DEF WritesDoc
    <3> QED
      BY <3>1, <1>1, <1>2, <1>3
  <2> QED
    BY <2>1, <2>2, <2>3, <1>5
<1>7. ASSUME NEW t \in Txs, txs'[t] # NoDoc
      PROVE  /\ txs'[t].status = "pending" => Travels(t)
             /\ \A r \in Shards : \A i \in 1..Len(log[r]) :
                  t \in Executed(BlockAt(r, i)) /\ txs'[t].block = Hash(r, i) => Final(txs'[t])
  <2>1. CASE CreatesDoc(txs[t], txs'[t], c, t)
    <3>1. txs'[t].block = NoHash /\ txs'[t].status # "pending"
      BY <2>1 DEF CreatesDoc
    <3>2. \A r \in Shards : \A i \in 1..Len(log[r]) : Hash(r, i) # NoHash
      BY MessageFacts DEF MessagesInv, Hashes, NoHash
    <3> QED
      BY <3>1, <3>2
  <2>2. CASE KeepsDoc(txs[t], txs'[t], c, t)
    <3>1. /\ txs[t] # NoDoc /\ txs'[t].block = txs[t].block
          /\ txs'[t].status \in {txs[t].status, "fail"}
      BY <2>2 DEF KeepsDoc
    <3>2. Final(txs[t]) => Final(txs'[t])
      BY <3>1 DEF Final
    <3> QED
      BY <3>1, <3>2 DEF DocumentsInv, StatusInv
  <2>3. CASE WritesDoc(txs[t], txs'[t], c, t)
    <3>1. PICK status, e : status = prepareTransaction(c, e, t).status /\ e = EntryOf(c, t)
      OBVIOUS
    <3>2. /\ t \in PreparedTxs(c) /\ txs'[t].block = c.hash
          /\ \/ txs'[t].status \in {status, "fail"}
             \/ /\ txs[t] # NoDoc /\ isNFTTransferOrMultiTransfer(e, t) /\ txs[t].status # ""
                /\ txs'[t].status \in {txs[t].status, "fail"}
      BY <2>3, <3>1 DEF WritesDoc
    <3>3. /\ status \in {"fail", "invalid", "success", "pending"}
          /\ status = "pending" => Travels(t) /\ t \notin Executed(c)
      BY <3>1, <3>2, <1>3, PreparedStatus
    <3>4. isNFTTransferOrMultiTransfer(e, t) => ~Travels(t)
      BY <3>1, <3>2, <1>3, SelfTransfers
    <3>5. txs[t] # NoDoc /\ txs[t].status = "pending" => Travels(t)
      BY DEF DocumentsInv, StatusInv
    <3>6. txs'[t].status = "pending" => Travels(t)
      BY <3>2, <3>3, <3>5
    <3>7. t \in Executed(c) => Final(txs'[t])
      BY <3>2, <3>3, <3>4, <3>5 DEF Final
    <3>8. ASSUME NEW r \in Shards, NEW i \in 1..Len(log[r]), Hash(r, i) = Hash(s, k)
          PROVE  BlockAt(r, i) = c
      <4>1. r = s
        BY <3>8, <1>2 DEF ChainInv
      <4> QED
        BY <4>1, <3>8, <1>1, <1>2 DEF MessagesInv, BlocksInv
    <3> QED
      BY <3>2, <3>6, <3>7, <3>8, <1>3
  <2> QED
    BY <1>5, <1>7, <2>1, <2>2, <2>3
<1>8. StatusInv'
  BY <1>2, <1>4, <1>7 DEF StatusInv
<1> QED
  BY <1>6, <1>8

(* No request writes the hash of a block whose revert was handled: the     *)
(* block of the current message is younger or of another shard.            *)
LEMMA WritePhantoms ==
  ASSUME TypeOK, ChainInv, MessagesInv, DocumentsInv, NEW s \in Shards, NEW k, NEW ts, NEW us,
         Writes(s, k, ts, us)
  PROVE  PhantomInv'
<1>1. PICK c : c = BlockAt(s, k)
  OBVIOUS
<1>2. k \in 1..Len(log[s]) /\ k = acked[s] + 1 /\ ~Handled(s, k) /\ IsSave(s, k) /\ log' = log
  BY DEF Writes, Current
<1>3. \A r, i : /\ BlockAt(r, i)' = BlockAt(r, i) /\ Hash(r, i)' = Hash(r, i)
                /\ IsSave(r, i)' <=> IsSave(r, i)
  BY <1>2, SameLog
<1> SUFFICES ASSUME NEW r \in Shards, NEW i \in 1..Len(log[r]), Handled(r, i)', ~IsSave(r, i),
                    NEW t \in Executed(BlockAt(r, i)), txs'[t] # NoDoc
             PROVE  txs'[t].block # Hash(r, i) \/ <<Hash(r, i), t>> \in rewritten'
  BY <1>2, <1>3 DEF PhantomInv
<1>4. Handled(r, i)
  BY <1>2 DEF Writes, OnlyHandles
<1>5. Hash(r, i) # Hash(s, k) /\ Hash(r, i) # NoHash
  <2>1. Hash(r, i) # NoHash
    BY MessageFacts DEF MessagesInv, Hashes, NoHash
  <2>2. ASSUME Hash(r, i) = Hash(s, k)
        PROVE  FALSE
    <3>1. r = s
      BY <2>2, <1>2 DEF ChainInv
    <3>2. i # k /\ acked[s] \in Nat
      BY <3>1, <1>2, <1>4, ShardTypes
    <3>3. i < k
      BY <3>1, <3>2, <1>2, <1>4 DEF Handled
    <3> QED
      BY <2>2, <3>1, <3>3, <1>2 DEF ChainInv, IsSave
  <2> QED
    BY <2>1, <2>2
<1>6. t \in Txs
  <2>1. BlockAt(r, i) \in Blocks /\ BlockAt(r, i).shard = r /\ WellFormed(BlockAt(r, i))
    BY MessageFacts DEF MessagesInv
  <2>2. t \in PreparedTxs(BlockAt(r, i))
    BY <2>1, ExecutedPrepared
  <2> QED
    BY <2>1, <2>2, PreparedRoutes
<1>7. \/ txs'[t].block \in {c.hash, NoHash}
      \/ txs[t] # NoDoc /\ txs'[t].block = txs[t].block
  <2>1. \/ CreatesDoc(txs[t], txs'[t], c, t)
        \/ KeepsDoc(txs[t], txs'[t], c, t)
        \/ WritesDoc(txs[t], txs'[t], c, t)
    BY <1>1, <1>6, WriteCases DEF MessagesInv
  <2> QED
    BY <2>1 DEF CreatesDoc, KeepsDoc, WritesDoc
<1>8. c.hash = Hash(s, k)
  BY <1>1 DEF Hash, BlockAt
<1> QED
  BY <1>4, <1>5, <1>7, <1>8 DEF DocumentsInv, PhantomInv, Writes

(* A block of another shard writes over what b executed only if b holds    *)
(* the transaction as an invalid one with a receiver there.                *)
LEMMA ForeignWrite ==
  ASSUME NEW r \in Shards, NEW s \in Shards, r # s,
         NEW b \in Blocks, b.shard = r, WellFormed(b), NEW t \in Executed(b),
         NEW c \in Blocks, c.shard = s, WellFormed(c), t \in PreparedTxs(c),
         ~isCrossShardOnSourceShard(c, EntryOf(c, t), t)
  PROVE  /\ EntryOf(b, t) \in b.mbs /\ t \in MbInfo[EntryOf(b, t).mb].txs
         /\ MbInfo[EntryOf(b, t).mb].type = "InvalidBlock"
         /\ isCrossShardOnSourceShard(b, EntryOf(b, t), t)
<1>1. PICK e, f : e = EntryOf(b, t) /\ f = EntryOf(c, t)
  OBVIOUS
<1>2. t \in PreparedTxs(b) /\ MbInfo[e.mb].rcv = r
  BY <1>1, ExecutedPrepared
<1>3. /\ e \in b.mbs /\ t \in MbInfo[e.mb].txs
      /\ MbInfo[e.mb].type \in {"TxBlock", "RewardsBlock", "InvalidBlock"}
      /\ MbInfo[e.mb].snd = TxInfo[t].snd
      /\ MbInfo[e.mb].type = "TxBlock" =>
           /\ TxInfo[t].kind # "reward"
           /\ MbInfo[e.mb].rcv = IF TxInfo[t].kind = "deploy" THEN TxInfo[t].snd ELSE TxInfo[t].rcv
      /\ MbInfo[e.mb].type = "RewardsBlock" =>
           TxInfo[t].kind = "reward" /\ MbInfo[e.mb].rcv = TxInfo[t].rcv
      /\ MbInfo[e.mb].type = "InvalidBlock" =>
           TxInfo[t].kind # "reward" /\ MbInfo[e.mb].rcv = TxInfo[t].snd
  BY <1>1, <1>2, PreparedRoutes
<1>4. /\ MbInfo[f.mb].type \in {"TxBlock", "RewardsBlock", "InvalidBlock"}
      /\ MbInfo[f.mb].snd = TxInfo[t].snd
      /\ s = MbInfo[f.mb].snd \/ s = MbInfo[f.mb].rcv
      /\ MbInfo[f.mb].type = "TxBlock" =>
           /\ TxInfo[t].kind # "reward"
           /\ MbInfo[f.mb].rcv = IF TxInfo[t].kind = "deploy" THEN TxInfo[t].snd ELSE TxInfo[t].rcv
      /\ MbInfo[f.mb].type = "RewardsBlock" =>
           TxInfo[t].kind = "reward" /\ MbInfo[f.mb].rcv = TxInfo[t].rcv
      /\ MbInfo[f.mb].type = "InvalidBlock" =>
           TxInfo[t].kind # "reward" /\ MbInfo[f.mb].rcv = TxInfo[t].snd
  BY <1>1, PreparedRoutes
<1>5. ~(MbInfo[f.mb].snd # ReceiverShard(f, t) /\ MbInfo[f.mb].snd = s)
  BY <1>1 DEF isCrossShardOnSourceShard
<1>6. MbInfo[e.mb].type = "InvalidBlock"
  <2>1. CASE MbInfo[e.mb].type = "TxBlock"
    BY <2>1, <1>2, <1>3, <1>4, <1>5 DEF ReceiverShard
  <2>2. CASE MbInfo[e.mb].type = "RewardsBlock"
    BY <2>2, <1>2, <1>3, <1>4, <1>5 DEF ReceiverShard
  <2> QED
    BY <2>1, <2>2, <1>3
<1>7. TxInfo[t].snd = r /\ TxInfo[t].rcv = s
  BY <1>2, <1>3, <1>4, <1>6
<1>8. isCrossShardOnSourceShard(b, e, t)
  BY <1>3, <1>6, <1>7 DEF isCrossShardOnSourceShard, ReceiverShard
<1> QED
  BY <1>1, <1>3, <1>6, <1>8

(* What a request of SaveTransactions writes leaves the executions of the  *)
(* chain indexed, and indexes those of its block.                          *)
LEMMA WriteExecuted ==
  ASSUME TypeOK, ChainInv, MessagesInv, DocumentsInv, NEW s \in Shards, NEW k, NEW ts, NEW us,
         Writes(s, k, ts, us)
  PROVE  ExecutedInv'
<1>1. PICK c : c = BlockAt(s, k)
  OBVIOUS
<1>2. k \in 1..Len(log[s]) /\ k = acked[s] + 1 /\ ~Handled(s, k) /\ IsSave(s, k) /\ log' = log
  BY DEF Writes, Current
<1>3. c \in Blocks /\ c.shard = s /\ WellFormed(c) /\ c.hash = Hash(s, k)
  BY <1>1, <1>2, MessageFacts DEF MessagesInv
<1>4. StatusInv' /\ \A r, i : BlockAt(r, i)' = BlockAt(r, i) /\ Hash(r, i)' = Hash(r, i)
  BY <1>2, SameLog, WriteOrigins
<1> SUFFICES ASSUME NEW r \in Shards, NEW i \in 1..Len(log[r]), Handled(r, i)',
                    LiveAt(r, i, Len(log[r])), NEW t \in Executed(BlockAt(r, i))
             PROVE  \/ Clobbered(r, BlockAt(r, i), t)
                    \/ Hidden(BlockAt(r, i), t)
                    \/ txs'[t] # NoDoc /\ txs'[t].block = Hash(r, i) /\ Final(txs'[t])
  <2>1. \A r, i : LiveAt(r, i, Len(log[r]))' <=> LiveAt(r, i, Len(log[r]))
    BY <1>2 DEF LiveAt, IsRevert
  <2>2. \A r, i, t : /\ Clobbered(r, BlockAt(r, i), t)' <=> Clobbered(r, BlockAt(r, i), t)
                     /\ Hidden(BlockAt(r, i), t)' <=> Hidden(BlockAt(r, i), t)
    BY <1>2 DEF Clobbered, RemovedAfter, BlockAt, Hidden, WrittenBefore
  <2> QED
    BY <1>2, <1>4, <2>1, <2>2 DEF ExecutedInv
<1>5. PICK b : b = BlockAt(r, i)
  OBVIOUS
<1>6. /\ b \in Blocks /\ b.shard = r /\ WellFormed(b) /\ b.hash = Hash(r, i)
      /\ IsSave(r, i) /\ i \in DOMAIN log[r] /\ k \in DOMAIN log[s]
  BY <1>2, <1>5, MessageFacts, ShardTypes DEF MessagesInv, LiveAt, IsSave
<1>7. /\ t \in PreparedTxs(b) /\ MbInfo[EntryOf(b, t).mb].rcv = r /\ t \in Txs
      /\ EntryOf(b, t) \in b.mbs /\ t \in MbInfo[EntryOf(b, t).mb].txs
  <2>1. t \in PreparedTxs(b) /\ MbInfo[EntryOf(b, t).mb].rcv = r
    BY <1>5, <1>6, ExecutedPrepared
  <2> QED
    BY <2>1, <1>6, PreparedRoutes
<1>8. \/ txs[t] = NoDoc /\ txs'[t] = NoDoc /\ t \notin ts
      \/ CreatesDoc(txs[t], txs'[t], c, t) /\ t \notin ts
      \/ KeepsDoc(txs[t], txs'[t], c, t)
         /\ (t \in ts => isCrossShardOnSourceShard(c, EntryOf(c, t), t))
      \/ WritesDoc(txs[t], txs'[t], c, t) /\ t \in ts
  BY <1>1, <1>7, WriteCases DEF MessagesInv
<1>9. txs'[t] # NoDoc /\ txs'[t].block = Hash(r, i) => Final(txs'[t])
  BY <1>2, <1>4, <1>7 DEF StatusInv
<1>10. CASE Handled(r, i) /\ txs[t] # NoDoc /\ txs[t].block = Hash(r, i)
  <2>1. CASE KeepsDoc(txs[t], txs'[t], c, t)
    BY <2>1, <1>9, <1>10 DEF KeepsDoc
  <2>2. CASE WritesDoc(txs[t], txs'[t], c, t)
    <3>1. t \in PreparedTxs(c) /\ ~isCrossShardOnSourceShard(c, EntryOf(c, t), t)
      BY <2>2, <1>10 DEF WritesDoc
    <3>2. CASE r = s
      <4>1. i # k /\ acked[s] \in Nat /\ Len(log[s]) \in Nat
        BY <3>2, <1>2, <1>10, ShardTypes
      <4>2. i < k
        BY <3>2, <4>1, <1>2, <1>10 DEF Handled
      <4>3. LiveAt(s, i, k)
        BY <3>2, <4>1, <4>2, <1>2, LiveBefore
      <4>4. PreparedTxs(b) \cap PreparedTxs(c) = {}
        BY <3>2, <4>2, <4>3, <1>1, <1>2, <1>5, <1>6 DEF MessagesInv, YoungestInv
      <4> QED
        BY <3>1, <4>4, <1>7
    <3>3. CASE r # s
      <4>1. \E e \in b.mbs : /\ MbInfo[e.mb].type = "InvalidBlock" /\ t \in MbInfo[e.mb].txs
                             /\ isCrossShardOnSourceShard(b, e, t)
        BY <3>1, <3>3, <1>3, <1>5, <1>6, ForeignWrite
      <4>2. Hash(r, i) # Hash(s, k)
        BY <3>3, <1>2 DEF ChainInv
      <4>3. WrittenBefore(b, t)
        <5>1. log[s][k].topic = "SaveBlock" /\ log[s][k].block = c
          BY <1>1, <1>2 DEF IsSave, BlockAt
        <5> QED
          BY <3>1, <4>2, <5>1, <1>3, <1>6 DEF WrittenBefore
      <4> QED
        BY <4>1, <4>3, <1>5 DEF Hidden
    <3> QED
      BY <3>2, <3>3
  <2>3. ~CreatesDoc(txs[t], txs'[t], c, t)
    BY <1>10 DEF CreatesDoc
  <2> QED
    BY <2>1, <2>2, <2>3, <1>8, <1>10
<1>11. CASE r = s /\ i = k /\ ts = PreparedTxs(c)
  <2>1. b = c /\ t \in ts
    BY <1>1, <1>5, <1>7, <1>11
  <2>2. CASE WritesDoc(txs[t], txs'[t], c, t)
    BY <2>2, <1>3, <1>9, <1>11 DEF WritesDoc
  <2>3. CASE KeepsDoc(txs[t], txs'[t], c, t) /\ isCrossShardOnSourceShard(c, EntryOf(c, t), t)
    <3>1. txs[t] # NoDoc /\ txs'[t] # NoDoc /\ txs'[t].block = txs[t].block
      BY <2>3 DEF KeepsDoc
    <3>2. MbInfo[EntryOf(b, t).mb].type = "InvalidBlock"
      BY <2>1, <2>3, <1>3, <1>7, <1>11 DEF isCrossShardOnSourceShard, ReceiverShard
    <3>3. PICK q \in Shards : \E j \in 1..Len(log[q]) :
            /\ IsSave(q, j)
            /\ \/ t \in StatusTxs(BlockAt(q, j))
               \/ t \in PreparedTxs(BlockAt(q, j)) /\ txs[t].block = Hash(q, j)
      BY <3>1, <1>7 DEF DocumentsInv, OriginInv
    <3>4. DOMAIN log[q] = 1..Len(log[q])
      BY ShardTypes
    <3>5. \/ txs[t].block = b.hash
          \/ WrittenBefore(b, t)
      BY <3>3, <3>4 DEF WrittenBefore, IsSave, BlockAt, Hash
    <3>6. WrittenBefore(b, t) => Hidden(b, t)
      BY <2>1, <2>3, <3>2, <1>7 DEF Hidden
    <3> QED
      BY <3>1, <3>5, <3>6, <1>5, <1>6, <1>9
  <2> QED
    BY <2>1, <2>2, <2>3, <1>8
<1>12. CASE Handled(r, i) /\ ~(txs[t] # NoDoc /\ txs[t].block = Hash(r, i))
  BY <1>12 DEF DocumentsInv, ExecutedInv
<1>13. Handled(r, i) \/ (r = s /\ i = k /\ ts = PreparedTxs(c))
  BY <1>1 DEF Writes, OnlyHandles
<1> QED
  BY <1>10, <1>11, <1>12, <1>13

(* A token transfer is sent by the shard of its sender.                    *)
LEMMA SentRoutes ==
  ASSUME NEW s \in Shards, NEW b \in Blocks, b.shard = s, WellFormed(b),
         NEW t \in Txs, SentFrom(b, t)
  PROVE  TxInfo[t].snd = s /\ TxInfo[t].rcv # s
<1>1. PICK e : e = EntryOf(b, t)
  OBVIOUS
<1>2. /\ t \in PreparedTxs(b) /\ TxInfo[t].kind = "esdt"
      /\ MbInfo[e.mb].snd # ReceiverShard(e, t) /\ MbInfo[e.mb].snd = s
  BY <1>1 DEF SentFrom, isCrossShardOnSourceShard
<1>3. /\ MbInfo[e.mb].snd = TxInfo[t].snd
      /\ MbInfo[e.mb].type \in {"TxBlock", "InvalidBlock"}
      /\ MbInfo[e.mb].type = "TxBlock" => MbInfo[e.mb].rcv = TxInfo[t].rcv
  BY <1>1, <1>2, PreparedRoutes
<1> QED
  BY <1>2, <1>3 DEF ReceiverShard

(* The fee of the source stays when the destination writes the transfer.   *)
LEMMA WriteFees ==
  ASSUME TypeOK, ChainInv, MessagesInv, DocumentsInv, NEW s \in Shards, NEW k, NEW ts, NEW us,
         Writes(s, k, ts, us)
  PROVE  FeeInv'
<1>1. PICK c : c = BlockAt(s, k)
  OBVIOUS
<1>2. k \in 1..Len(log[s]) /\ log' = log
  BY DEF Writes, Current
<1>3. c \in Blocks /\ c.shard = s /\ WellFormed(c)
  BY <1>1, <1>2, MessageFacts DEF MessagesInv
<1>4. /\ \A r, i : /\ BlockAt(r, i)' = BlockAt(r, i) /\ Hash(r, i)' = Hash(r, i)
                   /\ IsSave(r, i)' <=> IsSave(r, i)
      /\ \A t : Removed(t)' <=> Removed(t)
  BY <1>2, SameLog
<1> SUFFICES ASSUME NEW r \in Shards, NEW i \in 1..Len(log[r]), Handled(r, i)', IsSave(r, i),
                    NEW t \in Txs, SentFrom(BlockAt(r, i), t), ~Removed(t)
             PROVE  txs'[t] # NoDoc /\ txs'[t].fee = r
  BY <1>2, <1>4 DEF FeeInv
<1>5. TxInfo[t].snd = r /\ TxInfo[t].rcv # r /\ TxInfo[t].kind = "esdt"
  <2>1. BlockAt(r, i) \in Blocks /\ BlockAt(r, i).shard = r /\ WellFormed(BlockAt(r, i))
    BY MessageFacts DEF MessagesInv
  <2>2. TxInfo[t].kind = "esdt"
    BY DEF SentFrom
  <2> QED
    BY <2>1, <2>2, SentRoutes
<1>6. /\ \/ txs[t] = NoDoc /\ txs'[t] = NoDoc /\ t \notin ts
         \/ CreatesDoc(txs[t], txs'[t], c, t) /\ t \notin ts
         \/ KeepsDoc(txs[t], txs'[t], c, t)
         \/ WritesDoc(txs[t], txs'[t], c, t)
      /\ t \in ts /\ SentFrom(c, t) => txs'[t].fee = c.shard
  BY <1>1, WriteCases DEF MessagesInv
<1>7. CASE Handled(r, i)
  <2>1. txs[t] # NoDoc /\ txs[t].fee = r
    BY <1>7 DEF DocumentsInv, FeeInv
  <2>2. ~CreatesDoc(txs[t], txs'[t], c, t)
    BY <2>1 DEF CreatesDoc
  <2>3. CASE KeepsDoc(txs[t], txs'[t], c, t)
    <3>1. txs'[t] # NoDoc /\ (txs'[t].fee = txs[t].fee \/ (SentFrom(c, t) /\ txs'[t].fee = s))
      BY <2>3, <1>3 DEF KeepsDoc
    <3>2. SentFrom(c, t) => TxInfo[t].snd = s
      BY <1>3, SentRoutes
    <3> QED
      BY <2>1, <3>1, <3>2, <1>5
  <2>4. CASE WritesDoc(txs[t], txs'[t], c, t)
    <3>1. PICK f : f = EntryOf(c, t)
      OBVIOUS
    <3>2. /\ t \in PreparedTxs(c) /\ txs'[t] # NoDoc /\ ~isCrossShardOnSourceShard(c, f, t)
          /\ isSimpleESDTTransferCrossShardOnDestination(c, f, t) => txs'[t].fee = txs[t].fee
      BY <2>1, <2>4, <3>1 DEF WritesDoc
    <3>3. /\ MbInfo[f.mb].type \in {"TxBlock", "InvalidBlock"} /\ MbInfo[f.mb].snd = r
          /\ s = MbInfo[f.mb].snd \/ s = MbInfo[f.mb].rcv
          /\ MbInfo[f.mb].type = "TxBlock" => MbInfo[f.mb].rcv = TxInfo[t].rcv
          /\ MbInfo[f.mb].type = "InvalidBlock" => MbInfo[f.mb].rcv = r
      BY <3>1, <3>2, <1>3, <1>5, PreparedRoutes
    <3>4. ReceiverShard(f, t) = TxInfo[t].rcv
      BY <3>3 DEF ReceiverShard
    <3>5. s # r
      BY <3>2, <3>3, <3>4, <1>3, <1>5 DEF isCrossShardOnSourceShard
    <3>6. isSimpleESDTTransferCrossShardOnDestination(c, f, t)
      BY <3>3, <3>4, <3>5, <1>3, <1>5 DEF isSimpleESDTTransferCrossShardOnDestination
    <3> QED
      BY <2>1, <3>2, <3>6
  <2> QED
    BY <2>1, <2>2, <2>3, <2>4, <1>6
<1>8. CASE r = s /\ i = k /\ ts = PreparedTxs(c)
  <2>1. SentFrom(c, t) /\ t \in ts
    BY <1>1, <1>8 DEF SentFrom
  <2>2. txs'[t] # NoDoc
    BY <2>1, <1>6 DEF KeepsDoc, WritesDoc
  <2> QED
    BY <2>1, <2>2, <1>3, <1>6, <1>8
<1>9. Handled(r, i) \/ (r = s /\ i = k /\ ts = PreparedTxs(c))
  BY <1>1 DEF Writes, OnlyHandles
<1> QED
  BY <1>7, <1>8, <1>9

(* The outcome of a transfer to itself stays when its block is written.    *)
LEMMA WriteReports ==
  ASSUME TypeOK, ChainInv, MessagesInv, DocumentsInv, NEW s \in Shards, NEW k, NEW ts, NEW us,
         Writes(s, k, ts, us)
  PROVE  ReportInv'
<1>1. PICK c : c = BlockAt(s, k)
  OBVIOUS
<1>2. k \in 1..Len(log[s]) /\ log' = log
  BY DEF Writes, Current
<1>3. c \in Blocks /\ c.shard = s /\ WellFormed(c)
  BY <1>1, <1>2, MessageFacts DEF MessagesInv
<1>4. /\ \A r, i : BlockAt(r, i)' = BlockAt(r, i) /\ (IsSave(r, i)' <=> IsSave(r, i))
      /\ \A t : Removed(t)' <=> Removed(t)
  BY <1>2, SameLog
<1> SUFFICES ASSUME NEW r \in Shards, NEW i \in 1..Len(log[r]), Handled(r, i)', IsSave(r, i),
                    NEW t \in StatusTxs(BlockAt(r, i)), SelfTransfer(t), ~Removed(t)
             PROVE  Reports(txs'[t], BlockAt(r, i), t)
  BY <1>2, <1>4 DEF ReportInv
<1>5. t \in Txs
  <2>1. BlockAt(r, i) \in Blocks
    BY MessageFacts DEF MessagesInv
  <2> QED
    BY <2>1 DEF StatusTxs, Blocks, StatusInfos
<1>6. /\ \/ txs[t] = NoDoc
         \/ KeepsDoc(txs[t], txs'[t], c, t)
         \/ WritesDoc(txs[t], txs'[t], c, t)
      /\ t \in us => Reports(txs'[t], c, t)
  BY <1>1, <1>5, WriteCases DEF MessagesInv, CreatesDoc
<1>7. CASE Handled(r, i)
  <2>1. Reports(txs[t], BlockAt(r, i), t)
    BY <1>7 DEF DocumentsInv, ReportInv
  <2>2. txs[t] # NoDoc
    BY <2>1 DEF Reports
  <2>3. /\ txs'[t] # NoDoc
        /\ txs[t].status = "fail" => txs'[t].status = "fail"
        /\ txs[t].errorEvent => txs'[t].errorEvent
        /\ txs[t].completedEvent => txs'[t].completedEvent
    <3>1. CASE KeepsDoc(txs[t], txs'[t], c, t)
      BY <3>1 DEF KeepsDoc
    <3>2. CASE WritesDoc(txs[t], txs'[t], c, t)
      <4>1. t \in PreparedTxs(c)
        BY <3>2 DEF WritesDoc
      <4>2. isNFTTransferOrMultiTransfer(EntryOf(c, t), t)
        BY <4>1, <1>3, SelfTransfers
      <4> QED
        BY <2>2, <3>2, <4>2 DEF WritesDoc
    <3> QED
      BY <2>2, <3>1, <3>2, <1>6
  <2> QED
    BY <2>1, <2>3 DEF Reports
<1>8. CASE r = s /\ i = k /\ us = StatusTxs(c)
  BY <1>1, <1>6, <1>8
<1>9. Handled(r, i) \/ (r = s /\ i = k /\ us = StatusTxs(c))
  BY <1>1 DEF Writes, OnlyHandles
<1> QED
  BY <1>7, <1>8, <1>9

(***************************************************************************)
(* The invariant is inductive.                                             *)
(***************************************************************************)
LEMMA InitTransactions == Init => TransactionsInv
<1> SUFFICES ASSUME Init PROVE TransactionsInv
  OBVIOUS
<1>1. DeliveryInv
  BY InitDelivery
<1>2. /\ \A s \in Shards : 1..Len(log[s]) = {}
      /\ \A t \in Txs : txs[t] = NoDoc
  BY DEF Init
<1>3. MessagesInv
  BY <1>2 DEF MessagesInv, BlocksInv, YoungestInv, RevertOnceInv
<1>4. DocumentsInv
  BY <1>2 DEF DocumentsInv, OriginInv, StatusInv, PhantomInv, ExecutedInv, FeeInv, ReportInv
<1> QED
  BY <1>1, <1>3, <1>4 DEF TransactionsInv

LEMMA NextTransactions ==
  ASSUME RefreshFails = FALSE
  PROVE  TransactionsInv /\ [Next]_vars => TransactionsInv'
<1> SUFFICES ASSUME TransactionsInv, [Next]_vars PROVE TransactionsInv'
  OBVIOUS
<1>0. DeliveryInv'
  BY NextDelivery DEF TransactionsInv
<1>1. TypeOK /\ ChainInv /\ IdleInv /\ MessagesInv /\ DocumentsInv
  BY DEF TransactionsInv, DeliveryInv
<1>2. ASSUME log' = log
      PROVE  MessagesInv'
  <2>1. /\ \A r, i : /\ BlockAt(r, i)' = BlockAt(r, i) /\ Hash(r, i)' = Hash(r, i)
                     /\ IsSave(r, i)' <=> IsSave(r, i)
        /\ \A r, i, n : LiveAt(r, i, n)' <=> LiveAt(r, i, n)
    BY <1>2, SameLog
  <2>2. BlocksInv'
    BY <2>1, <1>1, <1>2 DEF MessagesInv, BlocksInv
  <2>3. YoungestInv'
    BY <2>1, <1>1, <1>2 DEF MessagesInv, YoungestInv
  <2>4. RevertOnceInv'
    BY <2>1, <1>1, <1>2 DEF MessagesInv, RevertOnceInv
  <2> QED
    BY <2>2, <2>3, <2>4 DEF MessagesInv
<1>3. ASSUME NEW s \in Shards, Observer(s)
      PROVE  MessagesInv' /\ DocumentsInv'
  <2>1. PICK msg \in Messages : Appends(s, msg)
    BY <1>1, <1>3, ObserverAppends DEF MessagesInv
  <2> QED
    BY <2>1, <1>1, AppendMessagesInv, AppendDocuments
<1>4. ASSUME NEW s \in Shards, Handler(s)
      PROVE  MessagesInv' /\ DocumentsInv'
  <2>1. PICK k \in 1..Len(log[s]) :
          \/ \E ts, us : Writes(s, k, ts, us)
          \/ \E removed : Removes(s, k, removed)
          \/ Leaves(s, k)
    BY <1>1, <1>4, HandlerMoves
  <2>2. ASSUME NEW ts, NEW us, Writes(s, k, ts, us)
        PROVE  log' = log /\ DocumentsInv'
    <3>1. log' = log
      BY <2>2 DEF Writes
    <3>2. OriginInv' /\ StatusInv'
      BY <2>2, <1>1, WriteOrigins
    <3>3. PhantomInv' /\ ExecutedInv'
      BY <2>2, <1>1, WritePhantoms, WriteExecuted
    <3>4. FeeInv' /\ ReportInv'
      BY <2>2, <1>1, WriteFees, WriteReports
    <3> QED
      BY <3>1, <3>2, <3>3, <3>4 DEF DocumentsInv
  <2>3. ASSUME NEW removed, Removes(s, k, removed)
        PROVE  log' = log /\ DocumentsInv'
    BY <2>3, <1>1, RemoveDocuments DEF Removes
  <2>4. ASSUME Leaves(s, k)
        PROVE  log' = log /\ DocumentsInv'
    BY <2>4, <1>1, LeaveDocuments DEF Leaves
  <2> QED
    BY <2>1, <2>2, <2>3, <2>4, <1>2
<1>5. ASSUME UNCHANGED vars
      PROVE  MessagesInv' /\ DocumentsInv'
  <2>1. UNCHANGED <<log, acked, pc, txs, rewritten>>
    BY <1>5 DEF vars
  <2>2. DocumentsInv'
    BY <2>1, <1>1 DEF DocumentsInv, OriginInv, StatusInv, PhantomInv, ExecutedInv, FeeInv,
           ReportInv, Handled, BlockAt, Hash, IsSave, LiveAt, IsRevert, Removed, Clobbered,
           RemovedAfter, Hidden, WrittenBefore
  <2> QED
    BY <2>1, <2>2, <1>2
<1>6. MessagesInv' /\ DocumentsInv'
  BY <1>3, <1>4, <1>5 DEF Next
<1> QED
  BY <1>0, <1>6 DEF TransactionsInv
-----------------------------------------------------------------------------
(***************************************************************************)
(* The theorems.                                                           *)
(***************************************************************************)
(* A drained shard has handled all its messages.                           *)
LEMMA DrainedHandled ==
  ASSUME TypeOK, NEW s \in Shards, Drained(s), NEW i \in 1..Len(log[s])
  PROVE  Handled(s, i)
BY ShardTypes DEF Drained, Handled

(* What a block of the chain of a drained shard executed has a document    *)
(* that names the block and an outcome, whatever the other observers have  *)
(* sent by then, unless a revert removed it or an invalid transaction was  *)
(* hidden by what another block wrote.                                     *)
THEOREM ExecutionsAreIndexed ==
  ASSUME RefreshFails = FALSE
  PROVE  Spec => []ExecutedTxIndexed
<1>1. ASSUME TransactionsInv
      PROVE  ExecutedTxIndexed
  <2>1. TypeOK /\ ExecutedInv
    BY <1>1 DEF TransactionsInv, DeliveryInv, DocumentsInv
  <2> SUFFICES ASSUME NEW s \in Shards, Drained(s), NEW b \in Chain(s), NEW t \in Executed(b)
               PROVE  \/ Clobbered(s, b, t)
                      \/ Hidden(b, t)
                      \/ /\ txs[t] # NoDoc
                         /\ txs[t].block = b.hash
                         /\ txs[t].status \notin {"", "pending"}
    BY DEF ExecutedTxIndexed
  <2>2. DOMAIN log[s] = 1..Len(log[s])
    BY <2>1, ShardTypes
  <2>3. PICK i \in 1..Len(log[s]) : b = BlockAt(s, i) /\ LiveAt(s, i, Len(log[s]))
    BY <2>2 DEF Chain, BlockAt
  <2>4. Handled(s, i)
    BY <2>1, DrainedHandled
  <2>5. Hash(s, i) = b.hash
    BY <2>3 DEF Hash, BlockAt
  <2> QED
    BY <2>1, <2>3, <2>4, <2>5 DEF ExecutedInv, Final
<1> QED
  BY <1>1, InitTransactions, NextTransactions, PTL DEF Spec

(* A document of a drained shard reports an execution by a block that was  *)
(* reverted only if another handler wrote the document while the revert    *)
(* was deleting it, although the requests of the revert may be repeated    *)
(* and interleaved with the writes of other shards.                        *)
THEOREM NoPhantomExecutions ==
  ASSUME RefreshFails = FALSE
  PROVE  Spec => []NoPhantomExecution
<1>1. ASSUME TransactionsInv
      PROVE  NoPhantomExecution
  <2>1. TypeOK /\ BlocksInv /\ PhantomInv
    BY <1>1 DEF TransactionsInv, DeliveryInv, DocumentsInv, MessagesInv
  <2> SUFFICES ASSUME NEW s \in Shards, Drained(s), NEW i \in DOMAIN log[s],
                      log[s][i].topic = "SaveBlock", BlockAt(s, i) \notin Chain(s),
                      NEW t \in Executed(BlockAt(s, i)), txs[t] # NoDoc
               PROVE  txs[t].block # Hash(s, i) \/ <<Hash(s, i), t>> \in rewritten
    BY DEF NoPhantomExecution, BlockAt, Hash
  <2>2. i \in 1..Len(log[s]) /\ Len(log[s]) \in Nat
    BY <2>1, ShardTypes
  <2>3. ~LiveAt(s, i, Len(log[s]))
    BY <2>1, <2>2, LiveInChain
  <2>4. PICK j \in (i + 1)..Len(log[s]) : IsRevert(log[s][j], log[s][i].block.hash)
    BY <2>2, <2>3 DEF LiveAt
  <2>5. j \in 1..Len(log[s]) /\ ~IsSave(s, j) /\ Hash(s, j) = Hash(s, i)
    BY <2>2, <2>4 DEF IsRevert, IsSave, Hash
  <2>6. BlockAt(s, j) = BlockAt(s, i)
    BY <2>1, <2>2, <2>5 DEF BlocksInv
  <2>7. Handled(s, j)
    BY <2>1, <2>5, DrainedHandled
  <2> QED
    BY <2>1, <2>5, <2>6, <2>7 DEF PhantomInv
<1> QED
  BY <1>1, InitTransactions, NextTransactions, PTL DEF Spec

(* The fee of a token transfer between shards is the one that the source   *)
(* computed, in whichever order the two observers are heard, from the      *)
(* acknowledgement of the source's block to a revert that removes it.      *)
THEOREM FeesAreFromSource ==
  ASSUME RefreshFails = FALSE
  PROVE  Spec => []SimpleESDTFeeFromSource
<1>1. ASSUME TransactionsInv
      PROVE  SimpleESDTFeeFromSource
  <2>1. TypeOK /\ BlocksInv /\ FeeInv
    BY <1>1 DEF TransactionsInv, DeliveryInv, DocumentsInv, MessagesInv
  <2> SUFFICES ASSUME NEW s \in Shards, NEW i \in 1..acked[s], log[s][i].topic = "SaveBlock",
                      NEW t \in PreparedTxs(BlockAt(s, i)), TxInfo[t].kind = "esdt",
                      isCrossShardOnSourceShard(BlockAt(s, i), EntryOf(BlockAt(s, i), t), t)
               PROVE  Removed(t) \/ (txs[t] # NoDoc /\ txs[t].fee = s)
    BY DEF SimpleESDTFeeFromSource, BlockAt
  <2>2. i \in 1..Len(log[s]) /\ Handled(s, i) /\ IsSave(s, i)
    BY <2>1, ShardTypes DEF Handled, IsSave
  <2>3. t \in Txs
    BY <2>1, <2>2, MessageFacts, PreparedRoutes
  <2>4. SentFrom(BlockAt(s, i), t)
    BY DEF SentFrom
  <2> QED
    BY <2>1, <2>2, <2>3, <2>4 DEF FeeInv
<1> QED
  BY <1>1, InitTransactions, NextTransactions, PTL DEF Spec

(* What a block reported about an NFT transfer stays in the document from  *)
(* the acknowledgement of the block on, whichever block of whichever shard *)
(* writes the document before, after or in between.                        *)
THEOREM ReportsAreKept ==
  ASSUME RefreshFails = FALSE
  PROVE  Spec => []ReportedStatusKept
<1>1. ASSUME TransactionsInv
      PROVE  ReportedStatusKept
  <2>1. TypeOK /\ ReportInv
    BY <1>1 DEF TransactionsInv, DeliveryInv, DocumentsInv
  <2> SUFFICES ASSUME NEW r \in Shards, NEW i \in 1..acked[r], log[r][i].topic = "SaveBlock",
                      NEW t \in StatusTxs(BlockAt(r, i)), SelfTransfer(t)
               PROVE  Removed(t) \/ Reports(txs[t], BlockAt(r, i), t)
    BY DEF ReportedStatusKept, Reports, BlockAt
  <2>2. i \in 1..Len(log[r]) /\ Handled(r, i) /\ IsSave(r, i)
    BY <2>1, ShardTypes DEF Handled, IsSave
  <2> QED
    BY <2>1, <2>2 DEF ReportInv
<1> QED
  BY <1>1, InitTransactions, NextTransactions, PTL DEF Spec
-----------------------------------------------------------------------------
(***************************************************************************)
(* The index "miniblocks".  While the sender of a miniblock has reverted   *)
(* no block with it, it saved the miniblock once, or scheduled it and then *)
(* processed it (SentOnce), and the two halves of the document follow the  *)
(* messages whose miniblocks were written (Halves).  A revert of the       *)
(* sender deletes the document, and the invariant says nothing after it.   *)
(***************************************************************************)
\* Block b holds miniblock m; message i of s saves such a block, and how.
Holds(b, m) == \E e \in b.mbs : e.mb = m
SavesMb(s, i, m) == IsSave(s, i) /\ Holds(BlockAt(s, i), m)
ProcessingType(s, i, m) == EntryFor(BlockAt(s, i), m).procType

\* The miniblocks of message i of s were written.
WroteMbs(s, i) ==
  \/ i <= acked[s]
  \/ i = acked[s] + 1 /\ pc[s] \in {"transactions", "accounts", "ack"}

\* A later block has a higher hash.
OrderInv ==
  \A s \in Shards : \A i, j \in 1..Len(log[s]) :
    i < j /\ IsSave(s, i) /\ IsSave(s, j) => Hash(s, i) < Hash(s, j)

\* While no block of the sender that held m was reverted, the sender saved at most
\* two: one that scheduled m and one that processed it.
SentOnce(m) ==
  LET s == MbInfo[m].snd IN
  /\ \A i, j \in 1..Len(log[s]) : i < j /\ SavesMb(s, i, m) /\ SavesMb(s, j, m) =>
       ProcessingType(s, i, m) = "Scheduled" /\ ProcessingType(s, j, m) = "Processed"
  /\ \A j \in 1..Len(log[s]) : SavesMb(s, j, m) /\ ProcessingType(s, j, m) = "Processed" =>
       \E i \in 1..Len(log[s]) : i < j /\ SavesMb(s, i, m) /\ ProcessingType(s, i, m) = "Scheduled"

\* The sender's half names the block that sent or scheduled m.
SenderHalf(m, doc) ==
  LET s == MbInfo[m].snd IN
  \A i \in 1..Len(log[s]) :
    WroteMbs(s, i) /\ SavesMb(s, i, m) /\ ProcessingType(s, i, m) # "Processed" =>
      doc # NoDoc /\ doc.senderBlockHash = Hash(s, i)

\* The receiver's half names a block of the receiver, none of those written is
\* younger.
CrossHalf(m, doc) ==
  LET r == MbInfo[m].rcv IN
  /\ r \in Shards => \A i \in 1..Len(log[r]) : WroteMbs(r, i) /\ SavesMb(r, i, m) =>
       doc # NoDoc /\ Hash(r, i) <= doc.receiverBlockHash
  /\ doc # NoDoc /\ doc.receiverBlockHash # NoHash =>
       r \in Shards /\ \E j \in 1..Len(log[r]) : SavesMb(r, j, m) /\ Hash(r, j) = doc.receiverBlockHash

\* In one shard the receiver's half names the block that executed m; a document
\* that was written before the handler failed already has the same hash.
IntraHalf(m, doc) ==
  LET s == MbInfo[m].snd IN
  /\ \A i \in 1..Len(log[s]) :
       WroteMbs(s, i) /\ SavesMb(s, i, m) /\ ProcessingType(s, i, m) # "Scheduled" =>
         doc # NoDoc /\ doc.receiverBlockHash = Hash(s, i)
  /\ doc # NoDoc => \E i \in 1..Len(log[s]) :
       /\ SavesMb(s, i, m) /\ ProcessingType(s, i, m) # "Processed"
       /\ ProcessingType(s, i, m) # "Scheduled" => doc.receiverBlockHash = Hash(s, i)

Halves(m, doc) ==
  /\ SenderHalf(m, doc)
  /\ IF IsCrossShard(m) THEN CrossHalf(m, doc) ELSE IntraHalf(m, doc)

MiniblocksInv ==
  \A m \in Miniblocks : MbInfo[m].snd \in Shards =>
    Reverted(MbInfo[m].snd, m) \/ (SentOnce(m) /\ Halves(m, miniblocks[m]))

HalvesInv == TypeOK /\ ChainInv /\ IdleInv /\ MessagesInv /\ OrderInv /\ MiniblocksInv
-----------------------------------------------------------------------------
(* The entries of a well-formed block: a miniblock has one, and the shard  *)
(* that sends it says how.                                                 *)
LEMMA MiniblockEntry ==
  ASSUME NEW s \in Shards, NEW b \in Blocks, b.shard = s, WellFormed(b), NEW e \in b.mbs
  PROVE  /\ e \in Entries /\ e.mb \in Miniblocks /\ EntryFor(b, e.mb) = e
         /\ \A f \in b.mbs : f.mb = e.mb => f = e
         /\ HasBody(b)
         /\ MbInfo[e.mb].snd = s =>
              \/ e.procType = "Normal" /\ e.state = "Final"
              \/ /\ ~IsCrossShard(e.mb)
                 /\ \/ e.procType = "Scheduled" /\ e.state = "Proposed"
                    \/ e.procType = "Processed" /\ e.state = "Final"
<1>1. PICK content \in Contents[s] : b.mbs = content.mbs
  BY DEF WellFormed
<1>2. e \in Entries /\ e.mb \in Miniblocks
  BY DEF Blocks, Entries
<1>3. \A f \in b.mbs : f.mb = e.mb => f = e
  BY <1>1, HeaderAssumption
<1>4. EntryFor(b, e.mb) = e
  BY <1>3 DEF EntryFor
<1>5. HasBody(b)
  BY <1>1, HeaderAssumption DEF HasBody
<1> QED
  BY <1>1, <1>2, <1>3, <1>4, <1>5, HeaderAssumption

(* What the scripted upsert of a miniblock does to its document.           *)
MbEffect(stored, new, b, e) ==
  /\ new # NoDoc
  /\ MbInfo[e.mb].snd = b.shard /\ e.procType # "Processed" =>
       /\ new.senderBlockHash = b.hash
       /\ stored # NoDoc => new.receiverBlockHash = stored.receiverBlockHash
       /\ stored = NoDoc => new.receiverBlockHash =
            IF IsCrossShard(e.mb) \/ e.procType = "Scheduled" THEN NoHash ELSE b.hash
  /\ MbInfo[e.mb].snd # b.shard \/ e.procType = "Processed" =>
       /\ new.receiverBlockHash = b.hash
       /\ stored # NoDoc => new.senderBlockHash = stored.senderBlockHash

LEMMA MiniblockScriptCases ==
  ASSUME NEW s \in Shards, NEW b \in Blocks, b.shard = s, WellFormed(b), NEW e \in b.mbs,
         MbInfo[e.mb].snd = s \/ MbInfo[e.mb].rcv = s, NEW stored \in MbDocs \cup {NoDoc}
  PROVE  MbEffect(stored, MiniblockScript(stored, b, e), b, e)
<1>0. PICK new, mb : new = MiniblockScript(stored, b, e) /\ mb = prepareMiniblockForDB(b, e)
  OBVIOUS
<1> SUFFICES MbEffect(stored, new, b, e)
  BY <1>0
<1>1. /\ e \in Entries /\ e.mb \in Miniblocks
      /\ MbInfo[e.mb].snd = s =>
           \/ e.procType = "Normal" /\ e.state = "Final"
           \/ /\ ~IsCrossShard(e.mb)
              /\ \/ e.procType = "Scheduled" /\ e.state = "Proposed"
                 \/ e.procType = "Processed" /\ e.state = "Final"
  BY MiniblockEntry
<1>2. new # NoDoc /\ mb \in MbDocs
  BY <1>0, <1>1, PreparedMiniblockType, MiniblockScriptType, NoMbDocAssumption
<1>3. CASE MbInfo[e.mb].snd = s
  <2>1. mb = setFieldsMBIntraShardAndCrossFromMe(b, e)
    BY <1>0, <1>3 DEF prepareMiniblockForDB
  <2>2. CASE e.procType = "Normal"
    <3>1. /\ mb.senderBlockHash = b.hash /\ mb.procTypeD # "Processed"
          /\ mb.receiverBlockHash = IF IsCrossShard(e.mb) THEN NoHash ELSE b.hash
      BY <1>1, <1>3, <2>1, <2>2 DEF setFieldsMBIntraShardAndCrossFromMe, EmptyMbDoc
    <3>2. new = IF stored = NoDoc THEN mb
                ELSE [stored EXCEPT !.senderBlockHash = mb.senderBlockHash,
                                    !.procTypeS = mb.procTypeS]
      BY <1>0, <1>3, <3>1 DEF MiniblockScript
    <3> QED
      BY <1>2, <1>3, <2>2, <3>1, <3>2 DEF MbEffect, MbDocs
  <2>3. CASE e.procType = "Scheduled"
    <3>1. /\ mb.senderBlockHash = b.hash /\ mb.procTypeD # "Processed"
          /\ mb.receiverBlockHash = NoHash
      BY <1>1, <1>3, <2>1, <2>3 DEF setFieldsMBIntraShardAndCrossFromMe, EmptyMbDoc
    <3>2. new = IF stored = NoDoc THEN mb
                ELSE [stored EXCEPT !.senderBlockHash = mb.senderBlockHash,
                                    !.procTypeS = mb.procTypeS]
      BY <1>0, <1>3, <3>1 DEF MiniblockScript
    <3> QED
      BY <1>2, <1>3, <2>3, <3>1, <3>2 DEF MbEffect, MbDocs
  <2>4. CASE e.procType = "Processed"
    <3>1. mb.receiverBlockHash = b.hash /\ mb.procTypeD = "Processed"
      BY <1>1, <1>3, <2>1, <2>4 DEF setFieldsMBIntraShardAndCrossFromMe, EmptyMbDoc
    <3>2. new = IF stored = NoDoc THEN mb
                ELSE [stored EXCEPT !.receiverBlockHash = mb.receiverBlockHash,
                                    !.procTypeD = mb.procTypeD]
      BY <1>0, <1>3, <3>1 DEF MiniblockScript
    <3> QED
      BY <1>2, <1>3, <2>4, <3>1, <3>2 DEF MbEffect, MbDocs
  <2> QED
    BY <1>1, <1>3, <2>2, <2>3, <2>4
<1>4. CASE MbInfo[e.mb].snd # s
  <2>1. mb = [EmptyMbDoc EXCEPT !.receiverBlockHash = b.hash, !.procTypeD = e.procType]
    BY <1>0, <1>4 DEF prepareMiniblockForDB, IsCrossShard
  <2>2. mb.receiverBlockHash = b.hash
    BY <2>1 DEF EmptyMbDoc
  <2>3. new = IF stored = NoDoc THEN mb
              ELSE [stored EXCEPT !.receiverBlockHash = mb.receiverBlockHash,
                                  !.procTypeD = mb.procTypeD]
    BY <1>0, <1>4 DEF MiniblockScript
  <2> QED
    BY <1>2, <1>4, <2>2, <2>3 DEF MbEffect, MbDocs
<1> QED
  BY <1>3, <1>4

(***************************************************************************)
(* The moves of a handler, as the index "miniblocks" sees them.            *)
(***************************************************************************)
\* The miniblocks of no message but, if done, of message k of s become written.
OnlyWrites(s, k, done) ==
  \A r \in Shards : \A i \in 1..Len(log[r]) :
    WroteMbs(r, i)' => WroteMbs(r, i) \/ (r = s /\ i = k /\ done)

\* The request of SaveMiniblocks writes the entries es.
WritesMbs(s, k, es) ==
  /\ k = acked[s] + 1 /\ IsSave(s, k) /\ log' = log
  /\ es \subseteq PrepareDBMiniblocks(BlockAt(s, k))
  /\ miniblocks' = IndexMiniblocks(miniblocks, BlockAt(s, k), es)
  /\ OnlyWrites(s, k, es = PrepareDBMiniblocks(BlockAt(s, k)))

\* Any other request deletes at most the documents that a revert names.
KeepsMbs(s, k, removed) ==
  /\ log' = log
  /\ removed # {} => ~IsSave(s, k) /\ removed \subseteq GetMiniblocksHashesHexEncoded(BlockAt(s, k))
  /\ \A m \in Miniblocks : m \notin removed => miniblocks'[m] = miniblocks[m]
  /\ OnlyWrites(s, k, IsSave(s, k) => ~HasBody(BlockAt(s, k)))

(* A request that leads the handler of s to a step.                        *)
LEMMA RequestWrites ==
  ASSUME TypeOK, NEW s \in Shards, NEW k, k = acked[s] + 1, NEW step, NEW done,
         UNCHANGED <<log, acked>>, pc' = [pc EXCEPT ![s] = step],
         step \in {"transactions", "accounts", "ack"} => done \/ WroteMbs(s, k)
  PROVE  OnlyWrites(s, k, done)
<1> SUFFICES ASSUME NEW r \in Shards, NEW i \in 1..Len(log[r]), WroteMbs(r, i)'
             PROVE  WroteMbs(r, i) \/ (r = s /\ i = k /\ done)
  BY DEF OnlyWrites
<1>1. CASE r = s
  <2>1. pc'[s] = step
    BY DEF TypeOK
  <2> QED
    BY <1>1, <2>1 DEF WroteMbs
<1>2. CASE r # s
  <2>1. pc'[r] = pc[r]
    BY <1>2 DEF TypeOK
  <2> QED
    BY <1>2, <2>1 DEF WroteMbs
<1> QED
  BY <1>1, <1>2

(* Every step of a handler is one of the moves.                            *)
LEMMA MiniblockMoves ==
  ASSUME TypeOK, NEW s \in Shards, Handler(s)
  PROVE  \E k \in 1..Len(log[s]) :
           (\E es : WritesMbs(s, k, es)) \/ (\E removed : KeepsMbs(s, k, removed))
<1>1. Pending(s)
  BY DEF Handler, ProcessPayload, SaveHeader, SaveMiniblocks, SaveTransactions, RemoveHeader,
         RemoveMiniblocks, RemoveTransactions, RemoveAccountsESDT, Acknowledge, LoseAck, At
<1>2. PICK k \in 1..Len(log[s]) : k = acked[s] + 1
  BY <1>1, ShardTypes
<1>3. Message(s) = log[s][k] /\ Block(s) = BlockAt(s, k)
      /\ (Message(s).topic = "SaveBlock" <=> IsSave(s, k))
      /\ (Message(s).topic = "RevertIndexedBlock" => ~IsSave(s, k))
  BY <1>2 DEF Message, Block, BlockAt, IsSave
<1>4. k \in Nat /\ acked[s] \in Nat /\ ~(k <= acked[s])
  BY <1>2, ShardTypes
<1>5. WroteMbs(s, k) <=> pc[s] \in {"transactions", "accounts", "ack"}
  BY <1>2, <1>4 DEF WroteMbs
<1>6. CASE SaveMiniblocks(s)
  <2>1. IsSave(s, k) /\ UNCHANGED <<log, acked>>
    BY <1>3, <1>6 DEF SaveMiniblocks, At, chainVars
  <2>2. CASE miniblocks' = IndexMiniblocks(miniblocks, Block(s), PrepareDBMiniblocks(Block(s)))
             /\ Continue(s, "transactions")
    <3>1. OnlyWrites(s, k, TRUE)
      BY <1>2, <2>1, <2>2, RequestWrites DEF Continue
    <3> QED
      BY <1>2, <1>3, <2>1, <2>2, <3>1 DEF WritesMbs, OnlyWrites
  <2>3. ASSUME NEW es \in SUBSET PrepareDBMiniblocks(Block(s)),
               miniblocks' = IndexMiniblocks(miniblocks, Block(s), es), Fail(s)
        PROVE  WritesMbs(s, k, es)
    <3>1. OnlyWrites(s, k, FALSE)
      BY <1>2, <2>1, <2>3, RequestWrites DEF Fail
    <3> QED
      BY <1>2, <1>3, <2>1, <2>3, <3>1 DEF WritesMbs, OnlyWrites
  <2> QED
    BY <1>6, <2>2, <2>3 DEF SaveMiniblocks
<1>7. CASE RemoveMiniblocks(s)
  <2>1. ~IsSave(s, k) /\ UNCHANGED <<log, acked>>
    BY <1>3, <1>7 DEF RemoveMiniblocks, At, chainVars
  <2>2. PICK removed : /\ removed \subseteq GetMiniblocksHashesHexEncoded(BlockAt(s, k))
                       /\ miniblocks' = Without(miniblocks, removed)
    BY <1>3, <1>7 DEF RemoveMiniblocks, Removable
  <2>3. \A m \in Miniblocks : m \notin removed => miniblocks'[m] = miniblocks[m]
    BY <2>2 DEF Without, TypeOK
  <2>4. \E step : pc' = [pc EXCEPT ![s] = step]
    BY <1>7 DEF RemoveMiniblocks, Continue, Fail
  <2>5. OnlyWrites(s, k, TRUE)
    BY <1>2, <2>1, <2>4, RequestWrites
  <2> QED
    BY <2>1, <2>2, <2>3, <2>5 DEF KeepsMbs, OnlyWrites
<1>8. CASE Acknowledge(s)
  <2>1. /\ pc[s] = "ack" /\ pc' = [pc EXCEPT ![s] = "idle"]
        /\ acked' = [acked EXCEPT ![s] = @ + 1] /\ UNCHANGED <<log, miniblocks>>
    BY <1>8 DEF Acknowledge, Continue, chainVars
  <2>2. ASSUME NEW r \in Shards, NEW i \in 1..Len(log[r]), WroteMbs(r, i)'
        PROVE  WroteMbs(r, i)
    <3>1. CASE r = s
      <4>1. pc'[s] = "idle" /\ acked'[s] = k
        BY <2>1, <1>2 DEF TypeOK
      <4>2. i <= k
        BY <2>2, <3>1, <4>1 DEF WroteMbs
      <4> QED
        BY <2>1, <3>1, <4>2, <1>2, <1>4 DEF WroteMbs
    <3>2. CASE r # s
      <4>1. pc'[r] = pc[r] /\ acked'[r] = acked[r]
        BY <2>1, <3>2 DEF TypeOK
      <4> QED
        BY <2>2, <4>1 DEF WroteMbs
    <3> QED
      BY <3>1, <3>2
  <2>3. KeepsMbs(s, k, {})
    BY <1>2, <2>1, <2>2 DEF KeepsMbs, OnlyWrites
  <2> QED
    BY <2>3
<1>9. CASE SaveHeader(s)
  <2>1. IsSave(s, k) /\ UNCHANGED <<log, acked, miniblocks>>
    BY <1>3, <1>9 DEF SaveHeader, At, chainVars
  <2>2. \E step : /\ pc' = [pc EXCEPT ![s] = step]
                  /\ step \in {"transactions", "accounts", "ack"} => ~HasBody(Block(s))
    BY <1>9 DEF SaveHeader, Continue, Fail
  <2>3. OnlyWrites(s, k, ~HasBody(Block(s)))
    BY <1>2, <2>1, <2>2, RequestWrites
  <2>4. KeepsMbs(s, k, {})
    BY <1>3, <2>1, <2>3 DEF KeepsMbs, OnlyWrites
  <2> QED
    BY <2>4
<1>10. CASE ProcessPayload(s) \/ SaveTransactions(s) \/ RemoveHeader(s) \/ RemoveTransactions(s)
            \/ RemoveAccountsESDT(s) \/ LoseAck(s)
  <2>1. UNCHANGED <<log, acked, miniblocks>>
    BY <1>10 DEF ProcessPayload, SaveTransactions, RemoveHeader, RemoveTransactions,
           RemoveAccountsESDT, LoseAck, chainVars
  <2>2. \E step : /\ pc' = [pc EXCEPT ![s] = step]
                  /\ step \in {"transactions", "accounts", "ack"} =>
                       pc[s] \in {"transactions", "accounts", "ack"}
    BY <1>10 DEF ProcessPayload, SaveTransactions, RemoveHeader, RemoveTransactions,
           RemoveAccountsESDT, LoseAck, Continue, Fail, At
  <2>3. OnlyWrites(s, k, FALSE)
    BY <1>2, <1>5, <2>1, <2>2, RequestWrites
  <2>4. KeepsMbs(s, k, {})
    BY <2>1, <2>3 DEF KeepsMbs, OnlyWrites
  <2> QED
    BY <2>4
<1> QED
  BY <1>6, <1>7, <1>8, <1>9, <1>10 DEF Handler

(* A handler is idle when it has nothing to handle.                        *)
LEMMA NextIdle ==
  ASSUME TypeOK, ChainInv, BlocksInv, IdleInv, [Next]_vars
  PROVE  IdleInv'
<1>1. ASSUME NEW s \in Shards, Observer(s)
      PROVE  IdleInv'
  <2>1. PICK msg \in Messages : Appends(s, msg)
    BY <1>1, ObserverAppends
  <2>2. \A r \in Shards : /\ Len(log[r]) \in Nat /\ Len(log'[r]) \in Nat
                          /\ Len(log[r]) <= Len(log'[r]) /\ acked[r] \in Nat
    BY <2>1, AppendKeeps, ShardTypes DEF Appends
  <2> QED
    BY <2>1, <2>2 DEF Appends, IdleInv, Pending
<1>2. ASSUME NEW s \in Shards, Handler(s)
      PROVE  IdleInv'
  <2>1. CASE Acknowledge(s)
    BY <2>1 DEF Acknowledge, Continue, chainVars, IdleInv, Pending, TypeOK
  <2>2. CASE ~Acknowledge(s)
    <3>1. /\ Pending(s) /\ UNCHANGED <<log, acked>>
          /\ \E step : pc' = [pc EXCEPT ![s] = step]
      BY <1>2, <2>2 DEF Handler, ProcessPayload, SaveHeader, SaveMiniblocks, SaveTransactions,
             RemoveHeader, RemoveMiniblocks, RemoveTransactions, RemoveAccountsESDT, LoseAck, At,
             Continue, Fail, chainVars
    <3> QED
      BY <3>1 DEF IdleInv, Pending, TypeOK
  <2> QED
    BY <2>1, <2>2
<1>3. CASE UNCHANGED vars
  BY <1>3 DEF vars, IdleInv, Pending
<1> QED
  BY <1>1, <1>2, <1>3 DEF Next
-----------------------------------------------------------------------------
(***************************************************************************)
(* What the observer appends.                                              *)
(***************************************************************************)
(* A new block has the highest hash of its shard.                          *)
LEMMA AppendOrder ==
  ASSUME TypeOK, OrderInv, NEW s \in Shards, NEW msg \in Messages, Appends(s, msg)
  PROVE  OrderInv'
<1> SUFFICES ASSUME NEW r \in Shards, NEW i \in 1..Len(log'[r]), NEW j \in 1..Len(log'[r]),
                    i < j, IsSave(r, i)', IsSave(r, j)'
             PROVE  Hash(r, i)' < Hash(r, j)'
  BY DEF OrderInv
<1>1. log' = [log EXCEPT ![s] = Append(@, msg)]
  BY DEF Appends
<1>2. i \in 1..Len(log[r])
  BY <1>1, AppendKeeps
<1>3. Hash(r, i)' = Hash(r, i) /\ IsSave(r, i)' = IsSave(r, i)
  BY <1>1, <1>2, AppendKeeps
<1>4. CASE j \in 1..Len(log[r])
  BY <1>1, <1>2, <1>3, <1>4, AppendKeeps DEF OrderInv
<1>5. CASE r = s /\ j = Len(log[s]) + 1
  <2>1. log'[s][j] = msg
    BY <1>1, <1>5, AppendMessage
  <2> QED
    BY <2>1, <1>2, <1>3, <1>5 DEF Appends, IsSave, Hash
<1> QED
  BY <1>1, <1>4, <1>5, AppendKeeps

(* A block of the chain is one of the saved ones.                          *)
LEMMA ChainIndex ==
  ASSUME TypeOK, NEW s \in Shards, NEW b \in Chain(s)
  PROVE  \E i \in 1..Len(log[s]) :
           b = BlockAt(s, i) /\ IsSave(s, i) /\ LiveAt(s, i, Len(log[s]))
<1>1. DOMAIN log[s] = 1..Len(log[s])
  BY ShardTypes
<1>2. PICK i \in 1..Len(log[s]) : b = BlockAt(s, i) /\ LiveAt(s, i, Len(log[s]))
  BY <1>1 DEF Chain, BlockAt
<1> QED
  BY <1>2 DEF LiveAt, IsSave

(* While no block of s that held m was reverted, all of them are in the    *)
(* chain.                                                                  *)
LEMMA HoldingSaves ==
  ASSUME TypeOK, BlocksInv, NEW s \in Shards, NEW m, ~Reverted(s, m)
  PROVE  /\ \A i \in 1..Len(log[s]) : SavesMb(s, i, m) => BlockAt(s, i) \in Holding(s, m)
         /\ \A b \in Holding(s, m) :
              \E i \in 1..Len(log[s]) : b = BlockAt(s, i) /\ SavesMb(s, i, m)
<1>1. ASSUME NEW i \in 1..Len(log[s]), SavesMb(s, i, m)
      PROVE  BlockAt(s, i) \in Holding(s, m)
  <2>1. ASSUME NEW j \in (i + 1)..Len(log[s]), IsRevert(log[s][j], log[s][i].block.hash)
        PROVE  FALSE
    <3>1. j \in 1..Len(log[s]) /\ j \in DOMAIN log[s]
      BY <2>1, ShardTypes
    <3>2. Hash(s, j) = Hash(s, i) /\ log[s][j].topic = "RevertIndexedBlock"
      BY <2>1 DEF IsRevert, Hash
    <3>3. BlockAt(s, j) = BlockAt(s, i)
      BY <3>1, <3>2 DEF BlocksInv
    <3>4. log[s][j].block.hash > NoHash
      BY <3>1, MessageFacts DEF Hash, Hashes, NoHash
    <3>5. \E e \in log[s][j].block.mbs : e.mb = m
      BY <1>1, <3>3 DEF SavesMb, Holds, BlockAt
    <3> QED
      BY <3>1, <3>2, <3>4, <3>5 DEF Reverted, RevertedAfter
  <2>2. LiveAt(s, i, Len(log[s]))
    BY <2>1, <1>1 DEF LiveAt, SavesMb, IsSave
  <2>3. BlockAt(s, i) \in Chain(s)
    BY <2>2, LiveInChain
  <2> QED
    BY <2>3, <1>1 DEF Holding, SavesMb, Holds
<1>2. ASSUME NEW b \in Holding(s, m)
      PROVE  \E i \in 1..Len(log[s]) : b = BlockAt(s, i) /\ SavesMb(s, i, m)
  <2>1. b \in Chain(s) /\ Holds(b, m)
    BY DEF Holding, Holds
  <2> QED
    BY <2>1, ChainIndex DEF SavesMb
<1> QED
  BY <1>1, <1>2

(* The messages said before are as they were.                              *)
LEMMA AppendSaves ==
  ASSUME TypeOK, NEW s \in Shards, NEW msg \in Messages, Appends(s, msg), NEW m,
         NEW r \in Shards
  PROVE  /\ \A i \in 1..Len(log[r]) :
              /\ i \in 1..Len(log'[r])
              /\ SavesMb(r, i, m)' <=> SavesMb(r, i, m)
              /\ ProcessingType(r, i, m)' = ProcessingType(r, i, m)
              /\ Hash(r, i)' = Hash(r, i)
         /\ Reverted(r, m) => Reverted(r, m)'
<1>1. log' = [log EXCEPT ![s] = Append(@, msg)]
  BY DEF Appends
<1>2. ASSUME NEW i \in 1..Len(log[r])
      PROVE  /\ i \in 1..Len(log'[r])
             /\ SavesMb(r, i, m)' <=> SavesMb(r, i, m)
             /\ ProcessingType(r, i, m)' = ProcessingType(r, i, m)
             /\ Hash(r, i)' = Hash(r, i)
  <2>1. /\ i \in 1..Len(log'[r]) /\ BlockAt(r, i)' = BlockAt(r, i)
        /\ Hash(r, i)' = Hash(r, i) /\ IsSave(r, i)' = IsSave(r, i)
    BY <1>1, AppendKeeps
  <2> QED
    BY <2>1 DEF SavesMb, Holds, ProcessingType, EntryFor
<1>3. /\ DOMAIN log[r] = 1..Len(log[r]) /\ DOMAIN log'[r] = 1..Len(log'[r])
      /\ \A i \in 1..Len(log[r]) : i \in 1..Len(log'[r]) /\ log'[r][i] = log[r][i]
  BY <1>1, AppendKeeps, AppendMessage, ShardTypes
<1> QED
  BY <1>2, <1>3 DEF Reverted, RevertedAfter

(* Appending a message writes nothing.                                     *)
LEMMA AppendWrites ==
  ASSUME TypeOK, IdleInv, NEW s \in Shards, NEW msg \in Messages, Appends(s, msg),
         NEW r \in Shards, NEW i \in 1..Len(log'[r]), WroteMbs(r, i)'
  PROVE  i \in 1..Len(log[r]) /\ WroteMbs(r, i)
<1>1. UNCHANGED <<acked, pc>> /\ log' = [log EXCEPT ![s] = Append(@, msg)]
  BY DEF Appends
<1>2. WroteMbs(r, i)
  BY <1>1 DEF WroteMbs
<1>3. acked[r] \in Nat /\ acked[r] <= Len(log[r]) /\ Len(log[r]) \in Nat
      /\ (Pending(r) => acked[r] + 1 \in 1..Len(log[r]))
  BY ShardTypes
<1>4. i \in Nat /\ i >= 1
  BY <1>1, AppendKeeps
<1>5. CASE i <= acked[r]
  BY <1>2, <1>3, <1>4, <1>5
<1>6. CASE i = acked[r] + 1 /\ pc[r] \in {"transactions", "accounts", "ack"}
  <2>1. Pending(r)
    BY <1>6 DEF IdleInv
  <2> QED
    BY <2>1, <1>2, <1>3, <1>6
<1> QED
  BY <1>2, <1>5, <1>6 DEF WroteMbs

(* A shard sends a miniblock once: MayHold looks at its chain, which holds *)
(* every block that was saved with the miniblock.                          *)
LEMMA AppendSentOnce ==
  ASSUME TypeOK, BlocksInv, NEW s \in Shards, NEW msg \in Messages, Appends(s, msg),
         NEW m \in Miniblocks, MbInfo[m].snd \in Shards,
         ~Reverted(MbInfo[m].snd, m), SentOnce(m)
  PROVE  SentOnce(m)'
<1> DEFINE q == MbInfo[m].snd
<1>0. PICK n \in Nat : n = Len(log[q])
  BY ShardTypes
<1>1. /\ log' = [log EXCEPT ![s] = Append(@, msg)]
      /\ \A i \in 1..Len(log'[q]) : i \in 1..n \/ (q = s /\ i = n + 1)
  BY <1>0, AppendKeeps DEF Appends
<1>2. \A i \in 1..n : /\ i \in 1..Len(log'[q])
                      /\ SavesMb(q, i, m)' <=> SavesMb(q, i, m)
                      /\ ProcessingType(q, i, m)' = ProcessingType(q, i, m)
  BY <1>0, AppendSaves
<1>3. /\ \A i, j \in 1..n : i < j /\ SavesMb(q, i, m) /\ SavesMb(q, j, m) =>
           ProcessingType(q, i, m) = "Scheduled" /\ ProcessingType(q, j, m) = "Processed"
      /\ \A j \in 1..n : SavesMb(q, j, m) /\ ProcessingType(q, j, m) = "Processed" =>
           \E i \in 1..n : i < j /\ SavesMb(q, i, m) /\ ProcessingType(q, i, m) = "Scheduled"
  BY <1>0 DEF SentOnce
<1>4. ASSUME q = s, SavesMb(q, n + 1, m)'
      PROVE  \/ /\ ProcessingType(q, n + 1, m)' # "Processed"
                /\ \A i \in 1..n : ~SavesMb(q, i, m)
             \/ /\ ProcessingType(q, n + 1, m)' = "Processed"
                /\ \A i \in 1..n : SavesMb(q, i, m) => ProcessingType(q, i, m) # "Processed"
                /\ \E i \in 1..n : SavesMb(q, i, m) /\ ProcessingType(q, i, m) = "Scheduled"
  <2>0. log'[s][Len(log[s]) + 1] = msg
    BY <1>1, AppendMessage
  <2>1. log'[q][n + 1] = msg
    BY <1>0, <1>4, <2>0
  <2>2. msg.topic = "SaveBlock" /\ Holds(msg.block, m) /\ BlockAt(q, n + 1)' = msg.block
    BY <2>1, <1>4 DEF SavesMb, IsSave, BlockAt, Holds
  <2>3. PICK e \in msg.block.mbs : e.mb = m
    BY <2>2 DEF Holds
  <2>4. MayHold(s, e) /\ msg.block \in Blocks /\ msg.block.shard = s /\ WellFormed(msg.block)
    BY <2>2, <2>3 DEF Appends, Messages
  <2>5. EntryFor(msg.block, m) = e
    BY <2>3, <2>4, MiniblockEntry
  <2>6. ProcessingType(q, n + 1, m)' = e.procType
    BY <2>2, <2>5 DEF ProcessingType, EntryFor
  <2>7. /\ \A i \in 1..n : SavesMb(q, i, m) => BlockAt(q, i) \in Holding(q, m)
        /\ \A b \in Holding(q, m) :
             \E i \in 1..n : b = BlockAt(q, i) /\ SavesMb(q, i, m)
    BY <1>0, HoldingSaves
  <2>8. CASE e.procType = "Processed"
    <3>1. /\ \E b \in Holding(q, m) : EntryFor(b, m).procType = "Scheduled"
          /\ \A b \in Holding(q, m) : EntryFor(b, m).procType # "Processed"
      BY <1>4, <2>3, <2>4, <2>8 DEF MayHold
    <3> QED
      BY <2>6, <2>7, <2>8, <3>1 DEF ProcessingType
  <2>9. CASE e.procType # "Processed"
    <3>1. Holding(q, m) = {}
      BY <1>4, <2>3, <2>4, <2>9 DEF MayHold
    <3> QED
      BY <2>6, <2>7, <2>9, <3>1
  <2> QED
    BY <2>8, <2>9
<1>5. ASSUME NEW i \in 1..Len(log'[q]), NEW j \in 1..Len(log'[q]), i < j,
             SavesMb(q, i, m)', SavesMb(q, j, m)'
      PROVE  ProcessingType(q, i, m)' = "Scheduled" /\ ProcessingType(q, j, m)' = "Processed"
  <2>1. i \in 1..n
    BY <1>1, <1>5
  <2>2. CASE j \in 1..n
    BY <2>1, <2>2, <1>2, <1>3, <1>5
  <2>3. CASE q = s /\ j = n + 1
    <3>1. SavesMb(q, i, m)
      BY <2>1, <1>2, <1>5
    <3>2. /\ ProcessingType(q, j, m)' = "Processed" /\ ProcessingType(q, i, m) # "Processed"
          /\ \E k \in 1..n : SavesMb(q, k, m) /\ ProcessingType(q, k, m) = "Scheduled"
      BY <2>1, <2>3, <3>1, <1>4, <1>5
    <3>3. PICK k \in 1..n : SavesMb(q, k, m) /\ ProcessingType(q, k, m) = "Scheduled"
      BY <3>2
    <3>4. ProcessingType(q, i, m) = "Scheduled"
      <4>1. CASE k = i
        BY <3>3, <4>1
      <4>2. CASE k < i
        BY <2>1, <3>1, <3>2, <3>3, <4>2, <1>3
      <4>3. CASE i < k
        BY <2>1, <3>1, <3>3, <4>3, <1>3
      <4> QED
        BY <2>1, <4>1, <4>2, <4>3
    <3> QED
      BY <2>1, <3>2, <3>4, <1>2
  <2> QED
    BY <2>2, <2>3, <1>1
<1>6. ASSUME NEW j \in 1..Len(log'[q]), SavesMb(q, j, m)', ProcessingType(q, j, m)' = "Processed"
      PROVE  \E i \in 1..Len(log'[q]) :
               i < j /\ SavesMb(q, i, m)' /\ ProcessingType(q, i, m)' = "Scheduled"
  <2>1. \E i \in 1..n : i < j /\ SavesMb(q, i, m) /\ ProcessingType(q, i, m) = "Scheduled"
    <3>1. CASE j \in 1..n
      BY <3>1, <1>2, <1>3, <1>6
    <3>2. CASE q = s /\ j = n + 1
      BY <3>2, <1>0, <1>4, <1>6
    <3> QED
      BY <3>1, <3>2, <1>1
  <2> QED
    BY <2>1, <1>2
<1> QED
  BY <1>5, <1>6 DEF SentOnce

LEMMA AppendMiniblocks ==
  ASSUME TypeOK, IdleInv, BlocksInv, MiniblocksInv,
         NEW s \in Shards, NEW msg \in Messages, Appends(s, msg)
  PROVE  MiniblocksInv'
<1> SUFFICES ASSUME NEW m \in Miniblocks, MbInfo[m].snd \in Shards,
                    ~Reverted(MbInfo[m].snd, m)'
             PROVE  SentOnce(m)' /\ Halves(m, miniblocks[m])'
  BY DEF MiniblocksInv
<1> DEFINE q == MbInfo[m].snd
           r == MbInfo[m].rcv
<1>1. ~Reverted(q, m)
  BY AppendSaves
<1>2. SentOnce(m) /\ Halves(m, miniblocks[m])
  BY <1>1 DEF MiniblocksInv
<1>3. SentOnce(m)'
  BY <1>1, <1>2, AppendSentOnce
<1>4. miniblocks'[m] = miniblocks[m]
  BY DEF Appends
<1>5. \A p \in Shards : \A i \in 1..Len(log[p]) :
        /\ i \in 1..Len(log'[p])
        /\ SavesMb(p, i, m)' <=> SavesMb(p, i, m)
        /\ ProcessingType(p, i, m)' = ProcessingType(p, i, m)
        /\ Hash(p, i)' = Hash(p, i)
  BY AppendSaves
<1>6. \A p \in Shards : \A i \in 1..Len(log'[p]) :
        WroteMbs(p, i)' => i \in 1..Len(log[p]) /\ WroteMbs(p, i)
  BY AppendWrites
<1>7. SenderHalf(m, miniblocks[m])'
  BY <1>2, <1>4, <1>5, <1>6 DEF Halves, SenderHalf
<1>8. IsCrossShard(m) => CrossHalf(m, miniblocks[m])'
  BY <1>2, <1>4, <1>5, <1>6 DEF Halves, CrossHalf
<1>9. ~IsCrossShard(m) => IntraHalf(m, miniblocks[m])'
  BY <1>2, <1>4, <1>5, <1>6 DEF Halves, IntraHalf
<1> QED
  BY <1>3, <1>7, <1>8, <1>9 DEF Halves
-----------------------------------------------------------------------------
(***************************************************************************)
(* What the handlers do.                                                   *)
(***************************************************************************)
(* A step of a handler leaves the messages alone.                          *)
LEMMA SameSaves ==
  ASSUME log' = log
  PROVE  /\ \A s, i, m : /\ SavesMb(s, i, m)' <=> SavesMb(s, i, m)
                         /\ ProcessingType(s, i, m)' = ProcessingType(s, i, m)
                         /\ Hash(s, i)' = Hash(s, i)
         /\ \A s, m : Reverted(s, m)' <=> Reverted(s, m)
         /\ \A m : SentOnce(m)' <=> SentOnce(m)
         /\ OrderInv' <=> OrderInv
BY DEF SavesMb, IsSave, BlockAt, Holds, ProcessingType, EntryFor, Hash, Reverted, RevertedAfter,
       SentOnce, OrderInv

(* The document stays, and of the messages of the two shards that save a   *)
(* block with the miniblock none becomes written.                          *)
LEMMA SameHalves ==
  ASSUME NEW m \in Miniblocks, MbInfo[m].snd \in Shards, log' = log, Halves(m, miniblocks[m]),
         miniblocks'[m] = miniblocks[m],
         \A r \in Shards \cap {MbInfo[m].snd, MbInfo[m].rcv} : \A i \in 1..Len(log[r]) :
           SavesMb(r, i, m) /\ WroteMbs(r, i)' => WroteMbs(r, i)
  PROVE  Halves(m, miniblocks[m])'
<1>1. \A r, i : /\ SavesMb(r, i, m)' <=> SavesMb(r, i, m)
                /\ ProcessingType(r, i, m)' = ProcessingType(r, i, m)
                /\ Hash(r, i)' = Hash(r, i)
  BY SameSaves
<1>2. SenderHalf(m, miniblocks[m])'
  BY <1>1 DEF Halves, SenderHalf
<1>3. IsCrossShard(m) => CrossHalf(m, miniblocks[m])'
  BY <1>1 DEF Halves, CrossHalf
<1>4. ~IsCrossShard(m) => IntraHalf(m, miniblocks[m])'
  BY <1>1 DEF Halves, IntraHalf
<1> QED
  BY <1>2, <1>3, <1>4 DEF Halves

(* Other requests: the document of a miniblock whose sender reverts no     *)
(* block with it is not removed.                                           *)
LEMMA KeepMiniblocks ==
  ASSUME TypeOK, BlocksInv, MiniblocksInv, NEW s \in Shards, NEW k \in 1..Len(log[s]),
         NEW removed, KeepsMbs(s, k, removed)
  PROVE  MiniblocksInv'
<1>1. log' = log
  BY DEF KeepsMbs
<1> SUFFICES ASSUME NEW m \in Miniblocks, MbInfo[m].snd \in Shards,
                    ~Reverted(MbInfo[m].snd, m)
             PROVE  SentOnce(m)' /\ Halves(m, miniblocks[m])'
  BY <1>1, SameSaves DEF MiniblocksInv
<1> DEFINE b == BlockAt(s, k)
<1>2. SentOnce(m) /\ Halves(m, miniblocks[m])
  BY DEF MiniblocksInv
<1>3. b \in Blocks /\ b.shard = s /\ WellFormed(b) /\ Hash(s, k) \in Hashes
      /\ b.hash = Hash(s, k) /\ (~IsSave(s, k) => log[s][k].topic = "RevertIndexedBlock")
  BY MessageFacts
<1>4. m \notin removed
  <2> SUFFICES ASSUME m \in removed PROVE FALSE
    OBVIOUS
  <2>1. ~IsSave(s, k) /\ m \in GetMiniblocksHashesHexEncoded(b)
    BY DEF KeepsMbs
  <2>2. PICK e \in b.mbs : /\ e.mb = m /\ MbInfo[m].type # "PeerBlock"
                           /\ ~(IsCrossShard(m) /\ MbInfo[m].rcv = s)
    BY <2>1, <1>3 DEF GetMiniblocksHashesHexEncoded
  <2>3. MbInfo[m].snd = s
    BY <2>2, <1>3, WellFormedBlock DEF Participates, IsCrossShard
  <2>4. k \in DOMAIN log[s] /\ log[s][k].block.hash > NoHash
    BY <1>3, ShardTypes DEF Hash, Hashes, NoHash
  <2> QED
    BY <1>3, <2>1, <2>2, <2>3, <2>4 DEF Reverted, RevertedAfter, BlockAt
<1>5. miniblocks'[m] = miniblocks[m]
  BY <1>4 DEF KeepsMbs
<1>6. \A r \in Shards : \A i \in 1..Len(log[r]) :
        WroteMbs(r, i)' => WroteMbs(r, i) \/ (r = s /\ i = k /\ (IsSave(s, k) => ~HasBody(b)))
  BY DEF KeepsMbs, OnlyWrites
<1>7. SavesMb(s, k, m) => IsSave(s, k) /\ HasBody(b)
  BY <1>3, MiniblockEntry DEF SavesMb, Holds
<1>8. Halves(m, miniblocks[m])'
  BY <1>1, <1>2, <1>5, <1>6, <1>7, SameHalves
<1> QED
  BY <1>1, <1>2, <1>8, SameSaves

(* The request of SaveMiniblocks writes the half of its shard.  The sender *)
(* writes its half once, or when it schedules the miniblock and, as the    *)
(* receiver's half, when it processes it; of the blocks of the receiver    *)
(* the last one stays.                                                     *)
LEMMA WriteMiniblocks ==
  ASSUME TypeOK, BlocksInv, OrderInv, MiniblocksInv, NEW s \in Shards,
         NEW k \in 1..Len(log[s]), NEW es, WritesMbs(s, k, es)
  PROVE  MiniblocksInv'
<1>1. log' = log
  BY DEF WritesMbs
<1> SUFFICES ASSUME NEW m \in Miniblocks, MbInfo[m].snd \in Shards,
                    ~Reverted(MbInfo[m].snd, m)
             PROVE  SentOnce(m)' /\ Halves(m, miniblocks[m])'
  BY <1>1, SameSaves DEF MiniblocksInv
<1> DEFINE b == BlockAt(s, k)
           q == MbInfo[m].snd
<1>2. SentOnce(m) /\ Halves(m, miniblocks[m])
  BY DEF MiniblocksInv
<1>3. b \in Blocks /\ b.shard = s /\ WellFormed(b) /\ b.hash = Hash(s, k)
  BY MessageFacts
<1>4. /\ \A r, i : /\ SavesMb(r, i, m)' <=> SavesMb(r, i, m)
                   /\ ProcessingType(r, i, m)' = ProcessingType(r, i, m)
                   /\ Hash(r, i)' = Hash(r, i)
      /\ SentOnce(m)'
  BY <1>1, <1>2, SameSaves
<1>5. \A r \in Shards : \A i \in 1..Len(log[r]) :
        WroteMbs(r, i)' => WroteMbs(r, i) \/ (r = s /\ i = k)
  BY DEF WritesMbs, OnlyWrites
<1>6. k \in Nat /\ k = acked[s] + 1 /\ acked[s] \in Nat /\ IsSave(s, k)
  BY ShardTypes DEF WritesMbs
<1>7. CASE ~\E e \in es : e.mb = m
  <2>1. miniblocks'[m] = miniblocks[m]
    BY <1>7 DEF WritesMbs, IndexMiniblocks
  <2>2. SavesMb(s, k, m) /\ WroteMbs(s, k)' => WroteMbs(s, k) \/ s \notin {q, MbInfo[m].rcv}
    <3> SUFFICES ASSUME SavesMb(s, k, m), es = PrepareDBMiniblocks(b)
                 PROVE  s \notin {q, MbInfo[m].rcv}
      BY DEF WritesMbs, OnlyWrites
    <3>1. PICK e \in b.mbs : e.mb = m
      BY DEF SavesMb, Holds
    <3>2. MbInfo[m].rcv = AllShards /\ s # MetaShard
      BY <1>3, <1>7, <3>1 DEF PrepareDBMiniblocks
    <3> QED
      BY <3>2, MiniblockAssumption
  <2>3. Halves(m, miniblocks[m])'
    BY <1>1, <1>2, <1>5, <2>1, <2>2, SameHalves
  <2> QED
    BY <1>4, <2>3
<1>8. CASE \E e \in es : e.mb = m
  <2> DEFINE doc == miniblocks[m]
             new == miniblocks'[m]
  <2>1. PICK e \in es : e.mb = m /\ new = MiniblockScript(doc, b, e)
    BY <1>8 DEF WritesMbs, IndexMiniblocks
  <2>2. e \in b.mbs /\ (MbInfo[m].rcv = AllShards => s = MetaShard)
    BY <1>3, <2>1 DEF WritesMbs, PrepareDBMiniblocks
  <2>3. s = q \/ s = MbInfo[m].rcv
    <3>1. s \in {q, MbInfo[m].rcv} \/ MbInfo[m].rcv = AllShards
      BY <1>3, <2>1, <2>2, WellFormedBlock DEF Participates
    <3> QED
      BY <2>2, <3>1, MiniblockAssumption
  <2>4. doc \in MbDocs \cup {NoDoc}
    BY DEF TypeOK
  <2>5. MbEffect(doc, new, b, e)
    BY <1>3, <2>1, <2>2, <2>3, <2>4, MiniblockScriptCases
  <2>6. /\ SavesMb(s, k, m) /\ ProcessingType(s, k, m) = e.procType
        /\ s = q => e.procType \in {"Normal", "Scheduled", "Processed"}
        /\ s = q /\ IsCrossShard(m) => e.procType = "Normal"
    <3>1. EntryFor(b, m) = e
      BY <1>3, <2>1, <2>2, MiniblockEntry
    <3> QED
      BY <1>3, <1>6, <2>1, <2>2, <3>1, MiniblockEntry DEF SavesMb, Holds, ProcessingType
  <2> HIDE DEF doc, new
  <2>7. CASE s = q
    <3>1. ASSUME NEW i \in 1..Len(log[q]), SavesMb(q, i, m), i # k
          PROVE  /\ i < k => ProcessingType(q, i, m) = "Scheduled" /\ e.procType = "Processed"
                 /\ k < i => e.procType = "Scheduled" /\ ~WroteMbs(q, i)
                 /\ i < k \/ k < i
      <4>1. k < i => ~WroteMbs(q, i)
        BY <1>6, <2>7 DEF WroteMbs
      <4> QED
        BY <1>2, <1>6, <2>6, <2>7, <3>1, <4>1 DEF SentOnce
    <3>2. CASE e.procType # "Processed"
      <4>1. new # NoDoc /\ new.senderBlockHash = Hash(q, k)
        BY <1>3, <2>1, <2>5, <2>7, <3>2 DEF MbEffect
      <4>2. ASSUME NEW i \in 1..Len(log[q]), SavesMb(q, i, m), WroteMbs(q, i)'
            PROVE  i = k
        BY <1>5, <2>7, <3>1, <3>2, <4>2
      <4>3. SenderHalf(m, miniblocks[m])'
        BY <1>1, <1>4, <4>1, <4>2 DEF SenderHalf, new
      <4>4. CASE IsCrossShard(m)
        <5>1. CrossHalf(m, doc)
          BY <1>2, <4>4 DEF Halves, doc
        <5>2. new.receiverBlockHash = IF doc = NoDoc THEN NoHash ELSE doc.receiverBlockHash
          BY <1>3, <2>1, <2>5, <2>7, <3>2, <4>4 DEF MbEffect
        <5>3. MbInfo[m].rcv # s
          BY <2>7, <4>4 DEF IsCrossShard
        <5>4. CrossHalf(m, miniblocks[m])'
          BY <1>1, <1>4, <1>5, <4>1, <5>1, <5>2, <5>3 DEF CrossHalf, new
        <5> QED
          BY <1>4, <4>3, <4>4, <5>4 DEF Halves
      <4>5. CASE ~IsCrossShard(m)
        <5>1. IntraHalf(m, doc)
          BY <1>2, <4>5 DEF Halves, doc
        <5>2. ASSUME e.procType # "Scheduled"
              PROVE  new.receiverBlockHash = Hash(q, k)
          <6>1. CASE doc = NoDoc
            BY <1>3, <2>1, <2>5, <2>7, <3>2, <4>5, <5>2, <6>1 DEF MbEffect
          <6>2. CASE doc # NoDoc
            <7>1. PICK i \in 1..Len(log[q]) :
                     /\ SavesMb(q, i, m) /\ ProcessingType(q, i, m) # "Processed"
                     /\ ProcessingType(q, i, m) # "Scheduled" =>
                          doc.receiverBlockHash = Hash(q, i)
              BY <5>1, <6>2 DEF IntraHalf
            <7>2. i = k
              BY <3>1, <3>2, <5>2, <7>1
            <7> QED
              BY <1>3, <2>1, <2>5, <2>6, <2>7, <3>2, <5>2, <6>2, <7>1, <7>2 DEF MbEffect
          <6> QED
            BY <6>1, <6>2
        <5>3. IntraHalf(m, miniblocks[m])'
          BY <1>1, <1>4, <2>6, <2>7, <3>2, <4>1, <4>2, <5>2 DEF IntraHalf, new
        <5> QED
          BY <1>4, <4>3, <4>5, <5>3 DEF Halves
      <4> QED
        BY <4>4, <4>5
    <3>3. CASE e.procType = "Processed"
      <4>0. ~IsCrossShard(m)
        BY <2>6, <2>7, <3>3
      <4>1. PICK j \in 1..Len(log[q]) :
               j < k /\ SavesMb(q, j, m) /\ ProcessingType(q, j, m) = "Scheduled"
        BY <1>2, <2>6, <2>7, <3>3 DEF SentOnce
      <4>2. WroteMbs(q, j)
        BY <1>6, <2>7, <4>1 DEF WroteMbs
      <4>3. doc # NoDoc /\ SenderHalf(m, doc)
        BY <1>2, <4>1, <4>2 DEF Halves, SenderHalf, doc
      <4>4. /\ new # NoDoc /\ new.receiverBlockHash = Hash(q, k)
            /\ new.senderBlockHash = doc.senderBlockHash
        BY <1>3, <2>1, <2>5, <2>7, <3>3, <4>3 DEF MbEffect
      <4>5. SenderHalf(m, miniblocks[m])'
        BY <1>1, <1>4, <1>5, <2>6, <2>7, <3>3, <4>3, <4>4 DEF SenderHalf, new
      <4>6. IntraHalf(m, miniblocks[m])'
        BY <1>1, <1>4, <2>7, <3>1, <3>3, <4>1, <4>4 DEF IntraHalf, new
      <4> QED
        BY <1>4, <4>0, <4>5, <4>6 DEF Halves
    <3> QED
      BY <3>2, <3>3
  <2>8. CASE s # q
    <3>1. s = MbInfo[m].rcv /\ IsCrossShard(m)
      BY <2>3, <2>8 DEF IsCrossShard
    <3>2. /\ new # NoDoc /\ new.receiverBlockHash = Hash(s, k)
          /\ doc # NoDoc => new.senderBlockHash = doc.senderBlockHash
      BY <1>3, <2>1, <2>5, <2>8 DEF MbEffect
    <3>3. SenderHalf(m, doc)
      BY <1>2 DEF Halves, doc
    <3>4. SenderHalf(m, miniblocks[m])'
      BY <1>1, <1>4, <1>5, <2>8, <3>2, <3>3 DEF SenderHalf, new
    <3>5. ASSUME NEW i \in 1..Len(log[s]), SavesMb(s, i, m), WroteMbs(s, i)'
          PROVE  Hash(s, i) <= Hash(s, k)
      <4>1. i <= k
        BY <1>5, <1>6, <3>5 DEF WroteMbs
      <4>2. Hash(s, i) \in Nat /\ Hash(s, k) \in Nat
        BY ShardTypes
      <4>3. i < k => Hash(s, i) < Hash(s, k)
        BY <1>6, <3>5 DEF OrderInv, SavesMb
      <4> QED
        BY <4>1, <4>2, <4>3, <1>6
    <3>6. CrossHalf(m, miniblocks[m])'
      BY <1>1, <1>4, <2>6, <3>1, <3>2, <3>5 DEF CrossHalf, new
    <3> QED
      BY <1>4, <3>1, <3>4, <3>6 DEF Halves
  <2> QED
    BY <2>7, <2>8
<1> QED
  BY <1>7, <1>8

(* The invariant is inductive.                                             *)
LEMMA InitHalves == Init => HalvesInv
<1> SUFFICES ASSUME Init PROVE HalvesInv
  OBVIOUS
<1>1. TypeOK /\ ChainInv /\ IdleInv /\ MessagesInv
  BY InitTransactions DEF TransactionsInv, DeliveryInv
<1>2. /\ \A s \in Shards : 1..Len(log[s]) = {}
      /\ \A m \in Miniblocks : miniblocks[m] = NoDoc
  BY DEF Init
<1>3. MiniblocksInv
  BY <1>2 DEF MiniblocksInv, SentOnce, Halves, SenderHalf, CrossHalf, IntraHalf
<1> QED
  BY <1>1, <1>2, <1>3 DEF HalvesInv, OrderInv

LEMMA NextHalves == HalvesInv /\ [Next]_vars => HalvesInv'
<1> SUFFICES ASSUME HalvesInv, [Next]_vars PROVE HalvesInv'
  OBVIOUS
<1>1. TypeOK /\ ChainInv /\ IdleInv /\ MessagesInv /\ BlocksInv /\ OrderInv /\ MiniblocksInv
  BY DEF HalvesInv, MessagesInv
<1>2. TypeOK' /\ ChainInv' /\ IdleInv'
  BY <1>1, NextType, NextIdle
<1>3. ASSUME NEW s \in Shards, Observer(s)
      PROVE  MessagesInv' /\ OrderInv' /\ MiniblocksInv'
  <2>1. PICK msg \in Messages : Appends(s, msg)
    BY <1>1, <1>3, ObserverAppends
  <2> QED
    BY <2>1, <1>1, AppendMessagesInv, AppendOrder, AppendMiniblocks
<1>4. ASSUME log' = log
      PROVE  MessagesInv' /\ OrderInv'
  <2>1. /\ \A r, i : /\ BlockAt(r, i)' = BlockAt(r, i) /\ Hash(r, i)' = Hash(r, i)
                     /\ IsSave(r, i)' <=> IsSave(r, i)
        /\ \A r, i, n : LiveAt(r, i, n)' <=> LiveAt(r, i, n)
    BY <1>4, SameLog
  <2>2. BlocksInv'
    BY <2>1, <1>1, <1>4 DEF BlocksInv
  <2>3. YoungestInv'
    BY <2>1, <1>1, <1>4 DEF MessagesInv, YoungestInv
  <2>4. RevertOnceInv'
    BY <2>1, <1>1, <1>4 DEF MessagesInv, RevertOnceInv
  <2> QED
    BY <2>2, <2>3, <2>4, <1>1, <1>4, SameSaves DEF MessagesInv
<1>5. ASSUME NEW s \in Shards, Handler(s)
      PROVE  log' = log /\ MiniblocksInv'
  <2>1. PICK k \in 1..Len(log[s]) :
          (\E es : WritesMbs(s, k, es)) \/ (\E removed : KeepsMbs(s, k, removed))
    BY <1>1, <1>5, MiniblockMoves
  <2>2. ASSUME NEW es, WritesMbs(s, k, es)
        PROVE  log' = log /\ MiniblocksInv'
    BY <2>2, <1>1, WriteMiniblocks DEF WritesMbs
  <2>3. ASSUME NEW removed, KeepsMbs(s, k, removed)
        PROVE  log' = log /\ MiniblocksInv'
    BY <2>3, <1>1, KeepMiniblocks DEF KeepsMbs
  <2> QED
    BY <2>1, <2>2, <2>3
<1>6. ASSUME UNCHANGED vars
      PROVE  log' = log /\ MiniblocksInv'
  <2>1. UNCHANGED <<log, acked, pc, miniblocks>>
    BY <1>6 DEF vars
  <2> QED
    BY <2>1, <1>1, SameSaves DEF MiniblocksInv, Halves, SenderHalf, CrossHalf, IntraHalf, WroteMbs
<1> QED
  BY <1>1, <1>2, <1>3, <1>4, <1>5, <1>6 DEF Next, HalvesInv

(* A block of the chain that holds a miniblock, as a message whose         *)
(* miniblocks are written.                                                 *)
LEMMA ChainEntry ==
  ASSUME TypeOK, BlocksInv, NEW s \in Shards, Drained(s), NEW b \in Chain(s), NEW e \in b.mbs
  PROVE  \E i \in 1..Len(log[s]) :
           /\ b = BlockAt(s, i) /\ b.hash = Hash(s, i) /\ b.shard = s
           /\ LiveAt(s, i, Len(log[s])) /\ WroteMbs(s, i)
           /\ SavesMb(s, i, e.mb) /\ ProcessingType(s, i, e.mb) = e.procType
<1>1. PICK i \in 1..Len(log[s]) : b = BlockAt(s, i) /\ IsSave(s, i) /\ LiveAt(s, i, Len(log[s]))
  BY ChainIndex
<1>2. b \in Blocks /\ b.shard = s /\ WellFormed(b) /\ b.hash = Hash(s, i)
  BY <1>1, MessageFacts
<1>3. EntryFor(b, e.mb) = e
  BY <1>2, MiniblockEntry
<1>4. WroteMbs(s, i)
  BY ShardTypes DEF Drained, WroteMbs
<1> QED
  BY <1>1, <1>2, <1>3, <1>4 DEF SavesMb, Holds, ProcessingType

(* Once everything is acknowledged, the document of a miniblock names the  *)
(* blocks of the chain that send and receive it, in whichever order the    *)
(* observers of the two shards were served, for any number of shards,      *)
(* failures and repetitions, also when refreshes fail.                     *)
THEOREM MiniblockHalvesMeet == Spec => []MiniblockHalvesConverge
<1>1. ASSUME HalvesInv
      PROVE  MiniblockHalvesConverge
  <2>0. TypeOK /\ ChainInv /\ BlocksInv /\ MiniblocksInv
    BY <1>1 DEF HalvesInv, MessagesInv
  <2> SUFFICES ASSUME \A s \in Shards : Drained(s), NEW m \in Miniblocks,
                      SenderBlocks(m) # {}, ~Reverted(MbInfo[m].snd, m)
               PROVE  /\ miniblocks[m] # NoDoc
                      /\ miniblocks[m].senderBlockHash \in {b.hash : b \in SenderBlocks(m)}
                      /\ ReceiverBlocks(m) # {} =>
                           \/ /\ miniblocks[m].receiverBlockHash \in {b.hash : b \in ReceiverBlocks(m)}
                              /\ \A b \in ReceiverBlocks(m) :
                                   b.hash <= miniblocks[m].receiverBlockHash
                           \/ \A b \in ReceiverBlocks(m) : RevertedAfter(MbInfo[m].rcv, m, b.hash)
    BY DEF MiniblockHalvesConverge
  <2> DEFINE q == MbInfo[m].snd
             r == MbInfo[m].rcv
             doc == miniblocks[m]
  <2>1. PICK b \in SenderBlocks(m) : TRUE
    OBVIOUS
  <2>2. PICK p \in Shards : b \in Chain(p) /\ b.shard = q
    BY DEF SenderBlocks
  <2>3. PICK e \in b.mbs : e.mb = m /\ e.procType # "Processed"
    BY DEF SenderBlocks
  <2>4. PICK i \in 1..Len(log[p]) :
          /\ b = BlockAt(p, i) /\ b.hash = Hash(p, i) /\ b.shard = p
          /\ WroteMbs(p, i) /\ SavesMb(p, i, m) /\ ProcessingType(p, i, m) = e.procType
    BY <2>0, <2>2, <2>3, ChainEntry
  <2>5. q \in Shards /\ p = q
    BY <2>2, <2>4
  <2>6. SentOnce(m) /\ Halves(m, doc)
    BY <2>0, <2>5 DEF MiniblocksInv
  <2>7. doc # NoDoc /\ doc.senderBlockHash = b.hash
    BY <2>3, <2>4, <2>5, <2>6 DEF Halves, SenderHalf
  <2>8. ASSUME ReceiverBlocks(m) # {}, IsCrossShard(m)
        PROVE  \/ /\ doc.receiverBlockHash \in {c.hash : c \in ReceiverBlocks(m)}
                  /\ \A c \in ReceiverBlocks(m) : c.hash <= doc.receiverBlockHash
               \/ \A c \in ReceiverBlocks(m) : RevertedAfter(r, m, c.hash)
    <3>1. ASSUME NEW c \in ReceiverBlocks(m)
          PROVE  /\ r \in Shards
                 /\ \E j \in 1..Len(log[r]) :
                      /\ c = BlockAt(r, j) /\ c.hash = Hash(r, j) /\ SavesMb(r, j, m)
                      /\ LiveAt(r, j, Len(log[r]))
                      /\ Hash(r, j) <= doc.receiverBlockHash
      <4>1. PICK w \in Shards, f \in c.mbs : c \in Chain(w) /\ f.mb = m /\ c.shard = r
        BY <2>8 DEF ReceiverBlocks
      <4>2. PICK j \in 1..Len(log[w]) :
              /\ c = BlockAt(w, j) /\ c.hash = Hash(w, j) /\ c.shard = w
              /\ LiveAt(w, j, Len(log[w])) /\ WroteMbs(w, j) /\ SavesMb(w, j, m)
        BY <2>0, <4>1, ChainEntry
      <4>3. w = r
        BY <4>1, <4>2
      <4>4. Hash(r, j) <= doc.receiverBlockHash
        BY <2>6, <2>8, <4>2, <4>3 DEF Halves, CrossHalf
      <4> QED
        BY <4>2, <4>3, <4>4
    <3>2. r \in Shards
      BY <2>8, <3>1
    <3>3. doc.receiverBlockHash \in Nat
      <4>1. doc \in MbDocs \cup {NoDoc}
        BY <2>0 DEF TypeOK
      <4>2. doc \in MbDocs
        BY <2>7, <4>1
      <4>3. doc.receiverBlockHash \in Hashes \cup {NoHash}
        BY <4>2 DEF MbDocs
      <4> QED
        BY <4>3 DEF Hashes, NoHash
    <3>4. \A j \in 1..Len(log[r]) : Hash(r, j) \in Nat /\ Hash(r, j) # 0
      BY <2>0, <3>2, MessageFacts DEF Hashes
    <3>5. doc.receiverBlockHash # NoHash
      BY <2>8, <3>1, <3>3, <3>4 DEF NoHash
    <3>6. PICK j \in 1..Len(log[r]) : SavesMb(r, j, m) /\ Hash(r, j) = doc.receiverBlockHash
      BY <2>6, <2>7, <2>8, <3>5 DEF Halves, CrossHalf
    <3>7. BlockAt(r, j) \in Blocks /\ BlockAt(r, j).hash = Hash(r, j) /\ BlockAt(r, j).shard = r
      BY <2>0, <3>2, MessageFacts
    <3>8. CASE LiveAt(r, j, Len(log[r]))
      <4>1. BlockAt(r, j) \in Chain(r)
        BY <2>0, <3>2, <3>8, LiveInChain
      <4>2. BlockAt(r, j) \in ReceiverBlocks(m)
        BY <2>8, <3>2, <3>6, <3>7, <4>1 DEF ReceiverBlocks, SavesMb, Holds
      <4> QED
        BY <3>1, <3>6, <3>7, <4>2
    <3>9. CASE ~LiveAt(r, j, Len(log[r]))
      <4>1. PICK x \in (j + 1)..Len(log[r]) : IsRevert(log[r][x], log[r][j].block.hash)
        BY <3>6, <3>9 DEF LiveAt, SavesMb, IsSave
      <4>2. x \in 1..Len(log[r]) /\ x \in DOMAIN log[r]
        BY <2>0, <3>2, <4>1, ShardTypes
      <4>3. /\ log[r][x].topic = "RevertIndexedBlock" /\ Hash(r, x) = Hash(r, j)
            /\ BlockAt(r, x) = BlockAt(r, j)
        BY <2>0, <3>2, <4>1, <4>2 DEF IsRevert, Hash, BlocksInv
      <4>4. \E f \in log[r][x].block.mbs : f.mb = m
        BY <3>6, <4>3 DEF SavesMb, Holds, BlockAt
      <4>5. ASSUME NEW c \in ReceiverBlocks(m)
            PROVE  c.hash < Hash(r, j)
        <5>1. PICK y \in 1..Len(log[r]) :
                /\ c.hash = Hash(r, y) /\ SavesMb(r, y, m) /\ LiveAt(r, y, Len(log[r]))
                /\ Hash(r, y) <= doc.receiverBlockHash
          BY <3>1
        <5>2. y # j
          BY <3>9, <5>1
        <5>3. Hash(r, y) # Hash(r, j)
          <6>1. y < j \/ j < y
            BY <5>2
          <6> QED
            BY <2>0, <3>2, <3>6, <5>1, <6>1 DEF ChainInv, SavesMb, IsSave
        <5> QED
          BY <3>4, <3>6, <5>1, <5>3
      <4>6. log[r][x].block.hash = Hash(r, j)
        BY <4>3 DEF Hash
      <4>7. ASSUME NEW c \in ReceiverBlocks(m)
            PROVE  RevertedAfter(r, m, c.hash)
        <5>1. c.hash \in Nat
          BY <3>1, <3>4
        <5> QED
          BY <3>2, <3>4, <4>2, <4>3, <4>4, <4>5, <4>6, <5>1 DEF RevertedAfter
      <4> QED
        BY <4>7
    <3> QED
      BY <3>8, <3>9
  <2>9. ASSUME ReceiverBlocks(m) # {}, ~IsCrossShard(m)
        PROVE  /\ doc.receiverBlockHash \in {c.hash : c \in ReceiverBlocks(m)}
               /\ \A c \in ReceiverBlocks(m) : c.hash <= doc.receiverBlockHash
    <3>1. ASSUME NEW c \in ReceiverBlocks(m)
          PROVE  c.hash = doc.receiverBlockHash /\ c.hash \in Nat
      <4>1. PICK w \in Shards, f \in c.mbs :
              c \in Chain(w) /\ f.mb = m /\ f.procType # "Scheduled"
        BY <2>9 DEF ReceiverBlocks
      <4>2. PICK j \in 1..Len(log[w]) :
              /\ c = BlockAt(w, j) /\ c.hash = Hash(w, j) /\ c.shard = w
              /\ WroteMbs(w, j) /\ SavesMb(w, j, m) /\ ProcessingType(w, j, m) = f.procType
        BY <2>0, <4>1, ChainEntry
      <4>3. w = q
        <5>1. c \in Blocks /\ WellFormed(c)
          BY <2>0, <4>2, MessageFacts
        <5>2. w \in {q, r} \/ r = AllShards
          BY <4>1, <4>2, <5>1, WellFormedBlock DEF Participates
        <5> QED
          BY <2>5, <2>9, <5>2, MiniblockAssumption DEF IsCrossShard
      <4>4. c.hash \in Nat
        BY <2>0, <4>2, ShardTypes
      <4> QED
        BY <2>6, <2>9, <4>1, <4>2, <4>3, <4>4 DEF Halves, IntraHalf
    <3> QED
      BY <2>9, <3>1
  <2> QED
    BY <2>1, <2>7, <2>8, <2>9
<1> QED
  BY <1>1, InitHalves, NextHalves, PTL DEF Spec
=============================================================================
