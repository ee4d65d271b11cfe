---------------------------- MODULE BlockIndexing ----------------------------
(***************************************************************************)
(* The path of a block through the indexer.  Every shard has an observer   *)
(* (external) that pushes SaveBlock and RevertIndexedBlock messages over a *)
(* WebSocket, one at a time: it repeats a message until it is acknowledged *)
(* and only then sends the next one.  The indexer handles the messages of  *)
(* different observers concurrently; it acknowledges a message only when   *)
(* the handler returned no error.  A handler (dataIndexer.SaveBlock,       *)
(* dataIndexer.RevertIndexedBlock) is a sequence of requests to            *)
(* Elasticsearch; the first one that fails ends it.                        *)
(*                                                                         *)
(* One step of the model is one request.  A request that fails may have    *)
(* been executed in full, in part or not at all; a crash of the indexer    *)
(* is a failure that leaves the message unacknowledged as well.            *)
(***************************************************************************)
EXTENDS MiniblocksIndex, TransactionsIndex, Sequences

CONSTANTS
  Contents,      \* Contents[s]: what a block of shard s may hold
  RefreshFails,  \* may the refresh before a query remove fail?
  MaxBlocks,     \* bound on the number of blocks
  MaxFailures    \* bound on the number of failed requests and lost acks

ASSUME ContentsAssumption ==
  Contents \in [Shards -> SUBSET [mbs : SUBSET Entries, failed : SUBSET Txs,
                                  infos : SUBSET StatusInfos]]
\* A block holds miniblocks that its shard sends or receives; only a peer
\* miniblock is for all shards.
ASSUME ParticipantAssumption ==
  \A s \in Shards : \A content \in Contents[s] : \A e \in content.mbs :
    \/ s \in {MbInfo[e.mb].snd, MbInfo[e.mb].rcv}
    \/ MbInfo[e.mb].rcv = AllShards /\ MbInfo[e.mb].type = "PeerBlock"
\* A transaction is in one miniblock of a block, the miniblocks outside the
\* body hold smart contract results, and so does the body of a block that
\* reports outcomes.
ASSUME BlockAssumption ==
  \A s \in Shards : \A content \in Contents[s] :
    /\ \A e \in content.mbs : e.inBody \/ MbInfo[e.mb].type = "SmartContractResultBlock"
    /\ \A e, f \in content.mbs :
         MbInfo[e.mb].txs \cap MbInfo[f.mb].txs # {} => e = f
    /\ content.infos # {} => \E e \in content.mbs : e.inBody
\* A miniblock is in a block once, and a block whose body is empty has none.  What
\* a shard sends to another one it sends at once; a miniblock that stays in the
\* shard may be scheduled, and processed by a later block.
ASSUME HeaderAssumption ==
  \A s \in Shards : \A content \in Contents[s] :
    /\ content.mbs # {} => \E e \in content.mbs : e.inBody
    /\ \A e, f \in content.mbs : e.mb = f.mb => e = f
    /\ \A e \in content.mbs : MbInfo[e.mb].snd = s =>
         \/ e.procType = "Normal" /\ e.state = "Final"
         \/ /\ ~IsCrossShard(e.mb)
            /\ \/ e.procType = "Scheduled" /\ e.state = "Proposed"
               \/ e.procType = "Processed" /\ e.state = "Final"
ASSUME BoundsAssumption ==
  /\ RefreshFails \in BOOLEAN
  /\ MaxBlocks \in Nat
  /\ MaxFailures \in Nat

VARIABLES
  log,        \* log[s]: the messages the observer of s has to send, in order
  acked,      \* acked[s]: how many of them were acknowledged
  pc,         \* pc[s]: the next request of the handler of the current message
  blocks,     \* the hashes in the index "blocks"
  miniblocks, \* the index "miniblocks"
  txs,        \* the index "transactions"
  rewritten,  \* <<h, d>>: another handler wrote document d while the last
              \* revert of block h was deleting from the index of d
  numBlocks,  \* number of blocks produced; the hash of the last one
  failures    \* number of failures so far

chainVars == <<log, numBlocks>>
vars == <<log, acked, pc, blocks, miniblocks, txs, rewritten, numBlocks, failures>>

Steps == {"idle", "header", "miniblocks", "transactions", "accounts", "ack"}

Init ==
  /\ log = [s \in Shards |-> <<>>]
  /\ acked = [s \in Shards |-> 0]
  /\ pc = [s \in Shards |-> "idle"]
  /\ blocks = {}
  /\ miniblocks = [m \in Miniblocks |-> NoDoc]
  /\ txs = [t \in Txs |-> NoDoc]
  /\ rewritten = {}
  /\ numBlocks = 0
  /\ failures = 0
-----------------------------------------------------------------------------
(***************************************************************************)
(* The chain, as the first n messages of an observer tell it.              *)
(***************************************************************************)
IsRevert(msg, h) == msg.topic = "RevertIndexedBlock" /\ msg.block.hash = h

\* After n messages, the block of message i is saved and not reverted.
LiveAt(s, i, n) ==
  /\ i \in 1..n
  /\ log[s][i].topic = "SaveBlock"
  /\ \A j \in (i + 1)..n : ~IsRevert(log[s][j], log[s][i].block.hash)

\* The chain of shard s.
Chain(s) == {log[s][i].block : i \in {k \in DOMAIN log[s] : LiveAt(s, k, Len(log[s]))}}

\* The blocks of the chain of s that hold miniblock m.
Holding(s, m) == {b \in Chain(s) : \E e \in b.mbs : e.mb = m}
EntryFor(b, m) == CHOOSE e \in b.mbs : e.mb = m

\* What a correct chain may put into the next block of s: a miniblock leaves its
\* shard once, is received after that and only for transactions that were not
\* executed yet; a scheduled miniblock is processed by the next block.
MayHold(s, e) ==
  LET m == e.mb IN
  IF MbInfo[m].snd = s
    THEN IF e.procType = "Processed"
           THEN /\ \E b \in Holding(s, m) : EntryFor(b, m).procType = "Scheduled"
                /\ \A b \in Holding(s, m) : EntryFor(b, m).procType # "Processed"
           ELSE Holding(s, m) = {}
    ELSE /\ Holding(MbInfo[m].snd, m) # {}
         /\ \A b \in Holding(s, m) : EntryFor(b, m).executed \cap e.executed = {}

\* The observer of s saves a new block.  Its shard sends or executes no
\* transaction twice.
Commit(s, content) ==
  LET b == [hash |-> numBlocks + 1, shard |-> s, mbs |-> content.mbs,
            failed |-> content.failed, infos |-> content.infos]
  IN  /\ numBlocks < MaxBlocks
      /\ \A e \in content.mbs : MayHold(s, e)
      /\ \A c \in Chain(s) : PreparedTxs(b) \cap PreparedTxs(c) = {}
      /\ numBlocks' = numBlocks + 1
      /\ log' = [log EXCEPT ![s] = Append(@, [topic |-> "SaveBlock", block |-> b])]
      /\ UNCHANGED <<acked, pc, blocks, miniblocks, txs, rewritten, failures>>

\* The observer of s reverts its last block, which is not final: no other
\* shard has executed a miniblock that it sent.
Rollback(s) ==
  \E b \in Chain(s) :
    /\ \A c \in Chain(s) : c.hash <= b.hash
    /\ \A e \in b.mbs : \A r \in Shards \ {s} : Holding(r, e.mb) # {} =>
         MbInfo[e.mb].snd # s
    /\ log' = [log EXCEPT ![s] =
                 Append(@, [topic |-> "RevertIndexedBlock", block |-> b])]
    /\ UNCHANGED <<acked, pc, blocks, miniblocks, txs, rewritten, numBlocks, failures>>
-----------------------------------------------------------------------------
(***************************************************************************)
(* The handlers.                                                           *)
(***************************************************************************)
Pending(s) == acked[s] < Len(log[s])
Message(s) == log[s][acked[s] + 1]
Block(s) == Message(s).block

\* The handler of s is at this request of a message with this topic.
At(s, topic, step) == Pending(s) /\ pc[s] = step /\ Message(s).topic = topic

Continue(s, step) == pc' = [pc EXCEPT ![s] = step] /\ UNCHANGED failures

\* Mutants: the error is logged and the message acknowledged; the handler
\* does not return.
ackOnError(s) ==
  /\ failures < MaxFailures
  /\ failures' = failures + 1
  /\ pc' = [pc EXCEPT ![s] = "ack"]
blockOnError(s) ==
  /\ failures < MaxFailures
  /\ failures' = failures + 1
  /\ pc' = [pc EXCEPT ![s] = "blocked"]

\* The request returned an error: the handler returns it, the message is not
\* acknowledged and the observer sends it again.
Fail(s) ==
  /\ failures < MaxFailures
  /\ failures' = failures + 1
  /\ pc' = [pc EXCEPT ![s] = "idle"]

\* A message arrives: ProcessPayload calls the handler of its topic.
ProcessPayload(s) ==
  /\ Pending(s)
  /\ pc[s] = "idle"
  /\ Continue(s, "header")
  /\ UNCHANGED <<chainVars, acked, blocks, miniblocks, txs, rewritten>>

HasBody(b) == \E e \in b.mbs : e.inBody

\* saveBlockData ends here for a block whose body has no miniblocks.
SaveHeader(s) ==
  LET b == Block(s) IN
  /\ At(s, "SaveBlock", "header")
  /\ \/ /\ blocks' = blocks \cup {b.hash}
        /\ Continue(s, IF HasBody(b) THEN "miniblocks" ELSE "ack")
     \/ /\ blocks' \in {blocks, blocks \cup {b.hash}}
        /\ Fail(s)
  /\ UNCHANGED <<chainVars, acked, miniblocks, txs, rewritten>>

\* Documents that s writes while other handlers are at the query remove of their
\* index.  The query remove takes a snapshot and then deletes what it found: a
\* document written in between is a conflict for it.
Overlapped(s, step, docs) ==
  {Block(r).hash : r \in {q \in Shards \ {s} : At(q, "RevertIndexedBlock", step)}} \X docs

SaveMiniblocks(s) ==
  LET b  == Block(s)
      es == PrepareDBMiniblocks(b)
      Index(done) ==
        /\ miniblocks' = IndexMiniblocks(miniblocks, b, done)
        /\ rewritten' = rewritten \cup Overlapped(s, "miniblocks", {e.mb : e \in done})
  IN  /\ At(s, "SaveBlock", "miniblocks")
      /\ \/ Index(es) /\ Continue(s, "transactions")
         \/ (\E done \in SUBSET es : Index(done)) /\ Fail(s)
      /\ UNCHANGED <<chainVars, acked, blocks, txs>>

SaveTransactions(s) ==
  LET b  == Block(s)
      ts == PreparedTxs(b)
      us == StatusTxs(b)
      Index(done, updated) ==
        /\ txs' = IndexTransactions(txs, b, done, updated)
        /\ rewritten' = rewritten \cup Overlapped(s, "transactions", done \cup updated)
  IN  /\ At(s, "SaveBlock", "transactions")
      /\ \/ Index(ts, us) /\ Continue(s, "ack")
         \/ (\E done \in SUBSET ts, updated \in SUBSET us : Index(done, updated)) /\ Fail(s)
      /\ UNCHANGED <<chainVars, acked, blocks, miniblocks>>

\* The documents that DoQueryRemove may delete and report no error: all that
\* match, or fewer when the refresh before it failed, which is only logged.  A
\* document that another handler writes between the snapshot and the delete is
\* skipped (conflicts=proceed), and this is no error either.
Removable(hashes, conflicts) ==
  {hashes \ missed : missed \in SUBSET (IF RefreshFails THEN hashes ELSE conflicts)}

Conflicts(h, hashes) == {d \in hashes : <<h, d>> \in rewritten}

\* Only the handler of its own shard writes the document of a block.
RemoveHeader(s) ==
  LET hash == Block(s).hash IN
  /\ At(s, "RevertIndexedBlock", "header")
  /\ \/ /\ \E removed \in Removable({hash}, {}) : blocks' = blocks \ removed
        /\ rewritten' = {w \in rewritten : w[1] # hash}
        /\ Continue(s, "miniblocks")
     \/ /\ blocks' \in {blocks, blocks \ {hash}}
        /\ UNCHANGED rewritten
        /\ Fail(s)
  /\ UNCHANGED <<chainVars, acked, miniblocks, txs>>

Without(docs, removed) ==
  [d \in DOMAIN docs |-> IF d \in removed THEN NoDoc ELSE docs[d]]

RemoveMiniblocks(s) ==
  LET hashes == GetMiniblocksHashesHexEncoded(Block(s)) IN
  /\ At(s, "RevertIndexedBlock", "miniblocks")
  /\ \/ /\ \E removed \in Removable(hashes, Conflicts(Block(s).hash, hashes)) :
             miniblocks' = Without(miniblocks, removed)
        /\ Continue(s, "transactions")
     \/ /\ \E removed \in SUBSET hashes : miniblocks' = Without(miniblocks, removed)
        /\ Fail(s)
  /\ UNCHANGED <<chainVars, acked, blocks, txs, rewritten>>

\* The query removes on the indexes that follow transactions are part of the
\* step: if one of them fails, hashes are removed and the error is returned.
RemoveTransactions(s) ==
  LET hashes == GetHexEncodedHashesForRemove(Block(s)) IN
  /\ At(s, "RevertIndexedBlock", "transactions")
  /\ \/ /\ \E removed \in Removable(hashes, Conflicts(Block(s).hash, hashes)) :
             txs' = Without(txs, removed)
        /\ Continue(s, "accounts")
     \/ /\ \E removed \in SUBSET hashes : txs' = Without(txs, removed)
        /\ Fail(s)
  /\ UNCHANGED <<chainVars, acked, blocks, miniblocks, rewritten>>

\* The last two query removes, on indexes that are not modelled here.
RemoveAccountsESDT(s) ==
  /\ At(s, "RevertIndexedBlock", "accounts")
  /\ Continue(s, "ack") \/ Fail(s)
  /\ UNCHANGED <<chainVars, acked, blocks, miniblocks, txs, rewritten>>

\* The handler returned nil and the observer gets the acknowledgement.
Acknowledge(s) ==
  /\ Pending(s)
  /\ pc[s] = "ack"
  /\ acked' = [acked EXCEPT ![s] = @ + 1]
  /\ Continue(s, "idle")
  /\ UNCHANGED <<chainVars, blocks, miniblocks, txs, rewritten>>

\* The acknowledgement is lost or late: the message is sent again.
LoseAck(s) ==
  /\ Pending(s)
  /\ pc[s] = "ack"
  /\ Fail(s)
  /\ UNCHANGED <<chainVars, acked, blocks, miniblocks, txs, rewritten>>

Observer(s) == (\E content \in Contents[s] : Commit(s, content)) \/ Rollback(s)

Handler(s) ==
  \/ ProcessPayload(s)
  \/ SaveHeader(s) \/ SaveMiniblocks(s) \/ SaveTransactions(s)
  \/ RemoveHeader(s) \/ RemoveMiniblocks(s) \/ RemoveTransactions(s)
  \/ RemoveAccountsESDT(s)
  \/ Acknowledge(s) \/ LoseAck(s)

Next == \E s \in Shards : Observer(s) \/ Handler(s)

\* Go schedules every handler, and the observer repeats a message for ever.
\* That failures are finite in number is the bound MaxFailures.
Spec == Init /\ [][Next]_vars /\ \A s \in Shards : WF_vars(Handler(s))
-----------------------------------------------------------------------------
(***************************************************************************)
(* Properties.                                                             *)
(***************************************************************************)
TypeOK ==
  /\ log \in [Shards -> Seq(Messages)]
  /\ acked \in [Shards -> Nat]
  /\ \A s \in Shards : acked[s] <= Len(log[s])
  /\ pc \in [Shards -> Steps]
  /\ blocks \subseteq 1..numBlocks
  /\ miniblocks \in [Miniblocks -> MbDocs \cup {NoDoc}]
  /\ txs \in [Txs -> TxDocs \cup {NoDoc}]
  /\ rewritten \subseteq Nat \X (Miniblocks \cup Txs)
  /\ numBlocks \in Nat
  /\ failures \in 0..MaxFailures

\* Every message of s was acknowledged.
Drained(s) == acked[s] = Len(log[s])

\* A block of s that holds m and is younger than block h was reverted.
RevertedAfter(s, m, h) ==
  s \in Shards /\ \E i \in DOMAIN log[s] :
    /\ log[s][i].topic = "RevertIndexedBlock"
    /\ log[s][i].block.hash > h
    /\ \E e \in log[s][i].block.mbs : e.mb = m

Reverted(s, m) == RevertedAfter(s, m, NoHash)

(* The index "blocks" is the chain: whatever was repeated, partly written  *)
(* or interleaved with other shards, a block of s other than the one being *)
(* handled has a document exactly when the acknowledged messages saved it  *)
(* and did not revert it.                                                  *)
BlocksFollowChain ==
  \A s \in Shards : \A i \in 1..acked[s] :
    \/ Pending(s) /\ Block(s).hash = log[s][i].block.hash
    \/ (log[s][i].block.hash \in blocks) <=>
         \E k \in 1..acked[s] : /\ log[s][k].block.hash = log[s][i].block.hash
                                /\ LiveAt(s, k, acked[s])

(* At the end of SaveBlock the block has its document, at the end of       *)
(* RevertIndexedBlock it has none, although other handlers ran in between. *)
EffectBeforeAck ==
  \A s \in Shards :
    Pending(s) /\ pc[s] \in {"miniblocks", "transactions", "accounts", "ack"} =>
      ((Block(s).hash \in blocks) <=> (Message(s).topic = "SaveBlock"))

Contract == INSTANCE IndexContract WITH
  Shards <- Shards, log <- log, acked <- acked, blocks <- blocks

(* The handlers, interrupted by failures, repeated after lost              *)
(* acknowledgements and interleaved with each other, carry out the         *)
(* messages of every shard in order and acknowledge a message only while   *)
(* the index "blocks" shows its effect.                                    *)
ImplementsContract == Contract!Spec

\* The block of the chain whose observer writes the sender's half of m, and
\* the one whose observer writes the receiver's half.
SenderBlocks(m) ==
  {b \in UNION {Chain(s) : s \in Shards} :
     /\ b.shard = MbInfo[m].snd
     /\ \E e \in b.mbs : e.mb = m /\ e.procType # "Processed"}
ReceiverBlocks(m) ==
  {b \in UNION {Chain(s) : s \in Shards} : \E e \in b.mbs :
     /\ e.mb = m
     /\ \/ b.shard = MbInfo[m].rcv /\ IsCrossShard(m)
        \/ ~IsCrossShard(m) /\ e.procType # "Scheduled"}

(* Once everything is acknowledged, the document of a miniblock names the  *)
(* blocks of the chain that hold it, never a reverted one, whichever of    *)
(* the two observers came first.  A half is missing only if a block of the *)
(* sender shard that held the miniblock was reverted: RemoveMiniblocks     *)
(* then deletes the whole document.  A miniblock that several blocks       *)
(* execute in parts names the last one, unless that one was reverted and   *)
(* not followed by another: a revert on the destination keeps the hash.    *)
MiniblockHalvesConverge ==
  (\A s \in Shards : Drained(s)) =>
    \A m \in Miniblocks :
      /\ SenderBlocks(m) # {} =>
           \/ /\ miniblocks[m] # NoDoc
              /\ miniblocks[m].senderBlockHash \in {b.hash : b \in SenderBlocks(m)}
           \/ Reverted(MbInfo[m].snd, m)
      /\ SenderBlocks(m) # {} /\ ReceiverBlocks(m) # {} =>
           \/ /\ miniblocks[m] # NoDoc
              /\ miniblocks[m].receiverBlockHash \in {b.hash : b \in ReceiverBlocks(m)}
              /\ \A b \in ReceiverBlocks(m) : b.hash <= miniblocks[m].receiverBlockHash
           \/ Reverted(MbInfo[m].snd, m)
           \/ \A b \in ReceiverBlocks(m) : RevertedAfter(MbInfo[m].rcv, m, b.hash)

\* The transactions that block b executes and its own shard finishes.  Those of
\* a processed miniblock were executed by the block that scheduled it.
Executed(b) == UNION {ExtractExecutedTxHashes(e) : e \in {x \in b.mbs :
  /\ MbInfo[x.mb].rcv = b.shard
  /\ MbInfo[x.mb].type \in {"TxBlock", "RewardsBlock", "InvalidBlock"}
  /\ x.procType # "Processed"}}

\* A revert on r of a block younger than h removes the document of t.
RemovedAfter(r, t, h) ==
  \E i \in DOMAIN log[r] : /\ log[r][i].topic = "RevertIndexedBlock"
                           /\ log[r][i].block.hash > h
                           /\ t \in GetHexEncodedHashesForRemove(log[r][i].block)

Removed(t) == \E r \in Shards : RemovedAfter(r, t, NoHash)

\* A revert removes the document that b wrote: of a younger block of s that
\* held the miniblock of t, or of another shard that removes what it sent.
Clobbered(s, b, t) ==
  \E r \in Shards : RemovedAfter(r, t, IF r = s THEN b.hash ELSE NoHash)

\* Another block wrote t, or some block reported its outcome.  The document of
\* an invalid transaction whose receiver is in another shard is not written
\* when there is one already.
WrittenBefore(b, t) ==
  \E r \in Shards : \E i \in DOMAIN log[r] :
    /\ log[r][i].topic = "SaveBlock"
    /\ \/ t \in StatusTxs(log[r][i].block)
       \/ t \in PreparedTxs(log[r][i].block) /\ log[r][i].block.hash # b.hash
Hidden(b, t) ==
  /\ \E e \in b.mbs : /\ MbInfo[e.mb].type = "InvalidBlock" /\ t \in MbInfo[e.mb].txs
                     /\ isCrossShardOnSourceShard(b, e, t)
  /\ WrittenBefore(b, t)

(* A transaction executed by a block of the chain has a document that says *)
(* so, from the moment its shard is drained, wherever the observer of the  *)
(* other shard is: a late message of the source neither hides nor undoes   *)
(* the execution.                                                          *)
ExecutedTxIndexed ==
  \A s \in Shards : Drained(s) => \A b \in Chain(s) : \A t \in Executed(b) :
    \/ Clobbered(s, b, t)
    \/ Hidden(b, t)
    \/ /\ txs[t] # NoDoc
       /\ txs[t].block = b.hash
       /\ txs[t].status \notin {"", "pending"}

(* A document that reports an execution names a block of the chain of the  *)
(* shard that executed it.  A revert leaves an executed transaction behind *)
(* only where the handler of another shard wrote its document while the    *)
(* last attempt of the revert was deleting it: DoQueryRemove then skips    *)
(* the document and reports no error.                                      *)
NoPhantomExecution ==
  \A s \in Shards : Drained(s) =>
    \A i \in DOMAIN log[s] :
      LET b == log[s][i].block
      IN  log[s][i].topic = "SaveBlock" /\ b \notin Chain(s) =>
            \A t \in Executed(b) :
              \/ txs[t] = NoDoc \/ txs[t].block # b.hash \/ txs[t].status = "pending"
              \/ <<b.hash, t>> \in rewritten

(* A document never goes back from an executed status to "pending": the    *)
(* upsert of the source shard leaves an existing document alone.           *)
NeverBackToPending ==
  [][\A t \in Txs : txs[t] # NoDoc /\ txs[t].status \in {"success", "fail"} =>
       txs'[t] = NoDoc \/ txs'[t].status # "pending"]_vars

(* The fee of a plain ESDTTransfer between shards is the one computed by   *)
(* the source from the acknowledgement of its block on, whether the        *)
(* destination came before it or comes later, unless a revert removes the  *)
(* document.                                                               *)
SimpleESDTFeeFromSource ==
  \A s \in Shards : \A i \in 1..acked[s] :
    LET b == log[s][i].block
    IN  log[s][i].topic = "SaveBlock" =>
          \A t \in PreparedTxs(b) :
            TxInfo[t].kind = "esdt" /\ isCrossShardOnSourceShard(b, EntryOf(b, t), t) =>
              \/ Removed(t)
              \/ txs[t] # NoDoc /\ txs[t].fee = s

\* An NFT transfer, which the sender addresses to itself.
SelfTransfer(t) == TxInfo[t].kind = "nft" /\ TxInfo[t].snd = TxInfo[t].rcv

(* The outcome that a block reports for an NFT transfer stays, from the    *)
(* acknowledgement of the block on, whether the block of the sender comes  *)
(* before or after it: the merge keeps the status and the flags of the     *)
(* document, and only a revert that removes the document loses them.       *)
ReportedStatusKept ==
  \A r \in Shards : \A i \in 1..acked[r] :
    LET b == log[r][i].block
    IN  log[r][i].topic = "SaveBlock" =>
          \A t \in StatusTxs(b) : SelfTransfer(t) =>
            \/ Removed(t)
            \/ /\ txs[t] # NoDoc
               /\ StatusInfoOf(b, t).status = "fail" =>
                    txs[t].status = "fail" /\ txs[t].errorEvent
               /\ StatusInfoOf(b, t).completedEvent => txs[t].completedEvent

(* What the comment on RevertIndexedBlock says: it "will remove from       *)
(* database block and miniblocks".  Asked of the miniblocks that the       *)
(* block itself sent and that no other block of the chain holds.           *)
RevertRemovesMiniblocks ==
  \A s \in Shards : \A i \in 1..acked[s] :
    log[s][i].topic = "RevertIndexedBlock" =>
      \A m \in Miniblocks : miniblocks[m] # NoDoc =>
        miniblocks[m].senderBlockHash # log[s][i].block.hash

(* What the comment on RemoveTransactions says: it "will remove            *)
(* transaction that are in miniblock from the elasticsearch server".       *)
(* Asked of the documents that name the block which was reverted.          *)
RevertRemovesTransactions ==
  \A s \in Shards : \A i \in 1..acked[s] :
    log[s][i].topic = "RevertIndexedBlock" =>
      \A t \in GetHexEncodedHashesForRemove(log[s][i].block) :
        txs[t] # NoDoc => txs[t].block # log[s][i].block.hash

(* What the comment on RemoveHeader says: it "will remove a block from     *)
(* elasticsearch server".                                                  *)
RevertRemovesBlock ==
  \A s \in Shards : \A i \in 1..acked[s] :
    log[s][i].topic = "RevertIndexedBlock" => log[s][i].block.hash \notin blocks

(* Every message of every observer is acknowledged in the end: a failed    *)
(* request, a lost acknowledgement and the other observers delay a message *)
(* and never block it.                                                     *)
EveryMessageAcked ==
  \A s \in Shards : Pending(s) ~> Drained(s)
=============================================================================
