-------------------------- MODULE TransactionsIndex --------------------------
(***************************************************************************)
(* process/elasticproc/transactions: which transactions of a block get a   *)
(* document in the index "transactions", how the document is merged with   *)
(* the stored one, and which documents a revert removes.                   *)
(*                                                                         *)
(* A document keeps the block that wrote it (for the round, the timestamp, *)
(* the miniblock hash and the other fields taken from the block), the      *)
(* status, the event flags and the shard whose execution gave gasUsed and  *)
(* fee; the rest is a function of the transaction.                         *)
(***************************************************************************)
EXTENDS OutportData

CONSTANT ImportDB   \* the mode set by SetOutportConfig, constant here
ASSUME ImportDBAssumption == ImportDB \in BOOLEAN

Statuses == {"", "success", "pending", "fail", "invalid"}
NoShard == AllShards

TxDocs == [block : Hashes \cup {NoHash}, status : Statuses,
           fee : Shards \cup {NoShard},
           errorEvent : BOOLEAN, completedEvent : BOOLEAN]
ASSUME NoTxDocAssumption == NoDoc \notin TxDocs

\* Mutant: a status that no reader of the index knows.
unknownStatus(self, rcv) == IF self = rcv THEN "executed" ELSE "pending"

computeStatus(self, rcv) == IF self = rcv THEN "success" ELSE "pending"

shouldIndex(self, rcv) == ImportDB => self = rcv

\* Mutant: a scheduled miniblock is left to the block that processes it, which
\* does not index it either.
groupNormalOnly(b) ==
  {e \in b.mbs : MbInfo[e.mb].type = "TxBlock" /\ e.procType = "Normal"}

\* The entries whose transactions PrepareTransactionsForDatabase groups; the
\* test for processed scheduled miniblocks is made for TxBlock only.
GroupedEntries(b) ==
  {e \in b.mbs :
     \/ /\ MbInfo[e.mb].type = "TxBlock"
        /\ ~(e.inBody /\ e.procType = "Processed")
        /\ shouldIndex(b.shard, MbInfo[e.mb].rcv)
     \/ /\ MbInfo[e.mb].type = "RewardsBlock"
        /\ shouldIndex(b.shard, MbInfo[e.mb].rcv)
     \/ MbInfo[e.mb].type = "InvalidBlock"}

ExtractExecutedTxHashes(e) ==
  IF e.inBody THEN MbInfo[e.mb].txs \cap e.executed ELSE MbInfo[e.mb].txs

\* The transactions that a block writes, and the entry each is written for.
PreparedTxs(b) == UNION {ExtractExecutedTxHashes(e) : e \in GroupedEntries(b)}
EntryOf(b, t) == CHOOSE e \in GroupedEntries(b) : t \in ExtractExecutedTxHashes(e)

\* The receiver shard of an invalid transaction comes from its address.
ReceiverShard(e, t) ==
  IF MbInfo[e.mb].type = "InvalidBlock" THEN TxInfo[t].rcv ELSE MbInfo[e.mb].rcv

\* The events of the transaction's own log are applied to it before it is
\* serialized (informativeLogsProcessor.processEvent).  Only its errors are
\* followed here; writeLog and completedTxEvent are in OperationsIndex.
prepareTransaction(b, e, t) ==
  [block |-> b.hash,
   status |-> IF t \in b.failed THEN "fail"
              ELSE IF MbInfo[e.mb].type = "InvalidBlock" THEN "invalid"
              ELSE computeStatus(b.shard, MbInfo[e.mb].rcv),
   fee |-> b.shard,
   errorEvent |-> t \in b.failed, completedEvent |-> FALSE]

\* Mutant: the test is made for the wrong side.
crossShardOnReceiverShard(b, e, t) ==
  MbInfo[e.mb].snd # ReceiverShard(e, t) /\ ReceiverShard(e, t) = b.shard

isCrossShardOnSourceShard(b, e, t) ==
  MbInfo[e.mb].snd # ReceiverShard(e, t) /\ MbInfo[e.mb].snd = b.shard

isNFTTransferOrMultiTransfer(e, t) ==
  MbInfo[e.mb].snd = ReceiverShard(e, t) /\ TxInfo[t].kind = "nft"

\* Mutant: a plain ESDTTransfer is written like any other transaction.
neverSimpleESDT(b, e, t) == FALSE

isSimpleESDTTransferCrossShardOnDestination(b, e, t) ==
  /\ TxInfo[t].kind = "esdt"
  /\ MbInfo[e.mb].snd # ReceiverShard(e, t)
  /\ ReceiverShard(e, t) = b.shard

\* Mutant: the merge forgets what other shards reported.
forgetReported(stored, tx) == tx

prepareNFTESDTTransferOrMultiESDTTransfer(stored, tx) ==
  [tx EXCEPT !.status = IF stored.status # "" THEN stored.status ELSE @,
             !.errorEvent = stored.errorEvent \/ @,
             !.completedEvent = stored.completedEvent \/ @]

\* Mutant: every observer replaces the document.
replaceTransaction(stored, b, t) == prepareTransaction(b, EntryOf(b, t), t)

\* The operation of prepareSerializedDataForATransaction on the stored document.
TransactionScript(stored, b, t) ==
  LET e  == EntryOf(b, t)
      tx == prepareTransaction(b, e, t)
  IN  IF stored = NoDoc THEN tx
      ELSE IF isCrossShardOnSourceShard(b, e, t)
        THEN IF TxInfo[t].kind = "esdt" THEN [stored EXCEPT !.fee = tx.fee]
                                        ELSE stored
      ELSE IF isNFTTransferOrMultiTransfer(e, t)
        THEN prepareNFTESDTTransferOrMultiESDTTransfer(stored, tx)
      ELSE IF isSimpleESDTTransferCrossShardOnDestination(b, e, t)
        THEN [tx EXCEPT !.fee = stored.fee]
      ELSE tx

\* What processEventNoTx records for a transaction that is not in the block,
\* from the logs of its results: addRecord merges the events of one block, a
\* fail stays, the flags are or-ed.
StatusInfoOf(b, t) ==
  LET of == {i \in b.infos : i.tx = t}
  IN  [status |-> IF \E i \in of : i.fail THEN "fail" ELSE "",
       errorEvent |-> \E i \in of : i.fail,
       completedEvent |-> \E i \in of : ~i.fail]

\* serializeTxHashStatus: the upsert is a document that has nothing else.
StatusScript(stored, b, t) ==
  LET info == StatusInfoOf(b, t)
  IN  IF stored = NoDoc
        THEN [block |-> NoHash, status |-> info.status, fee |-> NoShard,
              errorEvent |-> info.errorEvent,
              completedEvent |-> info.completedEvent]
        ELSE [stored EXCEPT
                !.status = IF info.status # "" THEN info.status ELSE @,
                !.errorEvent = info.errorEvent \/ @,
                !.completedEvent = info.completedEvent \/ @]

StatusTxs(b) == {i.tx : i \in b.infos}

\* The index after the writes of ts and, behind them in the same bulk request,
\* the status updates of us were executed.
IndexTransactions(docs, b, ts, us) ==
  [t \in Txs |->
     LET doc == IF t \in ts THEN TransactionScript(docs[t], b, t) ELSE docs[t]
     IN  IF t \in us THEN StatusScript(doc, b, t) ELSE doc]

isCrossShardAtSourceNormalTx(self, m) ==
  IsCrossShard(m) /\ MbInfo[m].snd = self /\ MbInfo[m].type = "TxBlock"

\* Mutants: what came from another shard is kept; what was scheduled is kept.
removeIntraOnly(b) ==
  UNION {MbInfo[e.mb].txs : e \in {x \in b.mbs : x.inBody /\ ~IsCrossShard(x.mb)}}
removeNormalOnly(b) ==
  UNION {MbInfo[e.mb].txs : e \in {x \in b.mbs : x.inBody /\ x.procType = "Normal"}}

\* The transactions that a revert removes: all those of the miniblock, also
\* the ones this block did not execute.
GetHexEncodedHashesForRemove(b) ==
  UNION {MbInfo[e.mb].txs : e \in {x \in b.mbs :
    /\ x.inBody
    /\ x.procType # "Processed"
    /\ ~isCrossShardAtSourceNormalTx(b.shard, x.mb)
    /\ MbInfo[x.mb].type # "SmartContractResultBlock"}}
=============================================================================
