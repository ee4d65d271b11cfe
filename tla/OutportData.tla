----------------------------- MODULE OutportData -----------------------------
(***************************************************************************)
(* The data that the observers push to the indexer, as far as the indexes  *)
(* "blocks", "miniblocks" and "transactions" depend on it: the payloads    *)
(* outport.OutportBlock (topic SaveBlock) and outport.BlockData (topic     *)
(* RevertIndexedBlock), with the header decoded.                           *)
(***************************************************************************)
EXTENDS Naturals, FiniteSets

CONSTANTS
  Shards,       \* the shards that have an observer; MetaShard may be one
  MetaShard,    \* core.MetachainShardId
  AllShards,    \* core.AllShardId, the receiver of a peer miniblock
  Miniblocks,   \* miniblock hashes
  Txs,          \* transaction hashes
  MbInfo,       \* what a miniblock hash stands for
  TxInfo,       \* what a transaction hash stands for
  NoDoc         \* "no document with this id" in Elasticsearch

MbTypes == {"TxBlock", "PeerBlock", "RewardsBlock", "SmartContractResultBlock",
            "InvalidBlock"}

\* "esdt" is a plain ESDTTransfer (no function call), "nft" an ESDTNFTTransfer
\* or MultiESDTNFTTransfer with enough arguments, "deploy" a deployment, whose
\* receiver is the zero address, "reward" a reward, "plain" everything else.
TxKinds == {"plain", "deploy", "reward", "esdt", "nft"}

ASSUME MiniblockAssumption ==
  /\ MbInfo \in [Miniblocks -> [snd : Shards \cup {MetaShard},
                                rcv : Shards \cup {MetaShard, AllShards},
                                type : MbTypes, txs : SUBSET Txs]]
  /\ AllShards \notin Shards \cup {MetaShard}
  /\ \A m \in Miniblocks : MbInfo[m].rcv = AllShards => MbInfo[m].snd = MetaShard

\* snd and rcv are the shards of the sender's and the receiver's address; the
\* sender of a reward is the metachain.
ASSUME TransactionAssumption ==
  TxInfo \in [Txs -> [kind : TxKinds, snd : Shards \cup {MetaShard},
                      rcv : Shards \cup {MetaShard}]]

\* How the nodes put transactions into miniblocks: by the shards they go from
\* and to.  A deployment and an invalid transaction stay in the sender's shard.
ASSUME RoutingAssumption ==
  \A m \in Miniblocks : \A t \in MbInfo[m].txs :
    /\ MbInfo[m].type = "TxBlock" =>
         /\ TxInfo[t].kind # "reward"
         /\ MbInfo[m].snd = TxInfo[t].snd
         /\ MbInfo[m].rcv = IF TxInfo[t].kind = "deploy" THEN TxInfo[t].snd ELSE TxInfo[t].rcv
    /\ MbInfo[m].type = "RewardsBlock" =>
         /\ TxInfo[t].kind = "reward"
         /\ MbInfo[m].snd = TxInfo[t].snd
         /\ MbInfo[m].rcv = TxInfo[t].rcv
    /\ MbInfo[m].type = "InvalidBlock" =>
         /\ TxInfo[t].kind # "reward"
         /\ MbInfo[m].snd = TxInfo[t].snd
         /\ MbInfo[m].rcv = TxInfo[t].snd

\* block.ProcessingType and block.MiniBlockState of a miniblock header.
ProcessingTypes == {"Normal", "Scheduled", "Processed"}
ConstructionStates == {"Final", "Proposed", "PartialExecuted"}

\* A miniblock in a block: one of BlockData.Body.MiniBlocks with its header, or
\* (inBody = FALSE) one of BlockData.IntraShardMiniBlocks, which has no header
\* and counts as Normal and Final.  executed are the transactions between
\* IndexOfFirstTxProcessed and IndexOfLastTxProcessed.
Entries == [mb : Miniblocks, inBody : BOOLEAN, procType : ProcessingTypes,
            state : ConstructionStates, executed : SUBSET Txs]

\* An event in the log of a smart contract result of the block, recorded for
\* the original transaction, which may have been executed elsewhere:
\* signalError (or internalVMErrors) if fail, completedTxEvent otherwise.
StatusInfos == [tx : Txs, fail : BOOLEAN]

Hashes == Nat \ {0}
NoHash == 0

\* failed are the transactions executed by this block whose own log has a
\* signalError or internalVMErrors event.
Blocks == [hash : Hashes, shard : Shards, mbs : SUBSET Entries,
           failed : SUBSET Txs, infos : SUBSET StatusInfos]

Topics == {"SaveBlock", "RevertIndexedBlock"}
Messages == [topic : Topics, block : Blocks]

IsCrossShard(m) == MbInfo[m].snd # MbInfo[m].rcv
=============================================================================
