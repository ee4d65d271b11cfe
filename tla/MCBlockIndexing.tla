--------------------------- MODULE MCBlockIndexing ---------------------------
(***************************************************************************)
(* BlockIndexing with two shards, a miniblock c from s0 to s1 with a plain *)
(* transaction and an ESDTTransfer, and an intra-shard miniblock i of s0   *)
(* with an NFT transfer, whose smart contract results go to s1 (miniblock  *)
(* y) or stay in s0 (miniblock x).                                         *)
(***************************************************************************)
EXTENDS BlockIndexing

CONSTANTS s0, s1, meta, all, c, i, x, y, t1, t2, t3

MCShards == {s0, s1}
MCMiniblocks == {c, i, x, y}
MCTxs == {t1, t2, t3}

MCMbInfo == [m \in MCMiniblocks |->
  CASE m = c -> [snd |-> s0, rcv |-> s1, type |-> "TxBlock", txs |-> {t1, t2}]
    [] m = i -> [snd |-> s0, rcv |-> s0, type |-> "TxBlock", txs |-> {t3}]
    [] m = x -> [snd |-> s0, rcv |-> s0, type |-> "SmartContractResultBlock",
                 txs |-> {}]
    [] m = y -> [snd |-> s0, rcv |-> s1, type |-> "SmartContractResultBlock",
                 txs |-> {}]]

MCTxInfo == [t \in MCTxs |->
  CASE t = t1 -> [kind |-> "plain", snd |-> s0, rcv |-> s1]
    [] t = t2 -> [kind |-> "esdt", snd |-> s0, rcv |-> s1]
    [] t = t3 -> [kind |-> "nft", snd |-> s0, rcv |-> s0]]

Entry(m, p, st, ex) == [mb |-> m, inBody |-> TRUE, procType |-> p, state |-> st,
                        executed |-> ex]
Content(es, failed, infos) == [mbs |-> es, failed |-> failed, infos |-> infos]

CrossFull == Entry(c, "Normal", "Final", {t1, t2})
CrossPart(t) == Entry(c, "Normal", "PartialExecuted", {t})
Intra == Entry(i, "Normal", "Final", {t3})
IntraScheduled == Entry(i, "Scheduled", "Proposed", {t3})
IntraProcessed == Entry(i, "Processed", "Final", {t3})
IntraShardScr == [mb |-> x, inBody |-> FALSE, procType |-> "Normal",
                  state |-> "Final", executed |-> {}]

\* s0 sends c, s1 executes it at once or in two parts, or fails t1.
CrossContents == [s \in MCShards |->
  IF s = s0 THEN {Content({CrossFull}, {}, {}), Content({}, {}, {})}
  ELSE {Content({CrossFull}, {}, {}), Content({CrossFull}, {t1}, {}),
        Content({CrossPart(t1)}, {}, {}), Content({CrossPart(t2)}, {}, {})}]

\* s0 executes i, at once or scheduled and processed by a later block, and
\* sends y; s1 executes y and reports the outcome of the NFT transfer.
Results == Entry(y, "Normal", "Final", {})
IntraContents == [s \in MCShards |->
  IF s = s0 THEN {Content({Intra, Results}, {}, {}),
                  Content({IntraScheduled}, {}, {}),
                  Content({IntraProcessed, Results}, {}, {})}
  ELSE {Content({Results}, {}, {[tx |-> t3, fail |-> f]}) : f \in BOOLEAN}]

\* As IntraContents, with the smart contract results in IntraShardMiniBlocks.
ScrContents == [s \in MCShards |->
  IF s = s0 THEN {Content({Intra, IntraShardScr}, {}, {})} ELSE {}]
=============================================================================
