--------------------------- MODULE MiniblocksIndex ---------------------------
(***************************************************************************)
(* process/elasticproc/miniblocks: the document of a miniblock has a half  *)
(* written by the observer of the sender shard and a half written by the   *)
(* observer of the receiver shard, in either order.                        *)
(***************************************************************************)
EXTENDS OutportData

\* data.Miniblock without the fields that the hash determines.  An omitted
\* field (omitempty, or null after a script) is NoHash or "".
MbDocs == [senderBlockHash : Hashes \cup {NoHash},
           receiverBlockHash : Hashes \cup {NoHash},
           procTypeS : ProcessingTypes \cup {""},
           procTypeD : ProcessingTypes \cup {""}]
ASSUME NoMbDocAssumption == NoDoc \notin MbDocs

EmptyMbDoc == [senderBlockHash |-> NoHash, receiverBlockHash |-> NoHash,
               procTypeS |-> "", procTypeD |-> ""]

\* The source half, for a miniblock that is intra shard or leaves this shard.
\* A state and type that match no case leave both hashes empty.
setFieldsMBIntraShardAndCrossFromMe(b, e) ==
  LET doc == [EmptyMbDoc EXCEPT !.procTypeS = e.procType]
  IN  CASE e.state = "Final" /\ e.procType = "Normal" ->
             IF IsCrossShard(e.mb)
               THEN [doc EXCEPT !.senderBlockHash = b.hash]
               ELSE [doc EXCEPT !.senderBlockHash = b.hash,
                                !.receiverBlockHash = b.hash,
                                !.procTypeD = e.procType]
        [] e.state = "Proposed" /\ e.procType = "Scheduled" ->
             [doc EXCEPT !.senderBlockHash = b.hash]
        [] e.state = "Final" /\ e.procType = "Processed" ->
             [doc EXCEPT !.receiverBlockHash = b.hash, !.procTypeD = e.procType]
        [] OTHER -> doc

prepareMiniblockForDB(b, e) ==
  IF ~IsCrossShard(e.mb) \/ MbInfo[e.mb].snd = b.shard
    THEN setFieldsMBIntraShardAndCrossFromMe(b, e)
    ELSE [EmptyMbDoc EXCEPT !.receiverBlockHash = b.hash,
                            !.procTypeD = e.procType]

\* The miniblocks of the block that get a document: one for all shards is
\* indexed only by the observer of the metachain.
PrepareDBMiniblocks(b) ==
  {e \in b.mbs : MbInfo[e.mb].rcv = AllShards => b.shard = MetaShard}

\* Mutants: the second observer replaces the document; a processed scheduled
\* miniblock is taken for a source half.
replaceMiniblock(stored, b, e) == prepareMiniblockForDB(b, e)
processedAsSource(stored, b, e) ==
  LET mb == prepareMiniblockForDB(b, e)
  IN  IF stored = NoDoc THEN mb
      ELSE IF b.shard = MbInfo[e.mb].snd
        THEN [stored EXCEPT !.senderBlockHash = mb.senderBlockHash,
                            !.procTypeS = mb.procTypeS]
        ELSE [stored EXCEPT !.receiverBlockHash = mb.receiverBlockHash,
                            !.procTypeD = mb.procTypeD]

\* The scripted upsert of prepareMiniblockData on the stored document.
MiniblockScript(stored, b, e) ==
  LET mb   == prepareMiniblockForDB(b, e)
      npos == b.shard = MbInfo[e.mb].snd /\ mb.procTypeD # "Processed"
  IN  IF stored = NoDoc THEN mb
      ELSE IF npos
        THEN [stored EXCEPT !.senderBlockHash = mb.senderBlockHash,
                            !.procTypeS = mb.procTypeS]
        ELSE [stored EXCEPT !.receiverBlockHash = mb.receiverBlockHash,
                            !.procTypeD = mb.procTypeD]

\* The index after the operations on the entries es of block b were executed.
IndexMiniblocks(docs, b, es) ==
  [m \in Miniblocks |->
     IF \E e \in es : e.mb = m
       THEN MiniblockScript(docs[m], b, CHOOSE e \in es : e.mb = m)
       ELSE docs[m]]

\* The documents that a revert of the block removes: the body's, without the
\* peer miniblocks and without the ones this shard received.
GetMiniblocksHashesHexEncoded(b) ==
  {e.mb : e \in {x \in b.mbs :
     /\ x.inBody
     /\ MbInfo[x.mb].type # "PeerBlock"
     /\ ~(IsCrossShard(x.mb) /\ MbInfo[x.mb].rcv = b.shard)}}
=============================================================================
