--------------------------- MODULE OperationsIndex ---------------------------
(***************************************************************************)
(* The records of an execution: the indexes "transactions", "scresults",   *)
(* "operations" (both of them) and "logs", the outcome that other shards   *)
(* report, and the fees that smart contract results correct later.  The    *)
(* fields of a transaction are the block that wrote it, the status with    *)
(* its two flags, the fee (as a number in feeNum) and the gas used; NoDoc  *)
(* is a field that is empty.                                               *)
(***************************************************************************)
EXTENDS LogsAndEvents

\* Of the transactions of a block, the ones that are prepared: with import-db,
\* a shard leaves its outgoing transactions to the shards that execute them.
shouldIndex(rcv, importDB, self) == ~importDB \/ self = rcv
PreparedTxs(b, importDB, self) == {t \in b.txs : shouldIndex(t.rcv, importDB, self)}

\* informativeLogsProcessor: the events that tell the outcome of a transaction.
ErrorIdentifiers == {"signalError", "internalVMErrors"}
Emitted(b, hash, identifiers) ==
  \E i \in DOMAIN b.events :
    b.events[i].hash = hash /\ b.events[i].event.identifier \in identifiers

\* The status of a transaction of the block: what its own log tells last.
StatusOf(t, b, self) ==
  LET told == SelectSeq(b.events, LAMBDA x :
                x.hash = t.hash /\ x.event.identifier \in {"writeLog"} \cup ErrorIdentifiers)
  IN  IF told = <<>> THEN IF t.rcv = self THEN "success" ELSE "pending"
      ELSE IF Last(told).event.identifier = "writeLog" THEN "success" ELSE "fail"

TxDoc(t, b, self) ==
  [block |-> b.timestamp, status |-> StatusOf(t, b, self),
   errorEvent |-> Emitted(b, t.hash, ErrorIdentifiers),
   completedEvent |-> Emitted(b, t.hash, {"completedTxEvent"}),
   fee |-> t.fee, feeNum |-> t.fee, gasUsed |-> t.gasUsed,
   initialPaidFee |-> t.initialPaidFee, hadRefund |-> t.hadRefund]

\* txHashStatusInfoProc: what the logs of the results tell about the transactions
\* they stem from; an error is never taken back.
TxHashStatusInfo(b) ==
  LET told(hash, identifiers) ==
        \E scr \in b.scrs : scr.originalTx = hash /\ Emitted(b, scr.hash, identifiers)
  IN  [hash \in {h \in {scr.originalTx : scr \in b.scrs} :
                   h # "" /\ told(h, {"completedTxEvent"} \cup ErrorIdentifiers)} |->
         [status |-> IF told(hash, ErrorIdentifiers) THEN "fail" ELSE "",
          errorEvent |-> told(hash, ErrorIdentifiers),
          completedEvent |-> told(hash, {"completedTxEvent"})]]

\* The transactions, then serializeTxHashStatus, which the mode does not concern.
SerializeTransactions(txs, b, self, index) ==
  ForEach(txs, LAMBDA t :
    Operation(DocKey(index, t.hash), "transaction",
              [tx |-> t, doc |-> TxDoc(t, b, self), self |-> self]))
  \o ForEach(DOMAIN TxHashStatusInfo(b), LAMBDA hash :
       Operation(DocKey(index, hash), "status", TxHashStatusInfo(b)[hash]))

\* prepareNFTESDTTransferOrMultiESDTTransfer.
KeepReported(stored, doc) ==
  [doc EXCEPT !.status = IF stored.status # "" THEN stored.status ELSE @,
              !.errorEvent = stored.errorEvent \/ @,
              !.completedEvent = stored.completedEvent \/ @]

\* prepareSerializedDataForATransaction.
TransactionScript(stored, p) ==
  LET cross == p.tx.snd # p.tx.rcv
      esdt == p.tx.kind = "esdt"
      withFeeOf(doc, x) == [doc EXCEPT !.fee = x.fee, !.feeNum = x.feeNum, !.gasUsed = x.gasUsed]
  IN  IF stored = NoDoc THEN p.doc
      ELSE IF cross /\ p.tx.snd = p.self
        THEN IF esdt THEN withFeeOf(stored, p.doc) ELSE stored
      ELSE IF ~cross /\ p.tx.kind = "nft" THEN KeepReported(stored, p.doc)
      ELSE IF esdt /\ p.tx.rcv = p.self THEN withFeeOf(p.doc, stored)
      ELSE p.doc

\* The script of serializeTxHashStatus; its upsert is a transaction that has
\* nothing but the outcome.
StatusScript(stored, info) ==
  IF stored = NoDoc
    THEN [block |-> NoDoc, status |-> info.status, errorEvent |-> info.errorEvent,
          completedEvent |-> info.completedEvent, fee |-> NoDoc, feeNum |-> 0, gasUsed |-> 0,
          initialPaidFee |-> NoDoc, hadRefund |-> FALSE]
    ELSE [stored EXCEPT !.status = IF info.status # "" THEN info.status ELSE @,
                        !.errorEvent = info.errorEvent \/ @,
                        !.completedEvent = info.completedEvent \/ @]


\* prepareSerializedDataForAScResult, on the source shard.
KeepResult(stored, doc) == IF stored = NoDoc THEN doc ELSE stored

\* The smart contract results of a block, with the shards of their miniblock; one
\* that is in no miniblock (snd and rcv are "none") stays in the shard.
processSCRs(b, self) ==
  {IF scr.snd = "none" THEN [scr EXCEPT !.snd = self, !.rcv = self] ELSE scr : scr \in b.scrs}

SerializeSCRs(b, importDB, self) ==
  LET op(scr) ==
        Operation(DocKey("operations", scr.hash),
                  IF scr.snd # scr.rcv /\ scr.snd = self THEN "source result" ELSE "index",
                  [block |-> b.timestamp,
                   status |-> IF scr.rcv = self THEN "success" ELSE "pending"])
  IN  ForEach({scr \in processSCRs(b, self) : shouldIndex(scr.rcv, importDB, self)}, op)

\* In scresults, the shard that comes last replaces the document.
SerializeScResults(b) ==
  ForEach(b.scrs, LAMBDA scr :
    Operation(DocKey("scresults", scr.hash), "index", [block |-> b.timestamp]))

\* prepareAndIndexOperations: the transactions were prepared with the mode that
\* was read before, importDB is read again.
ProcessTransactionsAndSCRs(b, txs, importDB, self) ==
  SerializeTransactions({t \in txs : shouldIndex(t.rcv, importDB, self)}, b, self, "operations")
  \o SerializeSCRs(b, importDB, self)

\* processSCRsWithoutTx: the results whose transaction the block does not have
\* and that carry a fee, by transaction; one result stands for all.
FeeResults(b, txs) ==
  {scr \in b.scrs : /\ scr.originalTx \notin {t.hash : t \in txs}
                    /\ (scr.gasUsed > 0 /\ scr.originalTx # "") \/ scr.gasRefunded > 0}

SerializeTransactionsFeeData(b, txs, index) ==
  LET results == FeeResults(b, txs)
      of(hash) == CHOOSE scr \in results : scr.originalTx = hash
  IN  ForEach({scr.originalTx : scr \in results}, LAMBDA hash :
        Operation(DocKey(index, hash), "fee",
                  [fee |-> of(hash).fee, gasUsed |-> of(hash).gasUsed,
                   gasRefunded |-> of(hash).gasRefunded]))

\* Mutant: every refund is taken from what was paid first.
refundFromInitial(stored) == stored.initialPaidFee

\* The fee that a refund is taken from.
FeeFromSource(stored) == IF stored.hadRefund THEN stored.fee ELSE stored.initialPaidFee

\* A refund of a transaction that has no fee yet is lost.  The fee is taken from
\* FeeFromSource, feeNum and gasUsed from what is stored, each if it is larger.
FeeScript(stored, p) ==
  IF stored = NoDoc THEN NoDoc
  ELSE IF p.gasRefunded = 0 THEN [stored EXCEPT !.fee = p.fee, !.feeNum = p.fee, !.gasUsed = p.gasUsed]
  ELSE IF NoDoc \in {stored.fee, stored.initialPaidFee} THEN stored
  ELSE [stored EXCEPT !.hadRefund = TRUE,
          !.fee = IF FeeFromSource(stored) > p.fee THEN FeeFromSource(stored) - p.fee ELSE @,
          !.feeNum = IF @ > p.fee THEN @ - p.fee ELSE @,
          !.gasUsed = IF @ > p.gasRefunded THEN @ - p.gasRefunded ELSE @]

\* prepareLogsForDB, SerializeLogs, SerializeEvents: the log of a transaction has
\* one document, and its events have one each.
LoggedHashes(b) == {b.events[i].hash : i \in DOMAIN b.events}
SerializeLogs(b) ==
  ForEach(LoggedHashes(b), LAMBDA hash :
    Operation(DocKey("logs", hash), "log", [block |-> b.timestamp]))
SerializeEvents(b, self) ==
  [i \in DOMAIN b.events |->
     Operation(Key("events", b.events[i].hash, i, self), "log", [block |-> b.timestamp])]

NewerLog(stored, doc) ==
  IF stored # NoDoc /\ stored.block > doc.block THEN stored ELSE doc
=============================================================================
