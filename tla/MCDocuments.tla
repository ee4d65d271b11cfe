---------------------------- MODULE MCDocuments ----------------------------
(***************************************************************************)
(* DocumentsIndexing with two shards and the metachain.  Each scenario is  *)
(* about one kind of document: what the chain did, message by message.     *)
(***************************************************************************)
EXTENDS DocumentsIndexing

MCShards == {"0", "1", "meta"}
MCShardOf == [a |-> "0", b |-> "1", sys |-> "meta"]

MCMainChainTokens ==
  [k \in {DocKey("tokens", "MAIN"), Key("tokens", "MAIN", 1, ""), DocKey("tokens", "OWN")} |->
     [EmptyDoc EXCEPT !.token = k.id, !.type = "NonFungibleESDT", !.ownersHistory = <<"x">>]]

B(t) == [timestamp |-> t, txs |-> {}, scrs |-> {}, events |-> <<>>, altered |-> {}, hasMbs |-> TRUE]
Save(b) == [topic |-> "SaveBlock", block |-> b, importDB |-> FALSE]
Revert(b) == [topic |-> "RevertIndexedBlock", block |-> b, importDB |-> FALSE]
Settings(mode) == [topic |-> "Settings", block |-> B(0), importDB |-> mode]

Events(t, events) == [B(t) EXCEPT !.events = [i \in DOMAIN events |-> [hash |-> "x", event |-> events[i]]]]
Ev(identifier, address, token) ==
  [identifier |-> identifier, short |-> FALSE, address |-> address, token |-> token, nonce |-> 0]

Scenario(zero, one, meta, ds, mode) ==
  [log |-> ("0" :> zero) @@ ("1" :> one) @@ ("meta" :> meta), docs |-> ds, importDB |-> mode]

\* A transaction of each kind from shard 0 to shard 1, and a result that goes the
\* same way, while the mode changes or the block that executed it is reverted.
Tx(hash, snd, rcv, kind, fee) ==
  [hash |-> hash, snd |-> snd, rcv |-> rcv, kind |-> kind, fee |-> fee, gasUsed |-> 20,
   initialPaidFee |-> 10, hadRefund |-> FALSE]
Result(hash, snd, rcv, originalTx, gasUsed, gasRefunded, fee, tokens) ==
  [hash |-> hash, snd |-> snd, rcv |-> rcv, originalTx |-> originalTx, gasUsed |-> gasUsed,
   gasRefunded |-> gasRefunded, fee |-> fee, tokens |-> tokens]
Sent(t, fee) ==
  [Events(t, <<Ev("ESDTTransfer", "a", "T")>>) EXCEPT
     !.txs = {Tx("x", "0", "1", "esdt", fee), Tx("p", "0", "1", "plain", fee)},
     !.scrs = {Result("r", "0", "1", "o", 0, 0, 0, {})}]
Arrived(t) ==
  [B(t) EXCEPT !.txs = {Tx("p", "0", "1", "plain", 6)}, !.scrs = {Result("r", "0", "1", "o", 0, 0, 0, {})}]
Report(t, hash, snd, rcv, originalTx, identifier) ==
  [B(t) EXCEPT !.scrs = {Result(hash, snd, rcv, originalTx, 0, 0, 0, {})},
               !.events = <<[hash |-> hash, event |-> Ev(identifier, "b", "")]>>]
Modes ==
  {Scenario(<<Save(Sent(1, 5))>>, <<Save(Arrived(2)), Revert(Arrived(2)), Save(Arrived(3))>>, <<>>, NoDocs, FALSE)}
  \cup
  {Scenario(<<Save(Sent(1, 5))>>, <<Save(Sent(2, 6))>>, <<Settings(~mode)>>, NoDocs, mode) :
     mode \in BOOLEAN}

\* An NFT transfer inside of shard 0, of which shard 1 reports the outcome, and a
\* plain ESDT transfer from shard 0 to shard 1, of which shard 0 does.
Transferred(identifier) ==
  [B(1) EXCEPT !.txs = {Tx("n", "0", "0", "nft", 9)},
               !.events = <<[hash |-> "n", event |-> Ev(identifier, "a", "")]>>]
Moved(t, fee) == [B(t) EXCEPT !.txs = {Tx("x", "0", "1", "esdt", fee)}]
Reports ==
  {Scenario(<<Save(Transferred(own))>>, <<Save(Report(2, "r", "0", "1", "n", reported))>>,
            <<Settings(TRUE)>>, NoDocs, FALSE) :
     own \in {"writeLog", "signalError", "ESDTNFTTransfer"},
     reported \in {"internalVMErrors", "completedTxEvent"}}
  \cup
  {Scenario(<<Save(Moved(1, 5)), Save(Report(3, "r", "1", "0", "x", "signalError"))>>,
            <<Save(Moved(2, 6))>>, <<Settings(~mode)>>, NoDocs, mode) : mode \in BOOLEAN}

\* A transaction from shard 0 that is executed in shard 1, which refunds a part of
\* the fee or not, and two refunds that come back; an NFT transfer inside of shard
\* 1 whose fee is reported by shard 0.  Or the block that sent the transaction is
\* indexed already, and one refund comes back.
SentP == TxDoc(Tx("p", "0", "1", "plain", 10), B(1), "0")
Executed9 == [Tx("p", "0", "1", "plain", 9) EXCEPT !.hadRefund = TRUE]
Fees ==
  {Scenario(<<Save([B(4) EXCEPT !.scrs = {Result("r1", "1", "0", "p", 0, 1, 2, {})}])>>,
            <<Save([B(3) EXCEPT !.txs = {Executed9}])>>, <<>>,
            (DocKey("transactions", "p") :> SentP) @@ (DocKey("operations", "p") :> SentP), FALSE)}
  \cup
  {Scenario(<<Save([B(1) EXCEPT !.txs = {Tx("p", "0", "1", "plain", 10)}]),
              Save([B(4) EXCEPT !.scrs = {Result("r1", "1", "0", "p", 0, 1, 2, {}),
                                          Result("r3", "1", "0", "n", 1, 0, 7, {})}]),
              Save([B(5) EXCEPT !.scrs = {Result("r2", "1", "0", "p", 0, 1, 3, {})}])>>,
            <<Save([B(3) EXCEPT !.txs = {executed, Tx("n", "1", "1", "nft", 9)},
                                !.scrs = {Result("s1", "none", "none", "p", 0, 1, 1, {})}])>>,
            <<>>, NoDocs, FALSE) :
     executed \in {Tx("p", "0", "1", "plain", 10), Executed9}}

Delegation(identifier, stake, funds, deleted) ==
  [identifier |-> identifier, short |-> FALSE, address |-> "a", contract |-> "c",
   activeStake |-> stake, funds |-> funds, deleted |-> deleted]
Delegator(info) == [activeStake |-> 9, timestamp |-> 1, unDelegateInfo |-> info]
UnDelegate(t, fund) == Events(t, <<Delegation("unDelegate", 5, {fund}, FALSE)>>)
Delegations ==
  {Scenario(<<>>, <<>>, first \o <<Save(UnDelegate(4, "g")), last>>, ds, FALSE) :
     first \in {<<Save(UnDelegate(2, "f"))>>,
                <<Save(UnDelegate(2, "f")), Revert(UnDelegate(2, "f"))>>,
                <<Save(UnDelegate(2, "f")), Save(UnDelegate(3, "h")),
                  Revert(UnDelegate(3, "h")), Revert(UnDelegate(2, "f"))>>},
     ds \in {NoDocs, DelegatorKey(<<"a", "c">>) :> Delegator(NoDoc)},
     last \in {Save(Events(5, <<Delegation("withdraw", 4, {"g"}, FALSE)>>)),
               Save(Events(5, <<Delegation("claimRewards", 0, NoDoc, TRUE)>>)),
               Save(Events(5, <<Delegation("delegate", 6, NoDoc, FALSE)>>))}}

\* Two collections are issued in one block, NFTs of both are created elsewhere.
Issue(identifier, type, token) ==
  [identifier |-> identifier, short |-> FALSE, address |-> "sys", token |-> token,
   type |-> type, owner |-> "b"]
Create(token, nonce) ==
  [identifier |-> "ESDTNFTCreate", short |-> FALSE, address |-> "a", token |-> token,
   nonce |-> nonce, data |-> "d", receiver |-> "a"]
Altered(address, token, nonce, isNFTCreate, tags) ==
  [address |-> address, token |-> token, nonce |-> nonce, balance |-> 1, data |-> "d",
   isNFTCreate |-> isNFTCreate, tags |-> tags]
Creation(t, token) ==
  [Events(t, <<Create(token, 1)>>) EXCEPT !.altered = {Altered("a", token, 1, TRUE, {"t"})}]
Burn(t, identifier) ==
  [Events(t, <<[Create("COL", 1) EXCEPT !.identifier = identifier]>>)
   EXCEPT !.altered = {[Altered("a", "COL", 1, FALSE, {}) EXCEPT !.balance = 0]}]
NFTs ==
  {Scenario(<<Save(Creation(2, "COL"))>>, <<>>,
            <<Save(Events(1, <<Issue("issueNonFungible", "NonFungibleESDT", "OTHER"),
                               Issue("issueNonFungible", "NonFungibleESDT", "COL")>>))>>,
            NoDocs, FALSE),
   Scenario(<<Save(Events(2, <<Create("OTHER", 1), Create("COL", 1)>>))>>, <<>>,
            <<Save(Events(1, <<Issue("issueNonFungible", "NonFungibleESDT", "OTHER"),
                               Issue("issueNonFungible", "NonFungibleESDT", "COL")>>))>>,
            NoDocs, FALSE)}
  \cup
  {Scenario(<<Save(x[1]), Save(Burn(4, x[2]))>>, <<>>,
            <<Save(Events(1, <<Issue("issue", x[3], "COL")>>))>>, NoDocs, FALSE) :
     x \in {<<Events(2, <<Create("COL", 1)>>), "ESDTNFTBurn", "NonFungibleESDT">>,
            <<Events(2, <<Create("COL", 1)>>), "ESDTWipe", "MetaESDT">>,
            <<Creation(2, "COL"), "ESDTWipe", "FungibleESDT">>}}

\* The metachain issues a token and gives it another owner, shard 0 sets a role
\* and takes it back, shard 1 pauses the token.
Role(identifier, roles) ==
  [identifier |-> identifier, short |-> FALSE, address |-> "a", token |-> "COL", roles |-> roles]
IssueCOL == Save(Events(1, <<Issue("issueNonFungible", "NonFungibleESDT", "COL")>>))
TransferCOL == Save(Events(5, <<Issue("transferOwnership", "NonFungibleESDT", "COL")>>))
SetRole == Save(Events(3, <<Role("ESDTSetRole", <<"ESDTRoleNFTCreate">>)>>))
UnSetRole == Save(Events(4, <<Role("ESDTUnSetRole", <<"ESDTRoleNFTCreate">>)>>))
SetForAll == Save(Events(4, <<Role("ESDTSetBurnRoleForAll", <<"ESDTRoleBurnForAll">>)>>))
Pause == Save(Events(2, <<Ev("ESDTPause", "b", "COL")>>))
Tokens ==
  {Scenario(x[1], x[2], x[3], NoDocs, FALSE) :
     x \in {<< <<SetRole, UnSetRole>>, <<>>, <<IssueCOL>> >>,
            << <<SetForAll>>, <<Pause>>, <<IssueCOL>> >>,
            << <<SetRole>>, <<>>, <<IssueCOL, TransferCOL>> >>}}
  \cup
  {Scenario(<<Save(Events(3, <<[identifier |-> "ESDTNFTCreateRoleTransfer", short |-> FALSE,
                                address |-> "a", token |-> "COL", set |-> FALSE]>>))>>, <<>>,
            <<Save(Events(1, <<Issue("issueNonFungible", "NonFungibleESDT", "COL"),
                               [identifier |-> "upgradeProperties", short |-> FALSE, address |-> "sys",
                                token |-> "COL", properties |-> ("canBurn" :> TRUE)]>>)),
              Save(Events(5, <<Issue("changeToDynamic", "DynamicNonFungibleESDT", "COL")>>))>>,
            NoDocs, FALSE)}

\* A contract is deployed, upgraded and given away; NFTs are created and changed.
Deploy(identifier) ==
  [identifier |-> identifier, short |-> FALSE, address |-> "c", contract |-> "c", owner |-> "a"]
Change(identifier, value) ==
  [identifier |-> identifier, short |-> FALSE, address |-> "a", token |-> "COL", nonce |-> 1, value |-> value]
Contracts ==
  {Scenario(<<Save([Events(1, <<Deploy("SCDeploy")>>) EXCEPT
                      !.altered = {Altered("a", "COL", 1, TRUE, {"t", ""}), Altered("a", "COL", 2, TRUE, {"t"})}]),
              Save(Events(2, <<Deploy("SCUpgrade"), Deploy("ChangeOwnerAddress")>>))>>,
            <<Save([B(3) EXCEPT !.altered = {Altered("b", "COL", 3, TRUE, {"t"}), Altered("b", "COL", 1, FALSE, {"t"})}])>>,
            <<>>, NoDocs, FALSE)}
  \cup
  {Scenario(<<Save(Creation(1, "COL")), Save(Events(2, <<change>>))>>, <<>>, <<>>, NoDocs, FALSE) :
     change \in {Change("ESDTNFTUpdateAttributes", "new"), Change("ESDTNFTAddURI", {"u"}),
                 Change("ESDTSetNewURIs", {"u"}), Change("ESDTFreeze", ""), Change("ESDTUnFreeze", ""),
                 Change("ESDTMetaDataRecreate", ""), Change("ESDTMetaDataUpdate", "m"),
                 Change("ESDTModifyCreator", ""), Change("ESDTModifyRoyalties", "5")}}

\* Results from the main chain: a known NFT, an NFT with the chain's own prefix,
\* a token with another prefix and, in the second block, an unknown token.  Or
\* this chain gives a role for a token between two results that bring it.
Received(prefix, token, nonce) == [prefix |-> prefix, token |-> token, nonce |-> nonce]
FromMain(t, tokens) == [B(t) EXCEPT !.scrs = {Result(ToString(t), "main", "0", "o", 0, 0, 0, tokens)}]
CrossChain ==
  {Scenario(<<Save(FromMain(1, {Received("", "MAIN", 1), Received("sov", "OWN", 1)})),
              Save(FromMain(2, {Received("", "MAIN", 0), Received("abc", "OTHER", 0)}))>>,
            <<>>, <<>>, ds, FALSE) :
     ds \in {NoDocs, DocKey("tokens", "MAIN") :> [EmptyDoc EXCEPT !.token = "MAIN", !.paused = "true"]}}
  \cup
  {Scenario(<<Save(FromMain(1, {Received("", "MAIN", 0)})),
              Save(Events(2, <<[Role("ESDTSetRole", <<"ESDTRoleNFTCreate">>) EXCEPT !.token = "MAIN"]>>)),
              Save(FromMain(3, {Received("", "MAIN", 1)}))>>, <<>>, <<>>, NoDocs, FALSE)}

MCScenarios ==
  Modes \cup Reports \cup Fees \cup Delegations \cup NFTs \cup Tokens \cup Contracts \cup CrossChain
=============================================================================
