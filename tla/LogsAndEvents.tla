---------------------------- MODULE LogsAndEvents ----------------------------
(***************************************************************************)
(* process/elasticproc/logsevents: what ExtractDataFromLogs collects from  *)
(* the events of a block.  An event has an identifier, the address that    *)
(* emitted it and what its topics hold; an event that has too few topics   *)
(* is short.  The sets of identifiers are disjoint, so an event is taken   *)
(* by one processor at most.  What the informative processor does to the   *)
(* status of a transaction is in TransactionsIndex, and in OperationsIndex *)
(* with every kind of its events.                                          *)
(***************************************************************************)
EXTENDS Documents

CONSTANT ShardOf   \* ShardOf[address], as sharding.ComputeShardID has it

DeployIdentifiers == {"SCDeploy", "SCUpgrade", "ChangeOwnerAddress"}
PropertyIdentifiers == {"ESDTNFTAddURI", "ESDTNFTUpdateAttributes", "ESDTFreeze",
  "ESDTUnFreeze", "ESDTPause", "ESDTUnPause", "ESDTMetaDataRecreate",
  "ESDTMetaDataUpdate", "ESDTSetNewURIs", "ESDTModifyCreator", "ESDTModifyRoyalties"}
RoleIdentifiers == {"ESDTSetRole", "ESDTUnSetRole", "ESDTNFTCreateRoleTransfer",
  "upgradeProperties", "ESDTUnSetBurnRoleForAll", "ESDTSetBurnRoleForAll"}
IssueIdentifiers == {"issue", "issueSemiFungible", "issueNonFungible",
  "registerMetaESDT", "changeSFTToMetaESDT", "transferOwnership",
  "registerAndSetAllRoles", "registerDynamic", "registerAndSetAllRolesDynamic",
  "changeToDynamic"}
DelegatorIdentifiers ==
  {"delegate", "unDelegate", "withdraw", "reDelegateRewards", "claimRewards"}
NFTIdentifiers == {"ESDTNFTBurn", "ESDTNFTCreate", "ESDTWipe"}

\* The struct logsData, empty.
newLogsData(timestamp, shard) ==
  [timestamp |-> timestamp, shard |-> shard,
   scDeploys |-> NoDocs, changeOwnerOperations |-> NoDocs, delegators |-> NoDocs,
   tokens |-> NoDocs, tokensSupply |-> NoDocs,
   tokensInfo |-> <<>>, nftsDataUpdates |-> <<>>,
   rolesData |-> NoDocs, tokenProperties |-> <<>>]

\* A later event of the block about the same contract replaces an earlier one.
scDeploysProcessor(d, hash, e) ==
  IF e.identifier = "ChangeOwnerAddress"
    THEN [d EXCEPT !.changeOwnerOperations =
            With(@, e.address, [owner |-> e.owner, hash |-> hash])]
    ELSE [d EXCEPT !.scDeploys =
            With(@, e.contract, [owner |-> e.owner, hash |-> hash])]

\* A pause is about the whole token and has no address.  Metadata that cannot
\* be decoded leaves an update without any change: see PrepareNFTUpdateData.
NFTUpdate(e) ==
  LET update(change, value) ==
        [token |-> e.token, nonce |-> e.nonce, address |-> e.address,
         change |-> change, value |-> value]
  IN  CASE e.identifier = "ESDTNFTUpdateAttributes" -> update("attributes", e.value)
        [] e.identifier = "ESDTNFTAddURI" -> update("addURIs", e.value)
        [] e.identifier = "ESDTSetNewURIs" -> update("setURIs", e.value)
        [] e.identifier = "ESDTFreeze" -> update("frozen", "true")
        [] e.identifier = "ESDTUnFreeze" -> update("frozen", "false")
        [] e.identifier \in {"ESDTMetaDataRecreate", "ESDTMetaDataUpdate"} ->
             IF e.value = "" THEN update("none", "") ELSE update("metaData", e.value)
        [] e.identifier = "ESDTModifyCreator" -> update("creator", e.address)
        [] e.identifier = "ESDTModifyRoyalties" -> update("royalties", e.value)

nftsPropertiesProc(d, e) ==
  IF e.identifier \in {"ESDTPause", "ESDTUnPause"}
    THEN [d EXCEPT !.nftsDataUpdates = Append(@,
            [token |-> e.token, nonce |-> 0, address |-> "", change |-> "paused",
             value |-> IF e.identifier = "ESDTPause" THEN "true" ELSE "false"])]
    ELSE IF e.nonce = 0 THEN d
    ELSE [d EXCEPT !.nftsDataUpdates = Append(@, NFTUpdate(e))]

\* The roles by name, in the order of the events.
AddRole(d, token, address, role, set) ==
  LET of == IF role \in DOMAIN d.rolesData THEN d.rolesData[role] ELSE <<>>
  IN  [d EXCEPT !.rolesData = With(@, role,
         Append(of, [token |-> token, address |-> address, set |-> set]))]

\* One of the roles that an event sets or takes; a role for all is kept without
\* address.
ChangeRole(d, e, role) ==
  AddRole(d, e.token, IF role = "ESDTRoleBurnForAll" THEN "" ELSE e.address, role,
          e.identifier \in {"ESDTSetRole", "ESDTSetBurnRoleForAll"})
ChangeRoles(d, e) ==
  LET after[n \in 0..Len(e.roles)] == IF n = 0 THEN d ELSE ChangeRole(after[n - 1], e, e.roles[n])
  IN  after[Len(e.roles)]

\* The other events about roles have a list of them.
RolesOK(e) ==
  e.identifier \in RoleIdentifiers \ {"upgradeProperties", "ESDTNFTCreateRoleTransfer"} => IsSeq(e.roles)

esdtPropertiesProc(d, e) ==
  CASE e.identifier = "upgradeProperties" ->
         [d EXCEPT !.tokenProperties =
            Append(@, [token |-> e.token, properties |-> e.properties])]
    [] e.identifier = "ESDTNFTCreateRoleTransfer" ->
         AddRole(d, e.token, e.address, "ESDTRoleNFTCreate", e.set)
    [] OTHER -> ChangeRoles(d, e)

\* A transfer whose topics lack the new owner counts as an issue.
esdtIssueProcessor(d, e) ==
  LET transfer == e.identifier = "transferOwnership" /\ e.owner # ""
  IN  [d EXCEPT !.tokensInfo = Append(@,
         [token |-> e.token, type |-> e.type,
          owner |-> IF transfer THEN e.owner ELSE e.address,
          timestamp |-> d.timestamp, transferOwnership |-> transfer,
          changeToDynamic |-> e.identifier = "changeToDynamic"])]

\* A later event of the block about the same delegator and contract replaces an
\* earlier one.  claimRewards matters only when it deletes the delegator.  funds
\* are the keys in the topics behind the fourth, if there are any.
delegatorsProc(d, e) ==
  LET fundsOf(identifier) == IF e.identifier = identifier THEN e.funds ELSE NoDoc
      delegator ==
        [address |-> e.address, contract |-> e.contract, timestamp |-> d.timestamp,
         activeStake |-> e.activeStake,
         shouldDelete |-> e.identifier \in {"withdraw", "claimRewards"} /\ e.deleted,
         unDelegated |-> fundsOf("unDelegate"), withdrawn |-> fundsOf("withdraw")]
  IN  IF e.identifier = "claimRewards" /\ ~e.deleted THEN d
      ELSE [d EXCEPT !.delegators = With(@, <<e.address, e.contract>>, delegator)]

IsSender(d, e) == ShardOf[e.address] = d.shard

\* An NFT counts where its event was emitted, a wipe also where the account is
\* that lost it.  Token data that cannot be decoded is left out.
nftsProcessor(d, e) ==
  LET id == <<e.token, e.nonce>>
      supply(x) == [x EXCEPT !.tokensSupply =
                      With(@, id, [token |-> e.token, nonce |-> e.nonce, type |-> "", owner |-> ""])]
      wiped == e.identifier = "ESDTWipe" /\ ShardOf[e.receiver] = d.shard
  IN  CASE e.nonce = 0 -> d
        [] e.identifier = "ESDTNFTCreate" ->
             IF IsSender(d, e) /\ e.data # NoDoc
               THEN [d EXCEPT !.tokens =
                      With(@, id, [token |-> e.token, nonce |-> e.nonce, type |-> "",
                                   owner |-> "", data |-> e.data])]
               ELSE d
        [] OTHER -> IF IsSender(d, e) \/ wiped THEN supply(d) ELSE d

processEvent(d, hash, e) ==
  CASE e.short -> d
    [] e.identifier \in DeployIdentifiers -> scDeploysProcessor(d, hash, e)
    [] e.identifier \in PropertyIdentifiers -> nftsPropertiesProc(d, e)
    [] e.identifier \in RoleIdentifiers -> esdtPropertiesProc(d, e)
    [] e.identifier \in IssueIdentifiers -> esdtIssueProcessor(d, e)
    [] e.identifier \in DelegatorIdentifiers -> delegatorsProc(d, e)
    [] e.identifier \in NFTIdentifiers -> nftsProcessor(d, e)
    [] OTHER -> d

\* The events of the block, log by log, each with the hash of its transaction.
ExtractDataFromLogs(b, shard) ==
  LET data[n \in 0..Len(b.events)] ==
        IF n = 0 THEN newLogsData(b.timestamp, shard)
        ELSE processEvent(data[n - 1], b.events[n].hash, b.events[n].event)
  IN  data[Len(b.events)]
=============================================================================
