----------------------------- MODULE TokensIndex -----------------------------
(***************************************************************************)
(* The documents of tokens: collections and NFTs in the index "tokens",    *)
(* collections in "esdts", and the tokens of accounts in "accountsesdt".   *)
(* An update with a script and an upsert inserts the upsert when there is  *)
(* no document, and does not run the script.                               *)
(***************************************************************************)
EXTENDS LogsAndEvents

FungibleESDT == "FungibleESDT"
NonFungibleTypes == {"NonFungibleESDT", "NonFungibleESDTv2", "DynamicNonFungibleESDT"}
MetaTypes == {"MetaESDT", "DynamicMetaESDT"}

NoData == [attributes |-> "", uris |-> {}, creator |-> "", royalties |-> ""]

\* "" and 0 stand for a field that is not there.  The properties that the
\* document of an issue has are FALSE until they are changed.
EmptyDoc ==
  [token |-> "", type |-> "", owner |-> "", ownersHistory |-> <<>>, timestamp |-> 0,
   hasRoles |-> FALSE, roles |-> {}, properties |-> NoDocs,
   paused |-> "", frozen |-> "", data |-> NoDoc]
-----------------------------------------------------------------------------
(***************************************************************************)
(* logsevents/serialize.go: issues, roles and properties.                  *)
(***************************************************************************)
TokenInfoDoc(info) ==
  [EmptyDoc EXCEPT !.token = info.token, !.type = info.type, !.owner = info.owner,
                   !.ownersHistory = <<info.owner>>, !.timestamp = info.timestamp]

\* Mutant: the roles are lost when the token is issued after them.
replaceToken(stored, info) == TokenInfoDoc(info)

\* A document that has no roles yet is left as it is.
serializeToken(stored, info) ==
  IF stored = NoDoc THEN TokenInfoDoc(info)
  ELSE IF stored.hasRoles
    THEN [TokenInfoDoc(info) EXCEPT !.hasRoles = TRUE, !.roles = stored.roles]
    ELSE stored

serializeTokenChangeType(stored, info) ==
  IF stored = NoDoc THEN EmptyDoc ELSE [stored EXCEPT !.type = info.type]

serializeTokenTransferOwnership(stored, info) ==
  IF stored = NoDoc THEN TokenInfoDoc(info)
  ELSE [stored EXCEPT !.ownersHistory = Append(@, info.owner), !.owner = info.owner]

TokenScript(stored, info) ==
  IF info.transferOwnership THEN serializeTokenTransferOwnership(stored, info)
  ELSE IF info.changeToDynamic THEN serializeTokenChangeType(stored, info)
  ELSE serializeToken(stored, info)

\* To take a role from a token without a document inserts an empty document.
serializeRoleData(stored, role) ==
  LET entry == <<role.role, role.address>>
      doc == IF stored = NoDoc THEN EmptyDoc ELSE stored
  IN  IF role.set THEN [doc EXCEPT !.hasRoles = TRUE, !.roles = @ \cup {entry}]
                  ELSE [doc EXCEPT !.roles = @ \ {entry}]

\* The properties of a token without a document are lost.
serializePropertiesData(stored, properties) ==
  IF stored = NoDoc THEN EmptyDoc ELSE [stored EXCEPT !.properties = properties @@ @]

\* The updates of NFTs that follow the issues in one index.  In accountsesdt
\* the document is the one of the address that emitted the event, and a freeze
\* or a pause counts as new attributes, which are empty; so does metadata that
\* could not be decoded.
PrepareNFTUpdateData(updates, isAccountsESDTIndex, index) ==
  [i \in DOMAIN updates |->
     LET u == updates[i]
         plain == u.change = "none" \/ (isAccountsESDTIndex /\ u.change \in {"frozen", "paused"})
     IN  Operation(Key(index, u.token, u.nonce, IF isAccountsESDTIndex THEN u.address ELSE ""),
                   "nft update", IF plain THEN [u EXCEPT !.change = "attributes", !.value = ""]
                                          ELSE u)]

NFTUpdateScript(stored, u) ==
  IF stored = NoDoc THEN EmptyDoc
  ELSE CASE u.change = "frozen" -> [stored EXCEPT !.frozen = u.value]
         [] u.change = "paused" -> [stored EXCEPT !.paused = u.value]
         [] u.change = "metaData" -> [stored EXCEPT !.data = [NoData EXCEPT !.attributes = u.value]]
         [] stored.data = NoDoc -> stored
         [] u.change = "creator" -> [stored EXCEPT !.data.creator = u.value]
         [] u.change = "royalties" -> [stored EXCEPT !.data.royalties = u.value]
         [] u.change = "addURIs" -> [stored EXCEPT !.data.uris = @ \cup u.value]
         [] u.change = "setURIs" -> [stored EXCEPT !.data.uris = u.value]
         [] u.change = "attributes" -> [stored EXCEPT !.data.attributes = u.value]

SerializeTokens(d, index) ==
  [i \in DOMAIN d.tokensInfo |->
     Operation(DocKey(index, d.tokensInfo[i].token), "token", d.tokensInfo[i])]
  \o PrepareNFTUpdateData(d.nftsDataUpdates, FALSE, index)

\* Role by role, the changes of one role in the order of the events.
SerializeRolesData(d, index) ==
  LET ofRole(role) ==
        [i \in DOMAIN d.rolesData[role] |->
           LET rd == d.rolesData[role][i]
           IN  Operation(DocKey(index, rd.token), "role",
                         [role |-> role, address |-> rd.address, set |-> rd.set])]
  IN  FlattenSeq(ForEach(DOMAIN d.rolesData, ofRole))
      \o [i \in DOMAIN d.tokenProperties |->
            Operation(DocKey(index, d.tokenProperties[i].token), "properties",
                      d.tokenProperties[i].properties)]
-----------------------------------------------------------------------------
(***************************************************************************)
(* data/tokens.go: the type and the owner of the collections, as a         *)
(* multi-get of "tokens" found them.                                       *)
(***************************************************************************)
\* Mutant: the type is put to the tokens with the id of the response only.
onlyCollections(tokensInfo, docs) ==
  [id \in DOMAIN tokensInfo |->
     LET found == DoGet(docs, DocKey("tokens", tokensInfo[id].token))
     IN  IF found = NoDoc \/ tokensInfo[id].nonce > 0 THEN tokensInfo[id]
         ELSE [tokensInfo[id] EXCEPT !.type = found.type, !.owner = found.owner]]

AddTypeAndOwnerFromResponse(tokensInfo, docs) ==
  [id \in DOMAIN tokensInfo |->
     LET found == DoGet(docs, DocKey("tokens", tokensInfo[id].token))
     IN  IF found = NoDoc THEN tokensInfo[id]
         ELSE [tokensInfo[id] EXCEPT !.type = found.type, !.owner = found.owner]]

GetAllWithoutMetaESDT(tokensInfo) ==
  {id \in DOMAIN tokensInfo : tokensInfo[id].type \notin MetaTypes}

NFTDoc(info, timestamp) ==
  [EmptyDoc EXCEPT !.token = info.token, !.type = info.type, !.owner = info.owner,
                   !.timestamp = timestamp, !.data = [NoData EXCEPT !.attributes = info.data]]

\* indexNFTCreateInfo: the documents of new NFTs replace what is stored.
SerializeNFTCreateInfo(d, docs) ==
  LET tokensInfo == AddTypeAndOwnerFromResponse(d.tokens, docs)
  IN  ForEach(GetAllWithoutMetaESDT(tokensInfo), LAMBDA id :
        Operation(Key("tokens", id[1], id[2], ""), "index",
                  NFTDoc(tokensInfo[id], d.timestamp)))

\* indexNFTBurnInfo: an NFT that is not one of many is deleted.
SerializeSupplyData(d, docs) ==
  LET tokensInfo == AddTypeAndOwnerFromResponse(d.tokensSupply, docs)
      burnt == {id \in DOMAIN tokensInfo : tokensInfo[id].type \in NonFungibleTypes}
  IN  ForEach(burnt, LAMBDA id : Operation(Key("tokens", id[1], id[2], ""), "delete", NoDoc))
-----------------------------------------------------------------------------
(***************************************************************************)
(* accounts: the tokens of the altered accounts.                           *)
(***************************************************************************)
\* PrepareAccountsMapESDT: a token without balance is not looked up.
AccountsTokens(b) ==
  LET held == {x \in b.altered : x.balance > 0}
  IN  [id \in {<<x.token, x.nonce>> : x \in held} |->
         [token |-> id[1], nonce |-> id[2], type |-> "", owner |-> ""]]

AccountDoc(x, tokensInfo, timestamp) ==
  LET id == <<x.token, x.nonce>>
      looked == id \in DOMAIN tokensInfo
  IN  [EmptyDoc EXCEPT !.token = x.token, !.timestamp = timestamp,
         !.type = IF looked THEN tokensInfo[id].type
                  ELSE IF x.nonce = 0 THEN FungibleESDT ELSE "",
         !.owner = IF looked THEN tokensInfo[id].owner ELSE "",
         !.data = IF x.nonce = 0 THEN NoDoc ELSE [NoData EXCEPT !.attributes = x.data]]

\* prepareSerializedAccountInfo, prepareDeleteAccountInfo: a document of a later
\* block stays.  Fields that the new document lacks are kept.
accountIsNewer(stored, doc) == stored.timestamp <= doc.timestamp
prepareSerializedAccountInfo(stored, doc) ==
  IF stored = NoDoc THEN doc
  ELSE IF ~accountIsNewer(stored, doc) THEN stored
  ELSE [stored EXCEPT !.token = doc.token, !.timestamp = doc.timestamp,
          !.type = IF doc.type # "" THEN doc.type ELSE @,
          !.owner = IF doc.owner # "" THEN doc.owner ELSE @,
          !.data = IF doc.data # NoDoc THEN doc.data ELSE @]
prepareDeleteAccountInfo(stored, timestamp) ==
  IF stored = NoDoc \/ stored.timestamp > timestamp THEN stored ELSE NoDoc

\* addTokenTypeAndCurrentOwnerInAccountsESDT, SerializeAccountsESDT.
SerializeAccountsESDT(b, d, docs) ==
  LET tokensInfo == AddTypeAndOwnerFromResponse(AccountsTokens(b), docs)
      op(x) ==
        LET k == Key("accountsesdt", x.token, x.nonce, x.address)
        IN  IF x.balance = 0 THEN Operation(k, "delete account", b.timestamp)
            ELSE Operation(k, "account", AccountDoc(x, tokensInfo, b.timestamp))
  IN  ForEach(b.altered, op)
      \o PrepareNFTUpdateData(d.nftsDataUpdates, TRUE, "accountsesdt")
-----------------------------------------------------------------------------
(***************************************************************************)
(* updateTokenType.go: the documents of a collection that lack the type    *)
(* are searched, and written at once.                                      *)
(***************************************************************************)
\* The tokens that addTokenType looks at, in the order of the events.
TypedTokens(d) == SelectSeq(d.tokensInfo, LAMBDA info : info.type # FungibleESDT)

\* What the query finds among the visible documents: the count and all pages of
\* the scroll, which is over what was visible when it was opened.
WithoutType(seen, token) == {k \in DOMAIN seen : seen[k].token = token /\ seen[k].type = ""}

SerializeTypeForProvidedIDs(keys, type) ==
  ForEach(keys, LAMBDA k : Operation(k, "type", type))

TypeScript(stored, type) == IF stored = NoDoc THEN NoDoc ELSE [stored EXCEPT !.type = type]
=============================================================================
