--------------------------- MODULE SovereignTokens ---------------------------
(***************************************************************************)
(* tokens/sovereignIndexTokensHandler.go: the tokens that smart contract   *)
(* results bring from the main chain are looked up in the index "tokens"   *)
(* and, when they are not there, in the one of the main chain, and the     *)
(* documents found are copied.                                             *)
(***************************************************************************)
EXTENDS TokensIndex

CONSTANTS
  MainChain,        \* core.MainChainShardId, the sender of such a result
  OwnPrefix,        \* the ESDT prefix of the sovereign chain
  MainChainTokens   \* the index "tokens" of the main chain: documents by key

\* A token in a result: [prefix, token, nonce]; prefix is "" without one.  The
\* collection of a prefixed NFT is looked up without the prefix, also when the
\* prefix is the chain's own.
extractNewSovereignTokens(x) ==
  LET id == DocKey("tokens", x.token)
  IN  (IF x.prefix = "" \/ x.prefix # OwnPrefix
         THEN {[Key("tokens", x.token, x.nonce, "") EXCEPT !.holder = x.prefix]} ELSE {})
      \cup (IF x.nonce > 0 THEN {id} ELSE {})

ReceivedTokens(b) ==
  UNION {UNION {extractNewSovereignTokens(x) : x \in scr.tokens} :
           scr \in {r \in b.scrs : r.snd = MainChain}}

\* Mutant: the tokens are copied again, also when they are there.
allReceived(b, docs) == ReceivedTokens(b)

getNewTokensFromSCRs(b, docs) == {k \in ReceivedTokens(b) : DoGet(docs, k) = NoDoc}

\* formatToken: the owners before and the properties are not copied.
formatToken(doc) == [doc EXCEPT !.ownersHistory = <<>>, !.properties = NoDocs]

\* What the main chain has, and what is copied of it, are documents.
ASSUME MainChainAssumption ==
  \A k \in DOMAIN MainChainTokens :
    MainChainTokens[k] # NoDoc /\ formatToken(MainChainTokens[k]) # NoDoc

\* A token that the main chain does not have gives an operation without id.
NoId == DocKey("tokens", "")
serializeNewTokens(keys) ==
  ForEach(keys, LAMBDA k :
    IF DoGet(MainChainTokens, k) = NoDoc THEN Operation(NoId, "index", EmptyDoc)
    ELSE Operation(k, "index", formatToken(DoGet(MainChainTokens, k))))
=============================================================================
