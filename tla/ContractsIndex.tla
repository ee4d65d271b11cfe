--------------------------- MODULE ContractsIndex ---------------------------
(***************************************************************************)
(* The index "scdeploys" of contracts, with their upgrades and owners, and *)
(* the index "tags", which counts the NFTs that were created with a tag.   *)
(***************************************************************************)
EXTENDS LogsAndEvents

\* ParseTags: the duplicates of one NFT, and the empty tag, do not count.
TagCount(b, tag) == Cardinality({x \in b.altered : x.isNFTCreate /\ tag \in x.tags})
ParsedTags(b) == UNION {x.tags : x \in {a \in b.altered : a.isNFTCreate}} \ {""}

SerializeTags(b) ==
  ForEach(ParsedTags(b), LAMBDA tag :
    Operation(DocKey("tags", tag), "tag", TagCount(b, tag)))

\* Mutant: a tag that is known counts one more, however often the block has it.
addOne(stored, count) ==
  IF stored = NoDoc THEN [count |-> count] ELSE [stored EXCEPT !.count = @ + 1]

TagScript(stored, count) ==
  IF stored = NoDoc THEN [count |-> count] ELSE [stored EXCEPT !.count = @ + count]

NoContract == [currentOwner |-> "", upgrades |-> <<>>, owners |-> <<>>]

\* A deployment that is repeated counts as an upgrade.
serializeDeploy(stored, deploy) ==
  IF stored = NoDoc THEN [NoContract EXCEPT !.currentOwner = deploy.owner]
  ELSE [stored EXCEPT !.upgrades = Append(@, deploy.hash)]

\* The change of the owner of an unknown contract inserts an empty document.
changeOwner(stored, change) ==
  IF stored = NoDoc THEN NoContract
  ELSE [stored EXCEPT !.currentOwner = change.owner, !.owners = Append(@, change.owner)]

SerializeSCDeploys(d) ==
  ForEach(DOMAIN d.scDeploys, LAMBDA contract :
    Operation(DocKey("scdeploys", contract), "deploy", d.scDeploys[contract]))

SerializeChangeOwnerOperations(d) ==
  ForEach(DOMAIN d.changeOwnerOperations, LAMBDA contract :
    Operation(DocKey("scdeploys", contract), "change owner",
              d.changeOwnerOperations[contract]))
=============================================================================
