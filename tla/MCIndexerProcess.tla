-------------------------- MODULE MCIndexerProcess --------------------------
(***************************************************************************)
(* IndexerProcess with two indexes, values without a template as with      *)
(* Kibana, and indices-creator as the other starter.                       *)
(***************************************************************************)
EXTENDS IndexerProcess

CONSTANTS indexer, creator, blocks, values, opendistro, h1, r1

MCStarters == {indexer, creator}
MCIsCreator == [p \in MCStarters |-> p = creator]
MCIndexes == <<blocks, values>>
MCTemplates == {blocks, opendistro}
MCMapOrders == {<<blocks>>}
MCRecorders == {h1}
MCReaders == {r1}
=============================================================================
