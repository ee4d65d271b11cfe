--------------------------- MODULE MCClusterTools ---------------------------
(***************************************************************************)
(* ClusterTools with three documents, two of them with one timestamp.  The *)
(* pages have one document, the maps are checked every second round.       *)
(***************************************************************************)
EXTENDS ClusterTools

CONSTANTS d1, d2, d3

MCIds == {d1, d2, d3}
MCTimestamp == [id \in MCIds |-> IF id = d3 THEN 4 ELSE 1]
MCUnpreparable == {d3}
MCFromMetachain == {d2}

Doc(status, parsed) == [status |-> status, parsed |-> parsed]

\* d1 and d2 may be on either side, d3 may be missing from the destination.
MCInitialClusters ==
  {[s \in Sides |-> IF s = "source" THEN src ELSE dst] :
     src \in {f \in [MCIds -> {NoDoc, Doc("pending", FALSE), Doc("success", FALSE)}] :
                f[d3] = Doc("success", FALSE) /\ f[d2] # Doc("pending", FALSE)},
     dst \in {f \in [MCIds -> {NoDoc, Doc("success", FALSE), Doc("success", TRUE)}] :
                f[d2] # Doc("success", TRUE) /\ f[d3] # Doc("success", TRUE)}}
=============================================================================
