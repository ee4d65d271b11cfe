--------------------------- MODULE DelegatorsIndex ---------------------------
(***************************************************************************)
(* logsevents/serializeDelegators.go: the index "delegators" and what a    *)
(* revert takes out of it.                                                 *)
(***************************************************************************)
EXTENDS LogsAndEvents

\* The delegator as it is marshalled: what was unDelegated is not in it.
\* NoDoc stands for a document without the field unDelegateInfo.
DelegatorDoc(delegator) ==
  [activeStake |-> delegator.activeStake, timestamp |-> delegator.timestamp,
   unDelegateInfo |-> NoDoc]

\* Mutant: what was unDelegated replaces what is stored.
replaceInfo(info, new) == new

AddInfo(info, new) == IF info = NoDoc THEN new ELSE info \o new

Stake(stored, delegator) ==
  [stored EXCEPT !.activeStake = delegator.activeStake, !.timestamp = delegator.timestamp]

prepareSerializedDataForUnDelegate(stored, delegator) ==
  LET new == ForEach(delegator.unDelegated, LAMBDA fund :
               [id |-> fund, timestamp |-> delegator.timestamp])
  IN  Stake([stored EXCEPT !.unDelegateInfo = AddInfo(@, new)], delegator)

\* Without the field, the script returns before it writes the stake.
prepareSerializedDataForWithdrawal(stored, delegator) ==
  IF stored.unDelegateInfo = NoDoc THEN stored
  ELSE LET left == SelectSeq(stored.unDelegateInfo,
                             LAMBDA info : info.id \notin delegator.withdrawn)
       IN  Stake([stored EXCEPT !.unDelegateInfo = IF left = <<>> THEN NoDoc ELSE left],
                 delegator)

prepareSerializedDelegator(stored, delegator) ==
  IF delegator.shouldDelete THEN NoDoc
  ELSE IF stored = NoDoc THEN DelegatorDoc(delegator)
  ELSE IF delegator.unDelegated # NoDoc THEN prepareSerializedDataForUnDelegate(stored, delegator)
  ELSE IF delegator.withdrawn # NoDoc THEN prepareSerializedDataForWithdrawal(stored, delegator)
  ELSE Stake(stored, delegator)

DelegatorKey(id) == Key("delegators", id[1], 0, id[2])

SerializeDelegators(d) ==
  ForEach(DOMAIN d.delegators, LAMBDA id :
    Operation(DelegatorKey(id), "delegator", d.delegators[id]))

\* PrepareDelegatorsQueryInCaseOfRevert: the documents that the query matches,
\* and what its script makes of one.
RevertMatches(seen, timestamp) == {k \in DOMAIN seen : seen[k].timestamp = timestamp}
RevertScript(stored, timestamp) ==
  IF stored.unDelegateInfo = NoDoc THEN stored
  ELSE [stored EXCEPT !.unDelegateInfo =
          SelectSeq(@, LAMBDA info : info.timestamp # timestamp)]
=============================================================================
