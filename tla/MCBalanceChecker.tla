-------------------------- MODULE MCBalanceChecker --------------------------
(***************************************************************************)
(* BalanceChecker with a user, which may hold two tokens, and a contract.  *)
(***************************************************************************)
EXTENDS BalanceChecker

CONSTANTS u, c, t1, t2

MCAccounts == {u, c}
MCContracts == {c}
MCTokens == {t1, t2}
MCHeld == {<<u, t1>>, <<u, t2>>, <<c, t1>>}
MCActive == {<<u, EGLD>>, <<u, t1>>}
MCPageOf == [a \in MCAccounts |-> IF a = u THEN 1 ELSE 2]

\* The balance id is in any state, the others are 1 and have their document.
Variant(m, ids, repair, id, b, op, d) ==
  [mode |-> m, doRepair |-> repair,
   balance |-> [i \in ids |-> IF i = id THEN b ELSE 1],
   operation |-> [i \in ids |-> IF i = id THEN op ELSE 0],
   doc |-> [i \in ids |-> IF i = id THEN d ELSE [balance |-> 1, timestamp |-> 1]]]
Variants(m, ids, varied) ==
  {Variant(m, ids, TRUE, id, b, op, d) : id \in varied, b \in {0, 1}, op \in {0, 1, 2},
     d \in {NoDoc, [balance |-> 1, timestamp |-> 1], [balance |-> 2, timestamp |-> 1],
           [balance |-> 2, timestamp |-> 0]}}
  \cup {Variant(m, ids, FALSE, id, 0, 2, [balance |-> 2, timestamp |-> 0]) : id \in varied}
MCSetups == Variants("egld", MCAccounts \X {EGLD}, {<<u, EGLD>>})
            \cup Variants("esdt", MCHeld, {<<u, t1>>, <<c, t1>>})
=============================================================================
