--------------------------- MODULE MCAccountsIndex ---------------------------
(***************************************************************************)
(* AccountsIndex with an account in each of two shards and one token.  The *)
(* account of s0 sends, receives, spends all of its tokens or has them     *)
(* frozen; the account of s1 only receives, at the timestamps of s0.       *)
(***************************************************************************)
EXTENDS AccountsIndex

CONSTANTS s0, s1, a0, a1, tk

MCShards == {s0, s1}
MCAccounts == {a0, a1}
MCTokens == {tk}
MCShardOf == [a \in MCAccounts |-> IF a = a0 THEN s0 ELSE s1]

Altered(balance, changed, tokens) ==
  [balance |-> balance, balanceChanged |-> changed, isSender |-> FALSE, tokens |-> tokens]
Held(balance, frozen) == {[token |-> tk, balance |-> balance, frozen |-> frozen]}

MCContents == [s \in MCShards |->
  IF s = s0 THEN {[a \in {a0} |-> Altered(1, TRUE, Held(1, FALSE))],
                  [a \in {a0} |-> Altered(0, FALSE, Held(2, TRUE))],
                  [a \in {a0} |-> Altered(2, FALSE, Held(0, FALSE))]}
  ELSE {[a \in {a1} |-> Altered(1, FALSE, Held(1, FALSE))]}]

MCProvided == [s \in MCShards |->
  IF s = s1 THEN {[a \in {a1} |-> Altered(1, FALSE, {})]} ELSE {}]
=============================================================================
