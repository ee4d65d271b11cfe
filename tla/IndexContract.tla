---------------------------- MODULE IndexContract ----------------------------
(***************************************************************************)
(* What the indexer promises to the observers about the index "blocks":    *)
(* the messages of a shard are carried out one after the other, in the     *)
(* order of its log, each one at least once and none after it was          *)
(* acknowledged, and a message is acknowledged only while the index shows  *)
(* its effect.                                                             *)
(***************************************************************************)
EXTENDS Naturals, Sequences

CONSTANT Shards

VARIABLES
  log,    \* log[s]: the messages of the observer of s
  acked,  \* acked[s]: how many of them were acknowledged
  blocks  \* the hashes in the index "blocks"

vars == <<log, acked, blocks>>

Init ==
  /\ log = [s \in Shards |-> <<>>]
  /\ acked = [s \in Shards |-> 0]
  /\ blocks = {}

\* The index after a message was carried out.
Effect(msg, bs) ==
  IF msg.topic = "SaveBlock" THEN bs \cup {msg.block.hash} ELSE bs \ {msg.block.hash}

Current(s) == log[s][acked[s] + 1]

\* The observer of s has one more message to send.
Publish(s) ==
  /\ Len(log'[s]) = Len(log[s]) + 1
  /\ log' = [log EXCEPT ![s] = Append(@, log'[s][Len(log[s]) + 1])]
  /\ UNCHANGED <<acked, blocks>>

\* The current message of s is carried out, perhaps again.
Apply(s) ==
  /\ acked[s] < Len(log[s])
  /\ blocks' = Effect(Current(s), blocks)
  /\ UNCHANGED <<log, acked>>

Ack(s) ==
  /\ acked[s] < Len(log[s])
  /\ Effect(Current(s), blocks) = blocks
  /\ acked' = [acked EXCEPT ![s] = @ + 1]
  /\ UNCHANGED <<log, blocks>>

Next == \E s \in Shards : Publish(s) \/ Apply(s) \/ Ack(s)

Spec == Init /\ [][Next]_vars
=============================================================================
