------------------------------- MODULE MCBestOfN -------------------------------
(* Small instances of BestOfN. *)
EXTENDS BestOfN, TLC

JobSymmetry == Permutations(Jobs)

Two(a, b) == 0 :> a @@ 1 :> b
Choice == 1 :> {1, 2} @@ 2 :> {1}

(* Two splits in one shard and in two; an id that comes in both, in either *)
(* case; a sample without a correct rollout and one without a record.      *)
EveryInput ==
    { [num_shards |-> 1, source |-> Two(<<1>>, <<2>>), rollouts |-> Choice],
      [num_shards |-> 2, source |-> Two(<<1>>, <<2>>), rollouts |-> Choice],
      [num_shards |-> 1, source |-> Two(<<1>>, <<1>>), rollouts |-> Choice],
      [num_shards |-> 2, source |-> Two(<<1>>, <<1>>), rollouts |-> Choice],
      [num_shards |-> 2, source |-> Two(<<1>>, <<2>>), rollouts |-> 1 :> {}] }
=============================================================================
