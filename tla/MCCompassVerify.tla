---------------------------- MODULE MCCompassVerify ----------------------------
(* Small instances of CompassVerify. *)
EXTENDS CompassVerify, TLC
CONSTANTS a, b, j1, j2
TwoKeys  == {a, b}
TwoJobs  == {j1, j2}

(* Two of three responses are sent to the verifier, the first and the last *)
(* in batches of one; a record's only good response; too few; all good.    *)
Mixed == <<"sentence", "trailing", "answer">>
OneGood == <<"untagged", "trailing", "sentence">>
Short == <<"sentence", "answer">>
AllGood  == <<"sentence", "answer", "sentence">>

FileOf(input, ra, rb, u) ==
    [input |-> input, responses |-> (a :> ra @@ b :> rb), unparsable |-> u]

EveryFile ==
    { FileOf(<<a, b, a>>, OneGood, OneGood, {}),
      FileOf(<<a>>, Mixed, OneGood, {}),
      FileOf(<<a, b>>, OneGood, Short, {}),
      FileOf(<<a, b>>, OneGood, AllGood, {b}) }
=============================================================================
