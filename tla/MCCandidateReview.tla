------------------------- MODULE MCCandidateReview -------------------------
(* CandidateReview for TLC: a paired source and an unpaired one.            *)
EXTENDS CandidateReview, TLC

Row(condition, split, pixels, dhash) ==
    [condition |-> condition, split |-> split, pixels |-> pixels, dhash |-> dhash]

\* A chain of near matches that ends in two identical captures; two pairs
\* whose defect images look alike; three captures that all look alike.
MCInventories ==
    { [rows |-> <<Row("defect", "train", "a", {}), Row("defect", "val", "b", {1}),
                  Row("defect", "train", "c", {1, 2, 3}), Row("defect", "val", "c", {1, 2, 3})>>,
       pairs |-> {}, boxes |-> {2}],
      [rows |-> <<Row("defect", "train", "a", {}), Row("normal", "train", "b", {4, 5, 6}),
                  Row("defect", "val", "c", {}), Row("normal", "val", "d", {7, 8, 9})>>,
       pairs |-> {<<1, 2>>, <<3, 4>>}, boxes |-> {}],
      [rows |-> <<Row("defect", "train", "a", {}), Row("defect", "val", "b", {}),
                  Row("defect", "test", "c", {1, 2})>>,
       pairs |-> {}, boxes |-> {}] }

B(reviewer, time, answers) == [reviewer |-> reviewer, time |-> time, answers |-> answers]

Sure == <<"confirmed", "confirmed", "confirmed">>

Related   == <<"related">>
Unrelated == <<"unrelated">>

MCBatches ==
    { B("r1", 1, <<"near", 1, 2>> :> Related),
      B("r1", 2, <<"near", 1, 2>> :> Unrelated),
      B("r2", 1, <<"near", 1, 2>> :> Unrelated),
      B("r2", 2, <<"near", 2, 3>> :> Related),
      B("r1", 3, <<"near", 2, 3>> :> Related @@ <<"near", 1, 3>> :> Unrelated
                    @@ <<"source", 0, 0>> :> <<"reviewed">>),
      B("r1", 1, <<"near", 1, 3>> :> Unrelated @@ <<"pair", 1, 2>> :> Sure
                    @@ <<"pair", 3, 4>> :> Sure @@ <<"source", 0, 0>> :> <<"reviewed">>),
      B("r2", 3, <<"near", 1, 3>> :> Related),
      B("r2", 2, <<"near", 1, 3>> :> <<"needs_reference">>),
      B("r1", 1, <<"source", 0, 0>> :> <<"reviewed">>),
      B("r1", 1, <<"box", 2, 1>> :> <<"accept">>),
      B("r2", 1, <<"box", 2, 1>> :> <<"reject">>),
      B("r1", 1, <<"pair", 1, 2>> :> <<"confirmed", "rejected", "confirmed">>) }
=============================================================================
