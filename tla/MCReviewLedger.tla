--------------------------- MODULE MCReviewLedger ---------------------------
(* ReviewLedger for TLC: a board with two labels and one false positive.      *)
EXTENDS ReviewLedger, TLC

CONSTANTS alice, bob

A1 == <<"annotation", 1>>
A2 == <<"annotation", 2>>
P1 == <<"prediction", "p">>

MCOriginal == <<"l1", "l2">>
MCEdited   == <<"l2", "l1">>

\* Two exports of one reviewer that change her mind on A1 and back, and a
\* second reviewer who disagrees about A1 and adds a case.
MCExports ==
    { [reviewer |-> alice, notes |-> (A1 :> "fine")],
      [reviewer |-> alice, notes |-> (A1 :> "unclear" @@ A2 :> "fine")],
      [reviewer |-> bob,   notes |-> (A1 :> "unclear" @@ P1 :> "real")] }

R(action, label) == [action |-> action, label |-> label]

MCBatches ==
    { (A1 :> R("remove_label", NoLabel)),
      (A1 :> R("correct_label", "l2")),
      (A1 :> R("keep_label", NoLabel)),
      (A2 :> R("correct_label", "l3")),
      (A2 :> R("correct_label", "l2")),
      (A1 :> R("keep_label", NoLabel) @@ P1 :> R("add_label", "l1")),
      (A1 :> R("remove_label", NoLabel) @@ P1 :> R("add_label", "l3")),
      (A1 :> R("needs_reference", NoLabel) @@ P1 :> R("dismiss_prediction", NoLabel)),
      (A2 :> R("add_label", "l3")) }
=============================================================================
