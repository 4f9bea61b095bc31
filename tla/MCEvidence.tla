----------------------------- MODULE MCEvidence -----------------------------
(* One archive, three kinds of run: epochs, a step budget, a smoke run.    *)
EXTENDS Evidence, TLC

Image(family, look, w, h, annotations) ==
    [family |-> family, look |-> look, width |-> w, height |-> h, annotations |-> annotations]
Label(bbox, category) == [bbox |-> bbox, category |-> category]

\* Three families that may be held out and a fourth that lacks a class.  Boxes lie at the
\* far edges, on a tile border, and two overlap.
MCArchive ==
    <<Image(10, <<{}, {1, 2}>>, 6, 3, <<Label(<<5, 1, 1, 1>>, 1), Label(<<2, 1, 1, 1>>, 2),
                                        Label(<<0, 0, 1, 1>>, 1), Label(<<0, 0, 1, 1>>, 2)>>),
      Image(20, <<{3, 4, 5, 6}>>, 4, 4, <<Label(<<0, 0, 2, 2>>, 1), Label(<<1, 0, 2, 2>>, 1)>>),
      Image(20, <<{3, 4, 5, 6, 11, 12}>>, 3, 3, <<Label(<<1, 1, 2, 2>>, 2)>>),
      Image(20, <<{4, 5, 6, 11}>>, 3, 3, <<>>),
      Image(30, <<{7, 8, 9, 10}, {3, 4, 5, 7}>>, 3, 3,
            <<Label(<<0, 0, 2, 2>>, 1), Label(<<1, 1, 2, 2>>, 2)>>),
      Image(40, <<{1}>>, 3, 4, <<Label(<<0, 3, 1, 1>>, 1)>>)>>

Same  == "merge_conservatively"
Other == "different_layout"

\* The first and the last image look alike, the second is the fifth turned around.
MCReviews ==
    {(<<1, 6>> :> Same @@ <<2, 5>> :> Other),
     (<<1, 6>> :> Other @@ <<2, 5>> :> Other),
     (<<1, 6>> :> Same @@ <<2, 5>> :> Same),
     (<<1, 6>> :> Same)}

MCMoves == {<<6, "validation">>, <<5, "train">>}

Config(rounds, updates, smoke, tile) ==
    [epochs |-> rounds, budget |-> updates, smoke |-> smoke, seed |-> 1,
     tile |-> tile, overlap |-> IF tile = 0 THEN 0 ELSE 1]

MCConfigs ==
    {Config(2, 0, FALSE, 0), Config(0, 7, FALSE, 3), Config(0, 4, FALSE, 0),
     Config(2, 0, TRUE, 3), Config(0, 3, TRUE, 0)}

\* Every seed starts elsewhere.
MCRandomOrder(n, seed) == [i \in 1..n |-> 1 + ((i - 1 + seed) % n)]

Found(image, view, box, category, score) ==
    [image |-> image, view |-> view, box |-> box, category |-> category, score |-> score]

Right    == Found(1, 1, <<0, 0, 2, 2>>, 1, 90)
Both     == Found(1, 1, <<0, 0, 3, 2>>, 1, 90)
Shifted  == Found(1, 1, <<1, 0, 3, 2>>, 1, 40)
Second   == Found(2, 1, <<1, 1, 3, 3>>, 2, 60)
Confused == Found(2, 1, <<1, 1, 4, 4>>, 1, 50)
Phantom  == Found(3, 1, <<0, 0, 1, 1>>, 2, 75)
Left     == Found(1, 1, <<0, 0, 1, 2>>, 1, 60)
Middle   == Found(1, 1, <<1, 0, 2, 2>>, 1, 90)
InTile   == Found(1, 2, <<0, 0, 2, 2>>, 1, 60)
Outside  == Found(1, 1, <<-2, 0, 0, 2>>, 1, 95)

\* None; hits, false alarms and wrong classes in every order of their scores; two boxes
\* that compete for one label; boxes that leave the image.
MCDetections ==
    {<<>>, <<Middle, Left>>, <<Shifted, Both>>, <<Both, Right, Shifted>>, <<Shifted, Second, Right>>,
     <<Second, Phantom>>, <<Confused, Right>>, <<Confused, Phantom, Second, Both>>,
     <<InTile, Shifted, Right>>, <<Outside, Second>>,
     <<Right, InTile, Confused, Second>>}
=============================================================================
