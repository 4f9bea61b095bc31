----------------------------- MODULE TileViews ------------------------------
(***************************************************************************)
(* ml/data.py: the views of a source image (one crop, or overlapping       *)
(* tiles), the annotations a crop keeps, and the way back from the         *)
(* coordinates of a crop to those of its image.                            *)
(*                                                                         *)
(* A box or a window is <<left, top, right, bottom>>; an image is          *)
(* [width, height, annotations], an annotation [box, class].               *)
(***************************************************************************)
EXTENDS Schedule, SequencesExt

Greatest(a, b) == IF a > b THEN a ELSE b

\* The members of S from 1 to n, in order.
Ascending(S, n) ==
    LET upTo[k \in 0..n] == IF k = 0 THEN <<>>
                            ELSE IF k \in S THEN Append(upTo[k - 1], k) ELSE upTo[k - 1]
    IN  upTo[n]

\* The elements of s at the positions in S.
Picked(s, S) == LET kept == Ascending(S, Len(s)) IN [k \in DOMAIN kept |-> s[kept[k]]]

Regular(length, size, overlap) ==
    [i \in 1..((length - size) \div (size - overlap) + 1) |-> (i - 1) * (size - overlap)]

\* Slip: the strip that is left at the far edge gets no window.
StartsRegular(length, size, overlap) ==
    IF length <= size THEN <<0>> ELSE Regular(length, size, overlap)

Starts(length, size, overlap) ==
    IF length <= size THEN <<0>>
    ELSE LET regular == Regular(length, size, overlap)
         IN  IF Last(regular) = length - size THEN regular
             ELSE Append(regular, length - size)

Windows(image, tile, overlap) ==
    IF tile = 0 THEN <<<<0, 0, image.width, image.height>>>>
    ELSE LET xs == Starts(image.width, tile, overlap)
             ys == Starts(image.height, tile, overlap)
             At(x, y) == <<x, y, Least(image.width, x + tile), Least(image.height, y + tile)>>
         IN  FlattenSeq([j \in DOMAIN ys |-> [i \in DOMAIN xs |-> At(xs[i], ys[j])]])

HasArea(box) == box[3] > box[1] /\ box[4] > box[2]

Clip(box, window) ==
    <<Greatest(window[1], box[1]), Greatest(window[2], box[2]),
      Least(window[3], box[3]), Least(window[4], box[4])>>

Shift(box, dx, dy) == <<box[1] + dx, box[2] + dy, box[3] + dx, box[4] + dy>>

\* crop_annotations: what is left of each box in the window, from the window's corner.
Crop(annotations, window) ==
    LET clipped == [i \in DOMAIN annotations |-> Clip(annotations[i].box, window)]
        kept    == Ascending({i \in DOMAIN annotations : HasArea(clipped[i])}, Len(annotations))
    IN  [k \in DOMAIN kept |->
            [box   |-> Shift(clipped[kept[k]], -window[1], -window[2]),
             label |-> annotations[kept[k]].class + 1]]

RestoreBox(box, window) == Shift(box, window[1], window[2])

\* BoardViews: every view of every image, in order; `first` images of a smoke run only.
Used(images, limit) == SubSeq(images, 1, Least(limit, Len(images)))

Views(images, tile, overlap) ==
    FlattenSeq([i \in DOMAIN images |->
        LET windows == Windows(images[i], tile, overlap)
        IN  [w \in DOMAIN windows |-> [image |-> i, window |-> windows[w]]]])
=============================================================================
