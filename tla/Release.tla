------------------------------ MODULE Release -------------------------------
(***************************************************************************)
(* The frozen release of a dataset, from a pinned archive to the data a    *)
(* run may train on: the screening for look-alikes and their human review, *)
(* the build (scripts/prepare_pcb_defect.py), its validation               *)
(* (src/pcb_inspector/datasets.py) and verify_release (ml/data.py).        *)
(*                                                                         *)
(* Screening is a function of the archive; its output file is either that  *)
(* or unreadable, and then nothing is built.  A checksum stands for the    *)
(* content it is taken of.  People may edit files at any time.             *)
(***************************************************************************)
EXTENDS TileViews, UnionFind, FiniteSetsExt

CONSTANTS
    Archive,         \* its images by file name: [family, look, width, height, annotations];
                     \* look: their hashes, upright first, then turned and mirrored;
                     \* an annotation: [category, bbox: <<x, y, width, height>>]
    Classes,         \* the number of its classes
    Reviews,         \* group-review.json as people may write it: pair of images -> decision
    Moves,           \* <<image, split>>: what people may change in a manifest
    ReviewDistance,  \* look-alikes to be reviewed (review)
    LeakDistance,    \* look-alikes reported across splits (validate_dataset)
    Absent, Torn     \* no such file; a file cut short or damaged

ASSUME ReleaseAssumption ==
    /\ Classes \in Nat \ {0} /\ Archive # <<>>
    /\ ReviewDistance \in Nat /\ LeakDistance \in Nat
    /\ Archive \in Seq(Range(Archive))
    /\ \A i \in DOMAIN Archive :
         /\ Archive[i].family \in Nat   \* families are numbered
         /\ Archive[i].width \in Nat /\ Archive[i].height \in Nat
         /\ Archive[i].annotations \in Seq(Range(Archive[i].annotations))
         /\ \A a \in DOMAIN Archive[i].annotations :
              LET bbox == Archive[i].annotations[a].bbox
              IN  /\ bbox \in Nat \X Nat \X (Nat \ {0}) \X (Nat \ {0})
                  /\ bbox[1] + bbox[3] <= Archive[i].width
                  /\ bbox[2] + bbox[4] <= Archive[i].height

VARIABLES
    review,     \* group-review.json
    disk,       \* [images, evidence, manifest, release, validation]
    builder,    \* the `build` at work: [pc, used: the review it read, release]
    checker     \* the validation at work: the manifest it read

releaseVars == <<review, disk, builder, checker>>

NoBuild == [pc |-> "idle"]

ReleaseInit ==
    /\ review \in Reviews
    /\ disk = [images |-> Absent, evidence |-> Absent, manifest |-> Absent,
               release |-> Absent, validation |-> Absent]
    /\ builder = NoBuild /\ checker = Absent

OnDisk(file) == disk[file] \notin {Absent, Torn}

-----------------------------------------------------------------------------
(* review: pairs of images of different families that look alike, one of   *)
(* them turned or mirrored.                                                *)

Distance(a, b) == Cardinality((a \ b) \cup (b \ a))

Candidates ==
    {p \in (DOMAIN Archive) \X (DOMAIN Archive) :
        LET a == Archive[p[1]]
            b == Archive[p[2]]
        IN  /\ p[1] < p[2] /\ a.family # b.family
            /\ \E turn \in DOMAIN b.look : Distance(a.look[1], b.look[turn]) <= ReviewDistance}

-----------------------------------------------------------------------------
(* build: groups and splits                                                *)

\* make_groups: families are kept whole, merges are transitive.
GroupOf(decisions, i) ==
    LET merged == {p \in DOMAIN decisions : decisions[p] = "merge_conservatively"}
    IN  Root(Forest({Archive[j].family : j \in DOMAIN Archive},
                    {<<Archive[p[1]].family, Archive[p[2]].family>> : p \in merged}),
             Archive[i].family)

\* Counter: images under 0, annotations under their category.
Tally(images) ==
    [key \in 0..Classes |->
        IF key = 0 THEN Cardinality(images)
        ELSE MapThenSumSet(LAMBDA i : Cardinality({a \in DOMAIN Archive[i].annotations :
                                          Archive[i].annotations[a].category = key}), images)]

HasEveryClass(images) == \A class \in 1..Classes : Tally(images)[class] > 0

\* max(1, round(0.15 n)), a half to the even side.
HoldoutCount(n) ==
    LET whole == (3 * n) \div 20
        rest  == (3 * n) % 20
    IN  Greatest(1, whole + IF rest > 10 \/ (rest = 10 /\ whole % 2 = 1) THEN 1 ELSE 0)

\* How far the shares of these images are from 15 %: the sum of the squares, times a
\* factor that is the same for all.
Deviation(images) ==
    LET total  == Tally(DOMAIN Archive)
        common == FoldSet(LAMBDA key, product : product * total[key] * total[key],
                          1, 0..Classes)
        Off(key) == 20 * Tally(images)[key] - 3 * total[key]
    IN  MapThenSumSet(LAMBDA key : Off(key) * Off(key) * (common \div (total[key] * total[key])),
                      0..Classes)

\* choose_holdout: the groups to choose from, then the choice.
HoldoutsOf(groupOf, excluded) ==
    LET all       == Range(groupOf)
        available == all \ excluded
        Members(groups) == {i \in DOMAIN groupOf : groupOf[i] \in groups}
    IN  {chosen \in kSubset(HoldoutCount(Cardinality(all)), available) :
            HasEveryClass(Members(chosen)) /\ HasEveryClass(Members(available \ chosen))}

\* Ties are broken by a hash, that is, somehow and always alike.
Holdout(groupOf, excluded) ==
    LET Members(groups) == {i \in DOMAIN groupOf : groupOf[i] \in groups}
    IN  CHOOSE chosen \in HoldoutsOf(groupOf, excluded) :
            \A other \in HoldoutsOf(groupOf, excluded) :
                Deviation(Members(chosen)) <= Deviation(Members(other))

GroupsUnder(decisions) == [i \in DOMAIN Archive |-> GroupOf(decisions, i)]

\* Otherwise build raises before it writes anything.
Buildable(decisions) ==
    LET groupOf == GroupsUnder(decisions)
    IN  /\ DOMAIN decisions = Candidates
        /\ Range(decisions) \subseteq {"merge_conservatively", "different_layout"}
        /\ HoldoutsOf(groupOf, {}) # {}
        /\ HoldoutsOf(groupOf, Holdout(groupOf, {})) # {}

\* What the samples of the manifest say that the archive does not.
ManifestOf(decisions) ==
    LET groupOf    == GroupsUnder(decisions)
        test       == Holdout(groupOf, {})
        validation == Holdout(groupOf, test)
    IN  [i \in DOMAIN Archive |->
            [group |-> groupOf[i],
             split |-> IF groupOf[i] \in test THEN "test"
                       ELSE IF groupOf[i] \in validation THEN "validation" ELSE "train"]]

\* The reviews build can work with, and the samples each gives.
Built == [decisions \in {d \in Reviews : Buildable(d)} |-> ManifestOf(decisions)]

\* COCO boxes become corners, source categories become class ids.
Sample(i) ==
    [id |-> i, width |-> Archive[i].width, height |-> Archive[i].height,
     annotations |->
        [a \in DOMAIN Archive[i].annotations |->
            LET found == Archive[i].annotations[a]
            IN  [class |-> found.category - 1,
                 box   |-> <<found.bbox[1], found.bbox[2],
                             found.bbox[1] + found.bbox[3], found.bbox[2] + found.bbox[4]>>]]]

\* The samples of a split, in the order of the manifest.
SplitOf(manifest, split) ==
    LET ids == Ascending({i \in DOMAIN manifest : manifest[i].split = split}, Len(manifest))
    IN  [k \in DOMAIN ids |-> Sample(ids[k])]

-----------------------------------------------------------------------------
(* build: the files, none of which is ever replaced                        *)

StartBuild ==
    /\ builder = NoBuild /\ review \in DOMAIN Built
    /\ builder' = [pc |-> "frozen", used |-> review]
    /\ UNCHANGED <<review, disk, checker>>

\* The review is read a second time, for its checksum, and may have been edited; metadata
\* that differs from a frozen file stops the build before anything is written.  (`used`
\* is no field of release.json, whose groups and manifest follow from it.)
CheckFrozen ==
    LET release == [manifest |-> Built[builder.used], review |-> review,
                    used |-> builder.used]
    IN  /\ builder.pc = "frozen"
        /\ builder' = IF /\ disk.manifest \in {Absent, release.manifest}
                         /\ disk.release \in {Absent, release}
                         /\ disk.evidence \in {Absent, "license"}
                      THEN [pc |-> "images", used |-> builder.used, release |-> release]
                      ELSE NoBuild
        /\ UNCHANGED <<review, disk, checker>>

Content(file) ==
    CASE file = "images"   -> "archived"
      [] file = "evidence" -> "license"
      [] file = "manifest" -> builder.release.manifest
      [] file = "release"  -> builder.release

NextFile == [images |-> "evidence", evidence |-> "manifest", manifest |-> "release"]

\* frozen_write refuses to change what is there.
Freezable(file) == disk[file] \in {Absent, Content(file)}

FrozenWrite ==
    LET file == builder.pc
    IN  /\ file \in {"images", "evidence", "manifest", "release"}
        /\ IF Freezable(file)
           THEN /\ disk' = [disk EXCEPT ![file] = Content(file)]
                /\ builder' = IF file = "release" THEN NoBuild
                              ELSE [builder EXCEPT !.pc = NextFile[file]]
           ELSE builder' = NoBuild /\ UNCHANGED disk
        /\ UNCHANGED <<review, checker>>

\* A build that dies leaves what it wrote, and perhaps half a file.
KillBuild ==
    /\ builder # NoBuild /\ builder' = NoBuild
    /\ \/ UNCHANGED disk
       \/ /\ builder.pc # "frozen" /\ disk[builder.pc] = Absent
          /\ disk' = [disk EXCEPT ![builder.pc] = Torn]
    /\ UNCHANGED <<review, checker>>

-----------------------------------------------------------------------------
(* validate_dataset and its command                                        *)

\* Slip: only groups are compared, not what the images look like.
CleanGroups(manifest) ==
    \A i, j \in DOMAIN manifest :
        manifest[i].split # manifest[j].split => manifest[i].group # manifest[j].group

\* No issue of either severity.
Clean(manifest) ==
    /\ \A i, j \in DOMAIN manifest :
         manifest[i].split # manifest[j].split =>
            /\ manifest[i].group # manifest[j].group
            /\ Distance(Archive[i].look[1], Archive[j].look[1]) > LeakDistance
    /\ \A split \in {"train", "validation", "test"} :
         HasEveryClass({i \in DOMAIN manifest : manifest[i].split = split})

ReadManifest ==
    /\ checker = Absent /\ OnDisk("manifest")
    /\ checker' = disk.manifest
    /\ UNCHANGED <<review, disk, builder>>

\* The images are read after the manifest, and the report replaces the last one.
Report ==
    /\ checker # Absent /\ checker' = Absent
    /\ \/ disk' = [disk EXCEPT !.validation =
                     [manifest |-> checker,
                      ready |-> /\ Clean(checker) /\ OnDisk("images")
                                /\ disk.evidence # Absent]]
       \/ disk' = [disk EXCEPT !.validation = Torn]
       \/ UNCHANGED disk
    /\ UNCHANGED <<review, builder>>

-----------------------------------------------------------------------------
(* verify_release *)

Verified ==
    /\ OnDisk("manifest") /\ OnDisk("release") /\ OnDisk("validation")
    /\ disk.release.manifest = disk.manifest
    /\ disk.validation.manifest = disk.manifest
    /\ disk.validation.ready
    /\ disk.release.review = review
    /\ disk.evidence = "license" /\ disk.images = "archived"
    /\ \A i, j \in DOMAIN disk.manifest :
         disk.manifest[i].group = disk.manifest[j].group
            => disk.manifest[i].split = disk.manifest[j].split

-----------------------------------------------------------------------------
(* People *)

EditReview ==
    /\ review' \in Reviews \ {review}
    /\ UNCHANGED <<disk, builder, checker>>

\* BOUND: one change to the manifest of a release, which is not undone.
EditManifest ==
    /\ OnDisk("release") /\ disk.manifest = disk.release.manifest
    /\ \E move \in Moves :
         disk' = [disk EXCEPT !.manifest[move[1]].split = move[2]]
    /\ UNCHANGED <<review, builder, checker>>

DamageImage ==
    /\ disk.images = "archived"
    /\ disk' = [disk EXCEPT !.images = Torn]
    /\ UNCHANGED <<review, builder, checker>>

Prepare ==
    \/ StartBuild \/ CheckFrozen \/ FrozenWrite \/ KillBuild
    \/ ReadManifest \/ Report
    \/ EditReview \/ DamageImage

-----------------------------------------------------------------------------
(* Properties *)

\* Nothing connects two images: not their origin, not their looks, not a reviewer's word
\* in the review that the groups were made from.
Unrelated(i, j) ==
    /\ Archive[i].family # Archive[j].family
    /\ Distance(Archive[i].look[1], Archive[j].look[1]) > LeakDistance
    /\ {<<i, j>>, <<j, i>>} \cap Candidates \subseteq
         {p \in DOMAIN disk.release.used : disk.release.used[p] = "different_layout"}

\* What verify_release lets pass is free of leaks, whoever edited which file when and
\* wherever builds died: images of different splits are unrelated, and each split has every
\* class (make_groups, choose_holdout, frozen_write, validate_dataset, verify_release).
\* This is about the review the groups were made from.  The review release.json names by
\* its checksum is read later (prepare_pcb_defect.py:192, :292): of that one it can fail,
\* when somebody edits the review between the two readings.
VerifiedIsApart ==
    Verified =>
        /\ \A i, j \in DOMAIN disk.manifest :
              disk.manifest[i].split # disk.manifest[j].split => Unrelated(i, j)
        /\ \A split \in {"train", "validation", "test"} :
              HasEveryClass({i \in DOMAIN disk.manifest : disk.manifest[i].split = split})
=============================================================================
