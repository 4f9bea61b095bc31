---------------------------- MODULE MCSubmission ----------------------------
EXTENDS Submission, TLC

\* Uploads do not depend on each other's names.
Symmetry == Permutations(Uploads)
=============================================================================
