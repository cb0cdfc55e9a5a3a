---------------------------- MODULE MCJSStrings ----------------------------
(* A small instance of JSStrings. *)
EXTENDS JSStrings, TLC

CONSTANTS s1, s2, s3, b1, b2, b3

ThreeStrings == {s1, s2, s3}
ThreeBuffers == {b1, b2, b3}

\* The letters are numbered, so that one shows where it came from.
FewLiterals == {<<1, 2>>}

StringSymmetry == Permutations(ThreeStrings) \cup Permutations(ThreeBuffers)
=============================================================================
