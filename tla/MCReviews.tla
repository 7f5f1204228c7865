----------------------------- MODULE MCReviews -----------------------------
(***************************************************************************)
(* Reviews with two texts, two questions of which one is answered from the *)
(* web, three rounds, two entries and two rejections.                      *)
(***************************************************************************)
EXTENDS Reviews

TwoTexts == 1..2
TwoQuestions == 1..2
SecondQuestion == {2}
=============================================================================
