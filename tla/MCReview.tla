------------------------------ MODULE MCReview ------------------------------
(* AnnotationReview with three concepts and a word that resolves to x with    *)
(* the runner-ups y and z.                                                    *)
EXTENDS AnnotationReview, TLC

MCIris == {"x", "y", "z"}
MCResolutions == {<<"x", "y", "z">>}

\* Annotation ids are interchangeable.
MCSymmetry == Permutations(Anns)
=============================================================================
