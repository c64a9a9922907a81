------------------------------- MODULE MCSkills -------------------------------
(***************************************************************************)
(* Two requests and two sweepers over a skill of up to three versions      *)
(* and a document that says one thing, then another: it loses its          *)
(* beginning, and what was far down comes within the excerpt.              *)
(***************************************************************************)
EXTENDS Skills, TLC

CONSTANTS r1, r2, s1, s2, t1, t2, p1, p2
Reqs == {r1, r2}
Sweepers == {s1, s2}
Texts == {t1, t2}
Passages == {p1, p2}
Beginnings == t1 :> p1 @@ t2 :> p2
InExcerpts == t1 :> {p1} @@ t2 :> {p2}
InTexts == t1 :> {p1, p2} @@ t2 :> {p2}

\* The edit is from the first text, or to no text.
SkillInit == Init /\ source = t1
SkillSpec == SkillInit /\ [][Next]_vars /\ Fairness
=============================================================================
