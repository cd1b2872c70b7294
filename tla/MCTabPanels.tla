----------------------------- MODULE MCTabPanels -----------------------------
(* An instance of TabPanels for TLC. *)
EXTENDS TabPanels

CONSTANTS e1, e2

MCBucketOf == [e \in {e1, e2} |-> IF e = e1 THEN 0 ELSE 1]

TextsOver(A, n) == UNION {[1..k -> A] : k \in 1..n}

\* What may follow the first word: quotes, escapes and comments; and what
\* may come before it.
Tails ==
  TextsOver({"single", Escape, "backtick", ";", "a"}, 5)
    \cup TextsOver({"-", "/", "*", "#", NL, " ", ";", "!"}, 4)

Heads ==
  {t \o <<Read>> : t \in TextsOver({"-", "/", "*", "#", NL, " ", "("}, 4)}
    \cup TextsOver({Read, "(", " ", "/", "*", "into"}, 4)

MCTexts == {<<Read, " ">> \o t : t \in Tails} \cup Heads

MCLaterTexts == {<<Read>>, <<"(", "a">>, <<" ">>}
=============================================================================
