---------------------------- MODULE LocalStorage ----------------------------
(***************************************************************************)
(* The browser's localStorage, as the three modules of webui/src/storage   *)
(* use it: each keeps one list under a key of its own, and a list that an  *)
(* earlier version left under an old key.  setItem throws when the quota   *)
(* is exhausted; every module swallows the error.                          *)
(***************************************************************************)
EXTENDS Sequences, FiniteSets, Naturals

CONSTANTS
  NoItem,   \* what getItem returns for a key that is not there
  MaxFull   \* bound: how often setItem throws

ASSUME MaxFullAssumption == MaxFull \in Nat

VARIABLE full   \* how often setItem threw

\* n calls of setItem throw.
Throw(n) == full + n <= MaxFull /\ full' = full + n

\* The list a module reads: the one under its key, or else under its old key.
ReadList(key, old) ==
  IF key # NoItem THEN key ELSE IF old # NoItem THEN old ELSE <<>>

\* "Migration: persist to new key if we read from old key."
Moves(key, old) == key = NoItem /\ old # NoItem

Elements(list) == {list[i] : i \in DOMAIN list}

\* list.filter(x => K has x).  The test is a set, not an operator as in
\* SelectSeq, so that lemmas can be stated about it.
Among(list, K) ==
  LET kept[i \in 0..Len(list)] ==
        IF i = 0 THEN <<>>
        ELSE IF list[i] \in K THEN Append(kept[i - 1], list[i])
                              ELSE kept[i - 1]
  IN  kept[Len(list)]

\* A mutant of First: the list is cut at the wrong end.
LastOnes(list, n) == SubSeq(list, IF Len(list) < n THEN 1 ELSE Len(list) - n + 1, Len(list))

First(list, n) == SubSeq(list, 1, IF Len(list) < n THEN Len(list) ELSE n)
=============================================================================
