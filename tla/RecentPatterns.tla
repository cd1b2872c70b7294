--------------------------- MODULE RecentPatterns ---------------------------
(***************************************************************************)
(* webui/src/storage/redisRecentPatterns.ts: the patterns last searched    *)
(* for, in the browser's localStorage, under a key that once had another   *)
(* name.  A pinned pattern (a star on its tag) is listed first.            *)
(*                                                                         *)
(* A stored array is kept here by usedAt, newest first: every read sorts   *)
(* it anew, so its own order is never seen.                                *)
(***************************************************************************)
EXTENDS LocalStorage

CONSTANTS
  Patterns,     \* what one can search for
  MaxItems      \* MAX_ITEMS, 20 in the code

ASSUME MaxItemsAssumption == MaxItems \in Nat \ {0}

VARIABLES
  stored,   \* the list under KEY
  legacy,   \* the list under OLD_KEY
  shown     \* the component's copy, in the order of the tags on the screen

recentItems == <<stored, legacy>>

Item(p, pin) == [pattern |-> p, pinned |-> pin]
Items == [pattern : Patterns, pinned : {"yes", "no"}]

PatternsOf(list) == {list[i].pattern : i \in DOMAIN list}
PinnedIn(list)   == {list[i].pattern : i \in {j \in DOMAIN list : list[j].pinned = "yes"}}
Without(list, p) == Among(list, {x \in Elements(list) : x.pattern # p})
Flip(x)          == IF x = "yes" THEN "no" ELSE "yes"

\* Pinned first, each part by usedAt, newest first.
Sorted(list) ==
  Among(list, {x \in Elements(list) : x.pinned = "yes"})
    \o Among(list, {x \in Elements(list) : x.pinned = "no"})

\* A mutant of Kept: the list is cut by use alone.
KeptByUse(byUse, array) == First(byUse, MaxItems)

\* What save keeps of an array, its first MaxItems, here in the order of use.
Kept(byUse, array) ==
  Among(byUse, {x \in Elements(byUse) :
                  x.pattern \in PatternsOf(First(array, MaxItems))})

Save(byUse, array) ==
  \/ Throw(0) /\ stored' = Kept(byUse, array)
  \/ Throw(1) /\ UNCHANGED stored

(***************************************************************************)
(* listRecentPatterns, when the component is mounted.  A list found under  *)
(* OLD_KEY alone is moved; OLD_KEY is removed even if save threw.          *)
(***************************************************************************)
ListRecent ==
  /\ shown' = Sorted(ReadList(stored, legacy))
  /\ IF Moves(stored, legacy)
       THEN Save(legacy, Sorted(legacy)) /\ legacy' = NoItem
       ELSE UNCHANGED <<recentItems, full>>

\* What the other operations read first.  By then nothing is left to move:
\* KEY exists or OLD_KEY does not.
Recent == ReadList(stored, NoItem)

\* A mutant of Others: a pattern searched for again is listed twice.
OthersAll(list, p) == list

Others(list, p) == Without(list, p)

\* The array pushRecentPattern saves and returns: p first, with the star it
\* had, even before the pinned ones.
Pushed(list, p) ==
  LET star == IF p \in PinnedIn(list) THEN "yes" ELSE "no"
  IN  <<Item(p, star)>> \o Others(list, p)

\* listens: the component is still mounted, and shows what is returned.
PushRecent(p, listens) ==
  LET array == Pushed(Sorted(Recent), p)
  IN  /\ Save(Pushed(Recent, p), array)
      /\ shown' = IF listens THEN array ELSE shown
      /\ UNCHANGED legacy

RemoveRecent(p) ==
  LET array == Without(Sorted(Recent), p)
  IN  /\ Save(Without(Recent, p), array)
      /\ shown' = array
      /\ UNCHANGED legacy

ClearRecent ==
  /\ Save(<<>>, <<>>)
  /\ shown' = <<>>
  /\ UNCHANGED legacy

Toggled(list, p) ==
  [i \in DOMAIN list |-> IF list[i].pattern = p
                           THEN Item(p, Flip(list[i].pinned)) ELSE list[i]]

\* togglePinPattern returns the array in its old order: the tag moves when
\* the list is next read.
TogglePin(p) ==
  LET array == Toggled(Sorted(Recent), p)
  IN  /\ Save(Toggled(Recent, p), array)
      /\ shown' = array
      /\ UNCHANGED legacy
=============================================================================
