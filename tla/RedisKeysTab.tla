---------------------------- MODULE RedisKeysTab ----------------------------
(***************************************************************************)
(* webui/src/workspace/tabs/RedisKeysTab.tsx: the tab that lists the keys  *)
(* of a Redis connection, page by page, with SCAN MATCH pattern.  One      *)
(* window, one such tab.  A handler runs to its await in one step and sees *)
(* the state of the last render: run takes the pattern and the cursor from *)
(* its closure.  Responses arrive in any order and may be errors.          *)
(*                                                                         *)
(* A page of keys is the pair of the cursor it was asked with and of the   *)
(* pattern: the keys on it are Redis's business.  A SCAN visits the pages  *)
(* 0, 1, ..., Pages - 1 whatever the pattern, which only filters them.     *)
(***************************************************************************)
EXTENDS RecentPatterns

CONSTANTS
  Star,         \* the pattern "*"
  Empty,        \* the empty input
  NoRequest,    \* a free slot
  Pages,        \* pages of one whole SCAN; cursor Pages is sent as "0"
  MaxInFlight   \* bound: requests without an answer

ASSUME StarAssumption == Star \in Patterns /\ Empty \notin Patterns
ASSUME PagesAssumption == Pages \in Nat \ {0}
ASSUME MaxInFlightAssumption == MaxInFlight \in Nat \ {0}

VARIABLES
  open,         \* "yes" while the tab is mounted
  pattern,      \* the text in the input
  listCursor, keys, \* where the SCAN stands and the pages on the screen
  loading,      \* "yes" while the buttons spin
  err,          \* "yes" while an error is on the screen
  inFlight,     \* [Slots -> Requests \cup {NoRequest}]
  asked,        \* history: the pattern the user last wanted to search for
  rushed        \* history: "yes" once Enter, a tag or an option started a
                \* search while an answer was awaited

recents == <<recentItems, shown, full>>
screen == <<listCursor, keys, loading, err>>
listVars == <<recents, open, pattern, screen, inFlight, asked, rushed>>

Slots   == 1..MaxInFlight
ListCursors == 0..(Pages - 1)
Inputs  == Patterns \cup {Empty}

\* A mutant of Effective: an emptied input is sent as it is.
EffectiveAsTyped(p) == p

\* pattern || "*"
Effective(p) == IF p = Empty THEN Star ELSE p

\* for: "nobody" once the tab that sent the request is closed.
Requests == [mode : {"reset", "append"}, pattern : Patterns, cursor : ListCursors,
             for : {"tab", "nobody"}]

ASSUME NoRequestAssumption == NoRequest \notin Requests

Page(c, p) == [cursor |-> c, pattern |-> p]

Awaited == {s \in Slots : inFlight[s] # NoRequest /\ inFlight[s].for = "tab"}

ListInit ==
  /\ open = "no"
  /\ pattern = Star
  /\ listCursor = 0
  /\ keys = <<>>
  /\ loading = "no"
  /\ err = "no"
  /\ asked = Star
  /\ rushed = "no"
  /\ inFlight = [s \in Slots |-> NoRequest]
  /\ shown = <<>>
  /\ stored = NoItem
  /\ legacy \in {NoItem} \cup {<<Item(p, "yes")>> : p \in Patterns}
  /\ full = 0

Open ==
  /\ open = "no"
  /\ open' = "yes"
  /\ ListRecent
  /\ UNCHANGED <<pattern, screen, inFlight, asked, rushed>>

\* The state of the component is gone, its requests are not.
Close ==
  /\ open = "yes"
  /\ open' = "no"
  /\ pattern' = Star
  /\ listCursor' = 0
  /\ keys' = <<>>
  /\ loading' = "no"
  /\ err' = "no"
  /\ asked' = Star
  /\ rushed' = "no"
  /\ inFlight' = [s \in Slots |-> IF s \in Awaited
                                    THEN [inFlight[s] EXCEPT !.for = "nobody"]
                                    ELSE inFlight[s]]
  /\ shown' = <<>>
  /\ UNCHANGED <<recentItems, full>>

(***************************************************************************)
(* run, up to its await: p is the pattern of the render the handler        *)
(* belongs to.                                                             *)
(***************************************************************************)
Send(mode, p) ==
  /\ \E s \in Slots :
       /\ inFlight[s] = NoRequest
       /\ \A u \in Slots : u < s => inFlight[u] # NoRequest
       /\ inFlight' = [inFlight EXCEPT ![s] =
            [mode |-> mode, pattern |-> Effective(p),
             cursor |-> IF mode = "reset" THEN 0 ELSE listCursor, for |-> "tab"]]
  /\ IF mode = "reset" THEN keys' = <<>> /\ listCursor' = 0
                       ELSE UNCHANGED <<keys, listCursor>>
  /\ loading' = "yes"
  /\ err' = "no"

Rush == rushed' = IF Awaited # {} THEN "yes" ELSE rushed

(***************************************************************************)
(* The user.  antd's buttons ignore clicks while they spin; Enter in the   *)
(* input, the options of its list and the tags do not.                     *)
(***************************************************************************)
Type(p) ==
  /\ open = "yes"
  /\ pattern' = p
  /\ UNCHANGED <<recents, open, screen, inFlight, asked, rushed>>

ClickScan ==
  /\ open = "yes"
  /\ loading = "no"
  /\ Send("reset", pattern)
  /\ asked' = Effective(pattern)
  /\ UNCHANGED <<recents, open, pattern, rushed>>

\* A mutant of ClickMore: the button does not wait.
ClickMoreAgain ==
  /\ open = "yes"
  /\ listCursor # 0
  /\ Send("append", pattern)
  /\ UNCHANGED <<recents, open, pattern, asked, rushed>>

ClickMore ==
  /\ open = "yes"
  /\ loading = "no"
  /\ listCursor # 0
  /\ Send("append", pattern)
  /\ UNCHANGED <<recents, open, pattern, asked, rushed>>

PressEnter ==
  /\ open = "yes"
  /\ Send("reset", pattern)
  /\ Rush
  /\ asked' = Effective(pattern)
  /\ UNCHANGED <<recents, open, pattern>>

\* A click on a tag, or the choice of an option: the pattern is put in the
\* input, and run still has the pattern of the last render.
PickRecent(p) ==
  /\ open = "yes"
  /\ p \in PatternsOf(shown)
  /\ pattern' = p
  /\ Send("reset", pattern)
  /\ Rush
  /\ asked' = p
  /\ UNCHANGED <<recents, open>>

\* The second click of a double click on a tag (the first was a PickRecent):
\* it searches, and then the tag is pinned or unpinned.
DoubleClick(p) ==
  /\ open = "yes"
  /\ p \in PatternsOf(shown)
  /\ pattern = p
  /\ Send("reset", pattern)
  /\ Rush
  /\ asked' = p
  /\ TogglePin(p)
  /\ UNCHANGED <<open, pattern>>

CloseTag(p) ==
  /\ open = "yes"
  /\ p \in PatternsOf(shown)
  /\ RemoveRecent(p)
  /\ UNCHANGED <<open, pattern, screen, inFlight, asked, rushed>>

ClickClear ==
  /\ open = "yes"
  /\ ClearRecent
  /\ UNCHANGED <<open, pattern, screen, inFlight, asked, rushed>>

(***************************************************************************)
(* run, after its await.  The state setters of a closed tab do nothing;    *)
(* the pattern is pushed all the same.                                     *)
(***************************************************************************)
\* SCAN's next cursor, "0" after the last page.
NextCursor(c) == (c + 1) % Pages

Answer(s) ==
  /\ inFlight[s] # NoRequest
  /\ inFlight' = [inFlight EXCEPT ![s] = NoRequest]
  /\ LET q == inFlight[s]
     IN  /\ IF q.for = "tab"
              THEN /\ listCursor' = NextCursor(q.cursor)
                   /\ keys' = (IF q.mode = "reset" THEN <<>> ELSE keys)
                                \o <<Page(q.cursor, q.pattern)>>
                   /\ loading' = "no"
                   /\ UNCHANGED err
              ELSE UNCHANGED screen
         /\ IF q.mode = "reset" THEN PushRecent(q.pattern, q.for = "tab")
                                ELSE UNCHANGED recents
  /\ UNCHANGED <<open, pattern, asked, rushed>>

\* A mutant of Failure: the buttons go on spinning.
FailureSpins(s) ==
  /\ inFlight[s] # NoRequest
  /\ inFlight' = [inFlight EXCEPT ![s] = NoRequest]
  /\ err' = IF inFlight[s].for = "tab" THEN "yes" ELSE err
  /\ UNCHANGED <<recents, open, pattern, listCursor, keys, loading, asked, rushed>>

\* The server or Redis is out of reach, or refuses.
Failure(s) ==
  /\ inFlight[s] # NoRequest
  /\ inFlight' = [inFlight EXCEPT ![s] = NoRequest]
  /\ IF inFlight[s].for = "tab" THEN err' = "yes" /\ loading' = "no"
                                ELSE UNCHANGED <<err, loading>>
  /\ UNCHANGED <<recents, open, pattern, listCursor, keys, asked, rushed>>

Settle == \E s \in Slots : Failure(s) \/ Answer(s)

ListNext ==
  \/ Open \/ Close
  \/ \E p \in Inputs : Type(p)
  \/ ClickScan \/ ClickMore \/ PressEnter
  \/ \E p \in Patterns : PickRecent(p) \/ DoubleClick(p) \/ CloseTag(p)
  \/ ClickClear
  \/ Settle

ListSpec == ListInit /\ [][ListNext]_listVars

(***************************************************************************)
(* Properties.                                                             *)
(***************************************************************************)
Lists == UNION {[1..n -> Items] : n \in 0..(MaxItems + 1)}

ListTypeOK ==
  /\ stored \in Lists \cup {NoItem}
  /\ legacy \in Lists \cup {NoItem}
  /\ shown \in Lists
  /\ full \in 0..MaxFull
  /\ open \in {"yes", "no"}
  /\ pattern \in Inputs
  /\ listCursor \in ListCursors
  /\ keys \in Seq([cursor : ListCursors, pattern : Patterns])
  /\ loading \in {"yes", "no"}
  /\ err \in {"yes", "no"}
  /\ inFlight \in [Slots -> Requests \cup {NoRequest}]
  /\ asked \in Patterns
  /\ rushed \in {"yes", "no"}

(***************************************************************************)
(* The buttons page through a SCAN: each page is shown once, in order, and *)
(* the cursor is the one after the last page shown, through failures, a    *)
(* closed tab and its late answers, and a new Scan in the middle of the    *)
(* list (RedisKeysTab.tsx:78-90).  Enter, an option or a tag used while an *)
(* answer is awaited voids this: run has no guard of its own.              *)
(***************************************************************************)
PagesInOrder ==
  rushed = "no" =>
    /\ \A i \in DOMAIN keys : keys[i].cursor = i - 1
    /\ listCursor = Len(keys) % Pages

(***************************************************************************)
(* The buttons do not spin for ever: whatever overlaps, and whether the    *)
(* search fails (RedisKeysTab.tsx:96-98).                                  *)
(***************************************************************************)
SpinnerStops == loading = "yes" ~> loading = "no"

(***************************************************************************)
(* "A click on a tag searches at once" (RedisKeysTab.tsx:180): when no     *)
(* answer is awaited and no error is shown, the keys on the screen are     *)
(* those of the pattern the user asked for.                                *)
(***************************************************************************)
SearchShowsWhatWasAsked ==
  Awaited = {} /\ err = "no" =>
    \A i \in DOMAIN keys : keys[i].pattern = asked
=============================================================================
