--------------------------- MODULE ConnectionsPage ---------------------------
(***************************************************************************)
(* webui/src/pages/Connections.tsx with useConnections.ts, in the drawer   *)
(* that App.tsx opens and destroys: the list, the two dialogs, and what    *)
(* each call does before and after its awaits.  A create, an edit or a     *)
(* delete is a call and then a reload of the list; several are in flight   *)
(* when the user goes on before the answers, and the drawer may be closed  *)
(* and opened again meanwhile.  The server is ConnRegistry's list, as      *)
(* versions of connections; no other window changes it.                    *)
(*                                                                         *)
(* Not modelled: the fields of a connection and the test button, which     *)
(* changes nothing but its own spinner.                                    *)
(***************************************************************************)
EXTENDS Naturals

CONSTANTS
  ConnIds,     \* ids the server may give
  NoConn,      \* no connection
  MaxVersion,  \* bound: versions of a connection
  MaxCalls     \* bound: calls in flight

ASSUME PageBoundsAssumption == MaxVersion \in Nat \ {0} /\ MaxCalls \in Nat \ {0}
ASSUME NoConnAssumption == NoConn \notin ConnIds

VARIABLES
  server,      \* [ConnIds -> version]; 0 without the connection
  given,       \* ids given so far
  calls,       \* [Calls -> record], see Call
  drawer,      \* "open" or "closed"
  list, loading, listErr,        \* useConnections
  createOpen, editOpen, editing, submitting, deletingId,
  formOf,      \* history: the connection whose values the edit form has
  blind        \* history: "yes" once the list may be out of date unknowingly,
               \* until it is reloaded with nothing else in flight

shownList == <<list, loading, listErr>>
dialogs == <<createOpen, editOpen, editing, submitting, deletingId, formOf>>
pageVars == <<server, given, calls, drawer, shownList, dialogs, blind>>

Calls == 1..MaxCalls
NoList == [c \in ConnIds |-> 0]
Lists == [ConnIds -> 0..MaxVersion]

(***************************************************************************)
(* A call: what it is for, its connection, how far it is, the list it has  *)
(* read, and whether its component is still there.                         *)
(***************************************************************************)
Call(what, id, stage) ==
  [what |-> what, id |-> id, stage |-> stage, list |-> NoList, for |-> "page"]
Free == Call("none", NoConn, "free")

InFlight == {s \in Calls : calls[s] # Free}
Loading(s) == calls[s].stage \in {"getting", "got"}

Start(call) ==
  \E s \in Calls :
    /\ calls[s] = Free
    /\ \A t \in Calls : t < s => calls[t] # Free
    /\ calls' = [calls EXCEPT ![s] = call]

Finish(s) == calls' = [calls EXCEPT ![s] = Free]
MoveTo(s, stage) == calls' = [calls EXCEPT ![s].stage = stage]

NoDialog == createOpen = "no" /\ editOpen = "no"

(***************************************************************************)
(* The user.  A dialog covers the list; the buttons that spin do nothing.  *)
(***************************************************************************)
\* A new component, which loads the list.
OpenDrawer ==
  /\ drawer = "closed"
  /\ drawer' = "open"
  /\ Start(Call("refresh", NoConn, "getting"))
  /\ loading' = "yes"
  /\ blind' = IF InFlight = {} THEN "no" ELSE "yes"
  /\ UNCHANGED <<server, given, list, listErr, dialogs>>

\* The component is destroyed.  Of its calls only what the server has still
\* to do matters: what follows an await comes to nothing.
CloseDrawer ==
  /\ drawer = "open"
  /\ drawer' = "closed"
  /\ calls' = [s \in Calls |-> IF calls[s].stage = "sent" THEN [calls[s] EXCEPT !.for = "nobody"]
                               ELSE Free]
  /\ list' = NoList /\ loading' = "no" /\ listErr' = "no"
  /\ createOpen' = "no" /\ editOpen' = "no" /\ editing' = NoConn
  /\ submitting' = "no" /\ deletingId' = NoConn /\ formOf' = NoConn
  /\ UNCHANGED <<server, given, blind>>

ClickRefreshList ==
  /\ drawer = "open" /\ NoDialog
  /\ loading = "no"
  /\ Start(Call("refresh", NoConn, "getting"))
  /\ loading' = "yes" /\ listErr' = "no"
  /\ blind' = IF InFlight = {} THEN "no" ELSE "yes"
  /\ UNCHANGED <<server, given, drawer, list, dialogs>>

OpenCreate ==
  /\ drawer = "open" /\ NoDialog
  /\ createOpen' = "yes"
  /\ UNCHANGED <<server, given, calls, drawer, shownList, editOpen, editing, submitting,
                 deletingId, formOf, blind>>

CancelCreate ==
  /\ drawer = "open" /\ createOpen = "yes"
  /\ createOpen' = "no"
  /\ UNCHANGED <<server, given, calls, drawer, shownList, editOpen, editing, submitting,
                 deletingId, formOf, blind>>

OpenEdit(c) ==
  /\ drawer = "open" /\ NoDialog
  /\ list[c] # 0
  /\ editOpen' = "yes" /\ editing' = c /\ formOf' = c
  /\ UNCHANGED <<server, given, calls, drawer, shownList, createOpen, submitting,
                 deletingId, blind>>

CancelEdit ==
  /\ drawer = "open" /\ editOpen = "yes"
  /\ editOpen' = "no" /\ editing' = NoConn
  /\ UNCHANGED <<server, given, calls, drawer, shownList, createOpen, submitting,
                 deletingId, formOf, blind>>

\* onCreate and onEdit up to their first await.
Submit(call) ==
  /\ drawer = "open"
  /\ submitting = "no"
  /\ submitting' = "yes"
  /\ Start(call)
  /\ UNCHANGED <<server, given, drawer, shownList, createOpen, editOpen, editing,
                 deletingId, formOf, blind>>

SubmitCreate == createOpen = "yes" /\ Submit(Call("create", NoConn, "sent"))
SubmitEdit ==
  editOpen = "yes" /\ editing # NoConn /\ Submit(Call("edit", editing, "sent"))

\* The spinner is on the row deleted last.
ConfirmDelete(c) ==
  /\ drawer = "open" /\ NoDialog
  /\ list[c] # 0
  /\ deletingId # c
  /\ deletingId' = c
  /\ Start(Call("delete", c, "sent"))
  /\ UNCHANGED <<server, given, drawer, shownList, createOpen, editOpen, editing,
                 submitting, formOf, blind>>

(***************************************************************************)
(* The server (handlers_connections.go, handled in ConnApi).               *)
(***************************************************************************)
Effect(call) ==
  \/ /\ call.what = "create"
     /\ \E c \in ConnIds \ given :
          given' = given \cup {c} /\ server' = [server EXCEPT ![c] = 1]
  \/ /\ call.what = "edit" /\ server[call.id] \in 1..(MaxVersion - 1)
     /\ server' = [server EXCEPT ![call.id] = @ + 1]
     /\ UNCHANGED given
  \/ /\ call.what = "delete" /\ server[call.id] # 0
     /\ server' = [server EXCEPT ![call.id] = 0]
     /\ UNCHANGED given

Apply(s) ==
  /\ calls[s].stage = "sent"
  /\ Effect(calls[s])
  /\ IF calls[s].for = "page" THEN MoveTo(s, "done") ELSE Finish(s)
  /\ blind' = IF calls[s].for = "nobody" THEN "yes" ELSE blind
  /\ UNCHANGED <<drawer, shownList, dialogs>>

\* Not found, or the file fails.
Refuse(s) ==
  /\ calls[s].stage = "sent"
  /\ IF calls[s].for = "page" THEN MoveTo(s, "refused") ELSE Finish(s)
  /\ UNCHANGED <<server, given, drawer, shownList, dialogs, blind>>

\* The change is made, and the page does not hear of it.
LoseAnswer(s) ==
  /\ calls[s].stage = "done"
  /\ MoveTo(s, "refused")
  /\ blind' = "yes"
  /\ UNCHANGED <<server, given, drawer, shownList, dialogs>>

ListRead(s) ==
  /\ calls[s].stage = "getting"
  /\ calls' = [calls EXCEPT ![s].stage = "got", ![s].list = server]
  /\ UNCHANGED <<server, given, drawer, shownList, dialogs, blind>>

(***************************************************************************)
(* The page after an await.                                                *)
(***************************************************************************)
\* A mutant of CloseDialog: the dialog is left to the user.
CloseDialogHalf(what) ==
  /\ createOpen' = IF what = "create" THEN "no" ELSE createOpen
  /\ IF what = "edit" THEN editing' = NoConn /\ formOf' = NoConn
                      ELSE UNCHANGED <<editing, formOf>>
  /\ UNCHANGED editOpen

\* A success closes the dialog of its kind, whosever it is by now.
CloseDialog(what) ==
  /\ createOpen' = IF what = "create" THEN "no" ELSE createOpen
  /\ IF what = "edit" THEN editOpen' = "no" /\ editing' = NoConn /\ formOf' = NoConn
                      ELSE UNCHANGED <<editOpen, editing, formOf>>

StopSpinner(what) ==
  /\ submitting' = IF what \in {"create", "edit"} THEN "no" ELSE submitting
  /\ deletingId' = IF what = "delete" THEN NoConn ELSE deletingId

\* A mutant of Succeeds: the list is not reloaded.
SucceedsSilently(s) ==
  /\ calls[s].stage = "done"
  /\ CloseDialog(calls[s].what)
  /\ StopSpinner(calls[s].what)
  /\ Finish(s)
  /\ UNCHANGED <<server, given, drawer, shownList, blind>>

Succeeds(s) ==
  /\ calls[s].stage = "done"
  /\ CloseDialog(calls[s].what)
  /\ MoveTo(s, "getting")
  /\ loading' = "yes" /\ listErr' = "no"
  /\ blind' = IF \E t \in Calls : Loading(t) THEN "yes" ELSE blind
  /\ UNCHANGED <<server, given, drawer, list, submitting, deletingId>>

\* A mutant of IsRefused: a failed call spins for ever.
IsRefusedSpinning(s) ==
  /\ calls[s].stage = "refused"
  /\ Finish(s)
  /\ UNCHANGED <<server, given, drawer, shownList, dialogs, blind>>

\* A message, and the dialog stays open.
IsRefused(s) ==
  /\ calls[s].stage = "refused"
  /\ StopSpinner(calls[s].what)
  /\ Finish(s)
  /\ UNCHANGED <<server, given, drawer, shownList, createOpen, editOpen, editing, formOf,
                 blind>>

\* The list answered last is the one that is shown.
ShowList(s) ==
  /\ calls[s].stage = "got"
  /\ list' = calls[s].list
  /\ loading' = "no"
  /\ StopSpinner(calls[s].what)
  /\ Finish(s)
  /\ UNCHANGED <<server, given, drawer, listErr, createOpen, editOpen, editing, formOf, blind>>

ListFails(s) ==
  /\ Loading(s)
  /\ listErr' = "yes"
  /\ loading' = "no"
  /\ StopSpinner(calls[s].what)
  /\ Finish(s)
  /\ UNCHANGED <<server, given, drawer, list, createOpen, editOpen, editing, formOf, blind>>

Settle(s) ==
  \/ Apply(s) \/ Refuse(s) \/ LoseAnswer(s) \/ ListRead(s)
  \/ Succeeds(s) \/ IsRefused(s) \/ ShowList(s) \/ ListFails(s)

PageInitWith(S) ==
  /\ given = S
  /\ server = [c \in ConnIds |-> IF c \in S THEN 1 ELSE 0]
  /\ calls = [s \in Calls |-> Free]
  /\ drawer = "closed"
  /\ list = NoList /\ loading = "no" /\ listErr = "no"
  /\ createOpen = "no" /\ editOpen = "no" /\ editing = NoConn
  /\ submitting = "no" /\ deletingId = NoConn /\ formOf = NoConn
  /\ blind = "no"

PageInit == \E S \in SUBSET ConnIds : PageInitWith(S)

PageNext ==
  \/ OpenDrawer \/ CloseDrawer \/ ClickRefreshList
  \/ OpenCreate \/ CancelCreate \/ SubmitCreate
  \/ CancelEdit \/ SubmitEdit
  \/ \E c \in ConnIds : OpenEdit(c) \/ ConfirmDelete(c)
  \/ \E s \in Calls : Settle(s)

PageSpec == PageInit /\ [][PageNext]_pageVars

(***************************************************************************)
(* Properties.                                                             *)
(***************************************************************************)
(***************************************************************************)
(* With nothing in flight and no error, the list on the page is the        *)
(* server's: every change is followed by a reload, whichever dialog is     *)
(* open by then and whatever other change fails.  It may be another after  *)
(* reloads that overlapped (the one answered last wins, not the one sent   *)
(* last), an answer that was lost, or a change of a closed drawer; then a  *)
(* Refresh puts it right (Connections.tsx:98-112, 213-300,                 *)
(* useConnections.ts:47-58).                                               *)
(***************************************************************************)
ListIsCurrent ==
  drawer = "open" /\ InFlight = {} /\ listErr = "no" /\ blind = "no" => list = server

(***************************************************************************)
(* The edit dialog is open for the connection whose values are in its      *)
(* form, through cancels and answers to earlier edits: OK sends to the     *)
(* connection the user sees (Connections.tsx:163-190, 255-300, 402-405).   *)
(***************************************************************************)
EditsWhatIsShown == drawer = "open" /\ editOpen = "yes" => editing # NoConn /\ editing = formOf

Spinning(whats, id) ==
  \E s \in Calls : calls[s].what \in whats /\ calls[s].for = "page" /\ calls[s].id = id

(***************************************************************************)
(* What spins on the page waits for a call of its own that is in flight,   *)
(* whether calls overlap, fail or lose their answer, or the reload after   *)
(* them does: the button of the dialogs, the row that is deleted, and the  *)
(* list (Connections.tsx:98-112, 213-300, useConnections.ts:47-58).        *)
(***************************************************************************)
SpinnersHaveCalls ==
  /\ submitting = "yes" => \E id \in ConnIds \cup {NoConn} : Spinning({"create", "edit"}, id)
  /\ deletingId # NoConn => Spinning({"delete"}, deletingId)
  /\ loading = "yes" => \E s \in Calls : Loading(s)

(***************************************************************************)
(* The inductive invariant.                                                *)
(***************************************************************************)
CallTypes ==
  [what : {"none", "refresh", "create", "edit", "delete"}, id : ConnIds \cup {NoConn},
   stage : {"free", "sent", "done", "refused", "getting", "got"}, list : Lists,
   for : {"page", "nobody"}]

PageTypeOK ==
  /\ server \in Lists
  /\ given \in SUBSET ConnIds
  /\ calls \in [Calls -> CallTypes]
  /\ drawer \in {"open", "closed"}
  /\ list \in Lists
  /\ {loading, listErr, createOpen, editOpen, submitting, blind} \subseteq {"yes", "no"}
  /\ {editing, deletingId, formOf} \subseteq ConnIds \cup {NoConn}

\* A change that the page has still to reload the list for.
Unheard == \E s \in Calls : calls[s].stage = "done"

\* Unless the list may be out of date unknowingly, one reload at a time is
\* under way, and it brings the server's list, or the page has that already.
ReloadInv ==
  drawer = "open" /\ blind = "no" =>
    /\ \A s, t \in Calls : Loading(s) /\ Loading(t) => s = t
    /\ ~Unheard =>
         /\ \A s \in Calls : calls[s].stage = "got" => calls[s].list = server
         /\ (\A s \in Calls : ~Loading(s)) /\ listErr = "no" => list = server

PageInv ==
  /\ PageTypeOK
  /\ drawer = "closed" => editOpen = "no"
  /\ EditsWhatIsShown
  /\ SpinnersHaveCalls
  /\ ReloadInv
=============================================================================
