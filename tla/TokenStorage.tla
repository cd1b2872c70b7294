---------------------------- MODULE TokenStorage ----------------------------
(***************************************************************************)
(* The bearer token: getToken, setToken, clearToken and request of         *)
(* webui/src/api/client.ts, and the two buttons of App.tsx.  Every window  *)
(* of the browser has an App of its own, and all share one localStorage,   *)
(* in which an earlier version left its token under OLD_TOKEN_KEY.         *)
(***************************************************************************)
EXTENDS LocalStorage

CONSTANTS
  Windows,
  Tokens,     \* what the user may save; "" and blanks are NoItem
  Unsent      \* no request yet

ASSUME TokensAssumption == NoItem \notin Tokens

VARIABLES
  token, oldToken,   \* the values under TOKEN_KEY and OLD_TOKEN_KEY
  savedToken,        \* [Windows -> Tokens \cup {NoItem}]: the state of the App
  header,            \* what the last request of a window carried
  lastToken          \* history: the last token saved in any window, NoItem
                     \* once one of them has cleared it

tokenVars == <<token, oldToken, savedToken, header, lastToken>>

\* Where a token is, if there is one.
ReadToken == IF token # NoItem THEN token ELSE oldToken

\* getToken moves a token it finds under the old key alone; if setItem
\* throws, there is no token this time.
GetToken(v) ==
  \/ /\ ~Moves(token, oldToken)
     /\ v = token
     /\ UNCHANGED <<token, oldToken, full>>
  \/ /\ Moves(token, oldToken)
     /\ Throw(0)
     /\ v = oldToken
     /\ token' = oldToken
     /\ oldToken' = NoItem
  \/ /\ Moves(token, oldToken)
     /\ Throw(1)
     /\ v = NoItem
     /\ UNCHANGED <<token, oldToken>>

\* A page is loaded, or reloaded.
OpenApp(w) ==
  /\ \E v \in Tokens \cup {NoItem} :
       /\ GetToken(v)
       /\ savedToken' = [savedToken EXCEPT ![w] = v]
  /\ header' = [header EXCEPT ![w] = Unsent]
  /\ UNCHANGED lastToken

\* A mutant of ClearToken: the old key is forgotten.
ClearNewToken ==
  /\ token' = NoItem
  /\ UNCHANGED <<oldToken, full>>

ClearToken ==
  /\ token' = NoItem
  /\ oldToken' = NoItem
  /\ UNCHANGED full

\* setToken leaves the old key; if it throws, the window's state stays.
ClickSave(w, t) ==
  /\ \/ /\ Throw(0)
        /\ token' = t
        /\ savedToken' = [savedToken EXCEPT ![w] = t]
        /\ lastToken' = t
     \/ Throw(1) /\ UNCHANGED <<token, savedToken, lastToken>>
  /\ UNCHANGED <<oldToken, header>>

\* Clear, or Save with an empty input.
ClickClear(w) ==
  /\ ClearToken
  /\ savedToken' = [savedToken EXCEPT ![w] = NoItem]
  /\ lastToken' = NoItem
  /\ UNCHANGED header

\* request: the header is made of the stored token, not of savedToken.
SendWithToken(w) ==
  /\ \E v \in Tokens \cup {NoItem} :
       /\ GetToken(v)
       /\ header' = [header EXCEPT ![w] = v]
  /\ UNCHANGED <<savedToken, lastToken>>

TokenInit ==
  /\ token \in Tokens \cup {NoItem}
  /\ oldToken \in Tokens \cup {NoItem}
  /\ NoItem \in {token, oldToken}
  /\ savedToken = [w \in Windows |-> NoItem]
  /\ header = [w \in Windows |-> Unsent]
  /\ lastToken = ReadToken

TokenNext ==
  \E w \in Windows :
    \/ OpenApp(w) \/ ClickClear(w) \/ SendWithToken(w)
    \/ \E t \in Tokens : ClickSave(w, t)

(***************************************************************************)
(* Properties.                                                             *)
(***************************************************************************)
(***************************************************************************)
(* A request carries the last token that was saved in any window, and none *)
(* once any has cleared it: no token of an earlier version or another      *)
(* window comes back, in whatever order windows are opened, saves fail and *)
(* the old key is moved (client.ts:31-61).  When the move throws, the      *)
(* request goes without a token.                                           *)
(***************************************************************************)
LastTokenIsSent ==
  [][\A w \in Windows : header'[w] \notin {header[w], Unsent} =>
       header'[w] = lastToken \/ (header'[w] = NoItem /\ full' # full)]_<<tokenVars, full>>
=============================================================================
