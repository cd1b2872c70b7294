-------------------------------- MODULE MCPage --------------------------------
(* What outlives the panel of a tab: the workspace with its drawer, and what   *)
(* the page keeps in localStorage.  They share no state (the header's token    *)
(* is TokenStorage's), so a behaviour is about the one or the other.           *)
EXTENDS App, BrowserStorage

VARIABLE half   \* "app" or "storage"

NoApp == scene = "workspace" /\ WorkspaceInit /\ PageInitWith({})

NoStorage ==
  /\ Init
  /\ use = "lists"
  /\ {legacy, oldHistory, oldFavorites, token, oldToken} = {NoItem}

MCPageInit ==
  \/ half = "app" /\ AppInit /\ NoStorage
  \/ half = "storage" /\ Init /\ NoApp

MCPageNext ==
  /\ UNCHANGED half
  /\ \/ half = "app" /\ AppNext /\ UNCHANGED vars
     \/ half = "storage" /\ Next /\ UNCHANGED appVars

MCPageSpec == MCPageInit /\ [][MCPageNext]_<<half, appVars, vars>>
=============================================================================
