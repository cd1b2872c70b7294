--------------------------------- MODULE App ---------------------------------
(***************************************************************************)
(* webui/src/App.tsx: the workspace, and over it the drawer with the list  *)
(* of connections.  They share no state of the page: the tree reads the    *)
(* connections once and is not told of later changes, and the drawer is    *)
(* destroyed when it is closed.  One of the two is at work here and the    *)
(* variables of the other stay where they are.                             *)
(***************************************************************************)
EXTENDS Workspace, ConnectionsPage

VARIABLE scene   \* "workspace" or "drawer"

appVars == <<scene, workspaceVars, pageVars>>

AppInit ==
  \/ scene = "workspace" /\ WorkspaceInit /\ PageInitWith({})
  \/ scene = "drawer" /\ WorkspaceInit /\ PageInit

AppNext ==
  /\ UNCHANGED scene
  /\ \/ scene = "workspace" /\ WorkspaceNext /\ UNCHANGED pageVars
     \/ scene = "drawer" /\ PageNext /\ UNCHANGED workspaceVars

AppSpec == AppInit /\ [][AppNext]_appVars
=============================================================================
