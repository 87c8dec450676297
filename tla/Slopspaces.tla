----------------------------- MODULE Slopspaces -----------------------------
(***************************************************************************)
(* dungeon-keeper/pkg/slopspace: the slopspaces and the one deploy path    *)
(* that every process working for the same agent type shares.  condoccer   *)
(* and the dungeon-keeper worker both link this package, and nothing but   *)
(* the files below coordinates them.                                       *)
(*                                                                         *)
(* A condoc's slopspace is named by its condoc, and the one a worker makes *)
(* for itself by that worker.  What a slopspace holds is its writespaces   *)
(* tree, named by the slopspace it was made for, so that a tree that ends  *)
(* up lost or in another slopspace is visible.  A Deploy or a Return is    *)
(* one step.                                                               *)
(***************************************************************************)
CONSTANTS Condocs,  \* condoc pointer stems, each with one slopspace
          Workers,  \* dungeon-keeper processes of agent type agent-worker
          None      \* nobody and nothing

ASSUME PartiesAssumption ==
    /\ None \notin Condocs \cup Workers
    /\ Condocs \cap Workers = {}

Slopspace == Condocs \cup Workers

VARIABLES deployed,  \* SLOPSPACE.json of each slopspace says deployed
          marker,    \* SLOPSPACE_ID at the deploy path
          homeTree,  \* the tree in each slopspace's own writespaces directory
          pathTree   \* the tree in the deploy path's writespaces directory

slopspaceVars == <<deployed, marker, homeTree, pathTree>>

SlopspacesTypeOK ==
    /\ deployed \in [Slopspace -> BOOLEAN]
    /\ marker \in Slopspace \cup {None}
    /\ homeTree \in [Slopspace -> Slopspace \cup {None}]
    /\ pathTree \in Slopspace \cup {None}

\* Accepted condocs have their slopspace; a worker's is made when needed.
SlopspacesInit ==
    /\ deployed = [x \in Slopspace |-> FALSE]
    /\ marker = None
    /\ homeTree = [x \in Slopspace |-> IF x \in Condocs THEN x ELSE None]
    /\ pathTree = None

-----------------------------------------------------------------------------
\* Deploy clears whatever the deploy path holds before it moves the tree in,
\* and never looks at the marker: keeping the path free is the caller's part.
Deploy(x) ==
    /\ ~deployed[x]
    /\ homeTree[x] # None
    /\ deployed' = [deployed EXCEPT ![x] = TRUE]
    /\ marker' = x
    /\ homeTree' = [homeTree EXCEPT ![x] = None]
    /\ pathTree' = homeTree[x]

\* Create followed by Deploy, as a worker does for a signal that finds
\* nothing deployed.  The name of the worker's last slopspace is reused.
CreateAndDeploy(w) ==
    /\ deployed' = [deployed EXCEPT ![w] = TRUE]
    /\ marker' = w
    /\ homeTree' = [homeTree EXCEPT ![w] = None]
    /\ pathTree' = w

\* Return moves whatever is at the deploy path home.
CanReturn(x) == deployed[x] /\ pathTree # None

\* Mutant: the slopspace keeps what it had instead of what is moved home.
ReturnEmpty(x) ==
    /\ CanReturn(x)
    /\ deployed' = [deployed EXCEPT ![x] = FALSE]
    /\ marker' = None
    /\ pathTree' = None
    /\ UNCHANGED homeTree

Return(x) ==
    /\ CanReturn(x)
    /\ deployed' = [deployed EXCEPT ![x] = FALSE]
    /\ marker' = None
    /\ homeTree' = [homeTree EXCEPT ![x] = pathTree]
    /\ pathTree' = None

\* With nothing to move, the rename fails; the slopspace's own directory was
\* emptied just before.
ReturnFails(x) ==
    /\ deployed[x] /\ pathTree = None
    /\ homeTree' = [homeTree EXCEPT ![x] = None]
    /\ UNCHANGED <<deployed, marker, pathTree>>
=============================================================================
