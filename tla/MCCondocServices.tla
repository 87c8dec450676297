-------------------------- MODULE MCCondocServices --------------------------
(***************************************************************************)
(* The services a condoc goes through, side by side: condocv2, condoccer's *)
(* proposals, a pointer repository, a work signal as files, and            *)
(* federation-command's link.  A behaviour moves one of them from          *)
(* beginning to end while the others stay as they started.                 *)
(* (SameRepoCondoc, a condoc of its own repository, is a run of its own.)  *)
(***************************************************************************)
EXTENDS Interactions, SignalFiles, CondocProposals, PointerRepo, FcLink

MCBegun == [c1 |-> "begun", c2 |-> "queued"]
MCBeginnings == {[MCBegun EXCEPT !.c1 = k] : k \in {"proposed", "begun", "drafted"}}

CondocInit ==
    /\ service \in {"condocv2", "signals", "proposals", "pointer", "fclink"}
    /\ InteractionsInit
    /\ ~Moves("condocv2") => spec["c1"].phase = "AwaitingPrompt"
    /\ SignalFilesInit
    /\ CondocProposalsInit
    /\ PointerRepoInit
    /\ ~Moves("pointer") => clone.state = "missing"
    /\ FcLinkInit
    /\ ~Moves("fclink") => ~retry.on

CondocNext ==
    /\ UNCHANGED service
    /\ \/ /\ service = "condocv2"
          /\ InteractionsNext
          /\ UNCHANGED <<signalFileVars, proposalVars, pointerVars, linkVars>>
       \/ /\ service = "signals"
          /\ SignalFilesNext
          /\ UNCHANGED <<v2Vars, proposalVars, pointerVars, linkVars>>
       \/ /\ service = "proposals"
          /\ CondocProposalsNext
          /\ UNCHANGED <<v2Vars, signalFileVars, pointerVars, linkVars>>
       \/ /\ service = "pointer"
          /\ PointerRepoNext
          /\ UNCHANGED <<v2Vars, signalFileVars, proposalVars, linkVars>>
       \/ /\ service = "fclink"
          /\ FcLinkNext
          /\ UNCHANGED <<v2Vars, signalFileVars, proposalVars, pointerVars>>

condocVars == <<service, v2Vars, signalFileVars, proposalVars, pointerVars, linkVars>>

CondocFairness ==
    /\ InteractionsFairness
    /\ SignalFilesFairness

CondocSpec == CondocInit /\ [][CondocNext]_condocVars /\ CondocFairness

-----------------------------------------------------------------------------
CondocTypeOK ==
    /\ InteractionsTypeOK
    /\ SignalFilesTypeOK
    /\ CondocProposalsTypeOK
    /\ PointerRepoTypeOK
    /\ FcLinkTypeOK

\* What is merged on the way to a condoc's end is merged together, by condocv2
\* and by condoccer alike, and what a turn made reaches the pointer repository.
CondocsLand == MergedTogether /\ LandsTogether /\ PointersDelivered
=============================================================================
