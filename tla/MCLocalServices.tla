-------------------------- MODULE MCLocalServices ---------------------------
(***************************************************************************)
(* What a host's local-representative keeps going, service by service: its *)
(* processes, its repository, a control run, its link to agent-coordinator *)
(* and the tunnels over it.  Each has its own goroutines and state, so a   *)
(* behaviour moves one of them from beginning to end while the others stay *)
(* as they started.                                                        *)
(***************************************************************************)
EXTENDS ManagedApps, RepoWatch, ControlRuns, HostLink

MCExcludes == {<<"condoccer", "condocv2">>, <<"condocv2", "condoccer">>}
MCAutoLaunch == [a \in Apps |-> IF a = "condoccer" THEN 1 ELSE 0]
MCSteps == <<"ask", "robot">>
MCBlocks == <<[from |-> 1, to |-> 1], [from |-> 2, to |-> 2]>>

LocalInit ==
    /\ service \in {"apps", "repo", "control", "link", "tunnels"}
    /\ ManagedAppsInit
    /\ RepoWatchInit
    /\ watch.head = head
    /\ ~Moves("repo") => ~(repo.behind \/ ufabuildWatch)
    /\ ControlInit
    /\ HostLinkInit
    /\ TunnelsInit

LocalNext ==
    /\ UNCHANGED service
    /\ \/ /\ service = "apps"
          /\ ManagedAppsNext
          /\ UNCHANGED <<repoWatchVars, controlVars, hostLinkVars,
                         tunnelVars>>
       \/ /\ service = "repo"
          /\ RepoWatchNext
          /\ UNCHANGED <<managedAppsVars, controlVars, hostLinkVars,
                         tunnelVars>>
       \/ /\ service = "control"
          /\ ControlNext
          /\ UNCHANGED <<managedAppsVars, repoWatchVars, hostLinkVars,
                         tunnelVars>>
       \/ /\ service = "link"
          /\ HostLinkNext
          /\ UNCHANGED <<managedAppsVars, repoWatchVars, controlVars,
                         tunnelVars>>
       \/ /\ service = "tunnels"
          /\ TunnelsNext
          /\ UNCHANGED <<managedAppsVars, repoWatchVars, controlVars,
                         hostLinkVars>>

localVars == <<service, managedAppsVars, repoWatchVars, controlVars,
               hostLinkVars, tunnelVars>>

LocalFairness ==
    /\ ManagedAppsFairness
    /\ RepoWatchFairness
    /\ ControlFairness
    /\ HostLinkFairness
    /\ TunnelsFairness

LocalSpec == LocalInit /\ [][LocalNext]_localVars /\ LocalFairness

-----------------------------------------------------------------------------
LocalTypeOK ==
    /\ ManagedAppsTypeOK
    /\ RepoWatchTypeOK
    /\ ControlTypeOK
    /\ HostLinkTypeOK
    /\ TunnelsTypeOK

\* Every process that is told to stop does, and what a restart took down comes
\* back with it.
AppsSettle == TerminateStops /\ CarriedComeBack

\* A host shown as connected can be reached, and whoever is given a tunnel of its
\* is the only one.
LinkSound == ConnectedIsReachable /\ OneOpener

\* A host that auto-connects is connected again, and its tunnels with it.
LinkComesBack == AutoConnectResumes /\ TunnelReturns
=============================================================================
