-------------------------- MODULE MCSharedServices --------------------------
(***************************************************************************)
(* What hosts, their people and their programs show and hand to each       *)
(* other, service by service.  A behaviour moves one of them from          *)
(* beginning to end while the others stay as they started; what is said of *)
(* them is what never happens, so no fairness is assumed, and of the one   *)
(* that moves, since the others are as at the start.                      *)
(***************************************************************************)
EXTENDS SlopspaceFiles, Ridealong, NodeRequests, WorkerTab, SessionRecords,
        SessionLogs, HostViews, FileExchange, ControlLibrary, SequenceLibrary,
        RobotSequences, Tools, FcSessions

MCRides == "a" :> <<"b", "cmd">> @@ "b" :> <<"e", "cmd">> @@ "e" :> << >> @@ "x" :> <<"x">>
MCWaypoints == "a" :> {2} @@ "b" :> {} @@ "e" :> {} @@ "x" :> {}
MCPaths == <<"p", "q", "r">>
MCFcSetups == {<<TRUE, TRUE>>, <<FALSE, FALSE>>}

SharedInit ==
    /\ service \in {"slopspaces", "ride", "nodes", "tab", "records",
                    "sessions", "views", "files", "library", "robotlib",
                    "imports", "libtabs", "toolset", "toolruns", "fcsessions"}
    /\ SlopspaceFilesInit
    /\ ~Moves("slopspaces") => stored = [i \in Spaces |-> IF i = 1 THEN stored[1] ELSE NoSpace]
    /\ RidealongInit
    /\ ~Moves("ride") => dot = "idle"
    /\ NodeRequestsInit
    /\ ~Moves("nodes") => robot.up
    /\ WorkerTabInit
    /\ SessionRecordsInit
    /\ SessionLogsInit
    /\ ~Moves("sessions") => yaml[Creator] = Creator
    /\ HostViewsInit
    /\ ~Moves("views") => browser = Closed
    /\ ~Moves("views") => connectedHostNames = {}
    /\ FileExchangeInit
    /\ ControlLibraryInit
    /\ SequenceLibraryInit
    /\ RobotSequencesInit
    /\ LibraryTabsInit
    /\ ToolCatalogInit
    /\ ~Moves("toolset") => place.dst = "none"
    /\ ToolRunsInit
    /\ FcSessionsInit
    /\ ~Moves("fcsessions") => driven

SharedNext ==
    /\ UNCHANGED service
    /\ \/ /\ service = "slopspaces"
          /\ SlopspaceFilesNext
          /\ UNCHANGED <<rideVars, nodeVars, tabVars, recordVars, sessionVars,
                         viewVars, fileVars, ctlLibVars, seqLibVars,
                         seqImportVars, libTabVars, toolCatalogVars,
                         toolRunVars, fcSessionVars>>
       \/ /\ service = "ride"
          /\ RidealongNext
          /\ UNCHANGED <<slopFileVars, nodeVars, tabVars, recordVars,
                         sessionVars, viewVars, fileVars, ctlLibVars,
                         seqLibVars, seqImportVars, libTabVars,
                         toolCatalogVars, toolRunVars, fcSessionVars>>
       \/ /\ service = "nodes"
          /\ NodeRequestsNext
          /\ UNCHANGED <<slopFileVars, rideVars, tabVars, recordVars,
                         sessionVars, viewVars, fileVars, ctlLibVars,
                         seqLibVars, seqImportVars, libTabVars,
                         toolCatalogVars, toolRunVars, fcSessionVars>>
       \/ /\ service = "tab"
          /\ WorkerTabNext
          /\ UNCHANGED <<slopFileVars, rideVars, nodeVars, recordVars,
                         sessionVars, viewVars, fileVars, ctlLibVars,
                         seqLibVars, seqImportVars, libTabVars,
                         toolCatalogVars, toolRunVars, fcSessionVars>>
       \/ /\ service = "records"
          /\ SessionRecordsNext
          /\ UNCHANGED <<slopFileVars, rideVars, nodeVars, tabVars,
                         sessionVars, viewVars, fileVars, ctlLibVars,
                         seqLibVars, seqImportVars, libTabVars,
                         toolCatalogVars, toolRunVars, fcSessionVars>>
       \/ /\ service = "sessions"
          /\ SessionLogsNext
          /\ UNCHANGED <<slopFileVars, rideVars, nodeVars, tabVars,
                         recordVars, viewVars, fileVars, ctlLibVars,
                         seqLibVars, seqImportVars, libTabVars,
                         toolCatalogVars, toolRunVars, fcSessionVars>>
       \/ /\ service = "views"
          /\ HostViewsNext
          /\ UNCHANGED <<slopFileVars, rideVars, nodeVars, tabVars,
                         recordVars, sessionVars, fileVars, ctlLibVars,
                         seqLibVars, seqImportVars, libTabVars,
                         toolCatalogVars, toolRunVars, fcSessionVars>>
       \/ /\ service = "files"
          /\ FileExchangeNext
          /\ UNCHANGED <<slopFileVars, rideVars, nodeVars, tabVars,
                         recordVars, sessionVars, viewVars, ctlLibVars,
                         seqLibVars, seqImportVars, libTabVars,
                         toolCatalogVars, toolRunVars, fcSessionVars>>
       \/ /\ service = "library"
          /\ ControlLibraryNext
          /\ UNCHANGED <<slopFileVars, rideVars, nodeVars, tabVars,
                         recordVars, sessionVars, viewVars, fileVars,
                         seqLibVars, seqImportVars, libTabVars,
                         toolCatalogVars, toolRunVars, fcSessionVars>>
       \/ /\ service = "robotlib"
          /\ SequenceLibraryNext
          /\ UNCHANGED <<slopFileVars, rideVars, nodeVars, tabVars,
                         recordVars, sessionVars, viewVars, fileVars,
                         ctlLibVars, seqImportVars, libTabVars,
                         toolCatalogVars, toolRunVars, fcSessionVars>>
       \/ /\ service = "imports"
          /\ RobotSequencesNext
          /\ UNCHANGED <<slopFileVars, rideVars, nodeVars, tabVars,
                         recordVars, sessionVars, viewVars, fileVars,
                         ctlLibVars, seqLibVars, libTabVars, toolCatalogVars,
                         toolRunVars, fcSessionVars>>
       \/ /\ service = "libtabs"
          /\ LibraryTabsNext
          /\ UNCHANGED <<slopFileVars, rideVars, nodeVars, tabVars,
                         recordVars, sessionVars, viewVars, fileVars,
                         ctlLibVars, seqLibVars, seqImportVars,
                         toolCatalogVars, toolRunVars, fcSessionVars>>
       \/ /\ service = "toolset"
          /\ ToolCatalogNext
          /\ UNCHANGED <<slopFileVars, rideVars, nodeVars, tabVars,
                         recordVars, sessionVars, viewVars, fileVars,
                         ctlLibVars, seqLibVars, seqImportVars, libTabVars,
                         toolRunVars, fcSessionVars>>
       \/ /\ service = "toolruns"
          /\ ToolRunsNext
          /\ UNCHANGED <<slopFileVars, rideVars, nodeVars, tabVars,
                         recordVars, sessionVars, viewVars, fileVars,
                         ctlLibVars, seqLibVars, seqImportVars, libTabVars,
                         toolCatalogVars, fcSessionVars>>
       \/ /\ service = "fcsessions"
          /\ FcSessionsNext
          /\ UNCHANGED <<slopFileVars, rideVars, nodeVars, tabVars,
                         recordVars, sessionVars, viewVars, fileVars,
                         ctlLibVars, seqLibVars, seqImportVars, libTabVars,
                         toolCatalogVars, toolRunVars>>

sharedVars == <<service, slopFileVars, rideVars, nodeVars, tabVars,
                recordVars, sessionVars, viewVars, fileVars, ctlLibVars,
                seqLibVars, seqImportVars, libTabVars, toolCatalogVars,
                toolRunVars, fcSessionVars>>

SharedSpec == SharedInit /\ [][SharedNext]_sharedVars

-----------------------------------------------------------------------------
SharedTypeOK ==
    /\ Moves("slopspaces") => SlopspaceFilesTypeOK
    /\ Moves("ride") => RidealongTypeOK
    /\ Moves("nodes") => NodeRequestsTypeOK
    /\ Moves("tab") => WorkerTabTypeOK
    /\ Moves("records") => SessionRecordsTypeOK
    /\ Moves("sessions") => SessionLogsTypeOK
    /\ Moves("views") => HostViewsTypeOK
    /\ Moves("files") => FileExchangeTypeOK
    /\ Moves("library") => ControlLibraryTypeOK
    /\ Moves("robotlib") => SequenceLibraryTypeOK
    /\ Moves("imports") => RobotSequencesTypeOK
    /\ Moves("libtabs") => LibraryTabsTypeOK
    /\ Moves("toolset") => ToolCatalogTypeOK
    /\ Moves("toolruns") => ToolRunsTypeOK
    /\ Moves("fcsessions") => FcSessionsTypeOK

\* What is shown is so: the tab of a worker is what the worker last was,
\* browsers and hosts are shown what agent-coordinator keeps, and the tabs of
\* a robot its library and its runs.
ShownAsItIs ==
    /\ Moves("tab") => TabIsCurrent
    /\ Moves("views") => ShownIsSo
    /\ Moves("libtabs") => TabsUpToDate
    /\ Moves("imports") => ImportsShown

\* What somebody recorded, uploaded or composed is kept: the turns of a session,
\* by the processes that write one log and on the hosts that exchange logs, the
\* files handed to a host, its libraries of sequences, its tools and their runs,
\* and the commands entered at it.
KeptAsPromised ==
    /\ Moves("records") => RecordsKept
    /\ Moves("sessions") => TurnsKept
    /\ Moves("files") => FilesKept
    /\ Moves("library") => LibraryKept
    /\ Moves("robotlib") => RobotLibraryKept
    /\ Moves("toolset") => ToolsKept
    /\ Moves("toolruns") => ToolRunsKept
    /\ Moves("fcsessions") => CommandsKept

\* Whoever asked another node is told of what it asked, and a run is taken for
\* that of its own sequence.
AnswersAreTheirOwn ==
    /\ Moves("nodes") => AnswersAreTheirs
    /\ Moves("library") => RunIsItsOwn
=============================================================================
