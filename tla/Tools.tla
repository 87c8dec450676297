--------------------------------- MODULE Tools ---------------------------------
(***************************************************************************)
(* The tools a host has: directories that dtt installs, replaces and       *)
(* creates (dtt/catalog.go), one process per request and no lock, and the  *)
(* catalog local-representative makes of them (tools.go), listed at its    *)
(* start, every ten minutes and when it is asked to.  One tool stands for  *)
(* all; what lies in its directory is named after who put it there.        *)
(***************************************************************************)
EXTENDS Naturals, Services, Sequences, FiniteSets, SequencesExt

CONSTANTS Installers, MaxInstalls

ASSUME ToolCatalogAssumption == MaxInstalls \in Nat

VARIABLES place,       \* what lies in the tool's directory, and in the one beside it
          installing,  \* dtt process -> how far it is
          watch,       \* watchLoop, and what its dtt list has read
          wake,        \* somebody asked it to list
          catalog,     \* status, and the tool
          toolStory,   \* history: what was last said to be there; whether two requests
                       \* met, or one was stopped or had no room as they did; whether
                       \* a change was not followed by a listing
          installs     \* requests so far

toolCatalogVars == <<place, installing, watch, wake, catalog, toolStory, installs>>

Unwritten == {"none", "empty", "part"}
Whose == Installers \cup {"first", "edited", "mixed"}
Stages == {"idle", "copying", "clearing", "moving", "placing", "placed", "making",
           "writing", "scripting", "done", "answered", "failed"}
NotAsked == [at |-> "idle", old |-> FALSE, changed |-> FALSE]

ToolCatalogTypeOK ==
    /\ place.dst \in Unwritten \cup Whose /\ place.old \in Unwritten \cup Whose
    /\ installing \in [Installers -> [at : Stages, old : BOOLEAN, changed : BOOLEAN]]
    /\ watch.at \in {"listing", "listed", "waiting"} /\ wake \in BOOLEAN
    /\ watch.read \in {"none"} \cup Whose
    /\ toolStory.amiss \in {"no", "met", "lost"} /\ toolStory.untold \in BOOLEAN
    /\ catalog.status \in {"checking", "ok", "failed"} /\ catalog.tool \in {"none"} \cup Whose

ToolCatalogInit ==
    /\ place \in [dst : {"none", "first"}, old : {"none"}]
    /\ installing = [h \in Installers |-> NotAsked]
    /\ watch = [at |-> "listing", read |-> "none"] /\ wake = FALSE
    /\ catalog = [status |-> "checking", tool |-> "none"]
    /\ toolStory = [there |-> place.dst, amiss |-> "no", untold |-> FALSE]
    /\ installs = 0

IsAt(h, where) == installing[h].at = where
GoesTo(h, where) == installing' = [installing EXCEPT ![h].at = where]
Installing == \E h \in Installers : ~IsAt(h, "idle")
CatalogKeeps == UNCHANGED <<watch, wake, catalog>>

-----------------------------------------------------------------------------
\* readToolDir: a tool.yaml, and the script it names.
readToolDir(d) ==
    IF d \in Unwritten THEN {"none"} ELSE IF d = "mixed" THEN {"none", d} ELSE {d}

\* install: an installed copy is replaced with force only.
install(h, force) ==
    /\ Moves("toolset") /\ IsAt(h, "idle") /\ installs < MaxInstalls
    /\ place.dst # "none" => force
    /\ installing' = [installing EXCEPT ![h] = [NotAsked EXCEPT !.at = "copying"]]
    /\ installs' = installs + 1
    /\ toolStory' = [toolStory EXCEPT !.amiss = IF Installing /\ @ = "no" THEN "met" ELSE @]
    /\ CatalogKeeps /\ UNCHANGED place

\* Copied to a hidden directory beside, where no listing looks, and then put in
\* the place of what there is by then.
copyTree(h) ==
    /\ IsAt(h, "copying")
    /\ IF place.dst = "none" THEN GoesTo(h, "placing")
       ELSE installing' = [installing EXCEPT ![h].at = "clearing", ![h].old = TRUE]
    /\ CatalogKeeps /\ UNCHANGED <<place, toolStory, installs>>

ClearsOld(h) ==
    /\ IsAt(h, "clearing") /\ GoesTo(h, "moving")
    /\ place' = [place EXCEPT !.old = "none"]
    /\ CatalogKeeps /\ UNCHANGED <<toolStory, installs>>

\* A directory is not renamed over one that has something in it.
Refuses(d) == d \notin {"none", "empty"}

MovesAway(h) ==
    /\ IsAt(h, "moving")
    /\ IF place.dst = "none" \/ Refuses(place.old)
       THEN GoesTo(h, "failed") /\ UNCHANGED place
       ELSE /\ place' = [dst |-> "none", old |-> place.dst]
            /\ installing' = [installing EXCEPT ![h].at = "placing", ![h].changed = TRUE]
    /\ CatalogKeeps /\ UNCHANGED <<toolStory, installs>>

\* The deviation: what was there is not put back.
LeftAway(h) == place

\* What was there is put back if the new one does not go there.
PutBack(h) ==
    IF installing[h].old /\ ~Refuses(place.dst) /\ place.old # "none"
    THEN [dst |-> place.old, old |-> "none"] ELSE place

Places(h) ==
    /\ IsAt(h, "placing")
    /\ \/ /\ ~Refuses(place.dst) /\ place' = [place EXCEPT !.dst = h]
          /\ installing' = [installing EXCEPT ![h].at = "placed", ![h].changed = TRUE]
          /\ UNCHANGED toolStory
       \/ /\ place' = PutBack(h) /\ GoesTo(h, "failed")
          /\ toolStory' = [toolStory EXCEPT !.amiss = IF @ = "met" /\ ~Refuses(place.dst) THEN "lost" ELSE @]
    /\ CatalogKeeps /\ UNCHANGED installs

DropsOld(h) ==
    /\ IsAt(h, "placed") /\ GoesTo(h, "done")
    /\ place' = IF installing[h].old THEN [place EXCEPT !.old = "none"] ELSE place
    /\ CatalogKeeps /\ UNCHANGED <<toolStory, installs>>

\* create --install: only where there is nothing yet.
scaffold(h) ==
    \/ /\ Moves("toolset") /\ IsAt(h, "idle") /\ installs < MaxInstalls /\ place.dst = "none"
       /\ installs' = installs + 1 /\ GoesTo(h, "making")
       /\ toolStory' = [toolStory EXCEPT !.amiss = IF Installing /\ @ = "no" THEN "met" ELSE @]
       /\ CatalogKeeps /\ UNCHANGED place
    \/ /\ IsAt(h, "making")
       /\ place' = [place EXCEPT !.dst = IF @ = "none" THEN "empty" ELSE @]
       /\ installing' = [installing EXCEPT ![h].at = "writing", ![h].changed = TRUE]
       /\ CatalogKeeps /\ UNCHANGED <<toolStory, installs>>
    \/ /\ IsAt(h, "writing")
       /\ \/ place.dst = "none" /\ GoesTo(h, "failed") /\ UNCHANGED place
          \/ /\ place.dst # "none" /\ GoesTo(h, "scripting")
             /\ place' = [place EXCEPT !.dst = IF @ \in Unwritten THEN "part" ELSE "mixed"]
       /\ CatalogKeeps /\ UNCHANGED <<toolStory, installs>>
    \/ /\ IsAt(h, "scripting")
       /\ \/ place.dst = "none" /\ GoesTo(h, "failed") /\ UNCHANGED place
          \/ /\ place.dst # "none" /\ GoesTo(h, "done")
             /\ place' = [place EXCEPT !.dst = IF @ = "part" THEN h ELSE "mixed"]
       /\ CatalogKeeps /\ UNCHANGED <<toolStory, installs>>

-----------------------------------------------------------------------------
\* The deviation: nobody is woken by a request that comes during a listing.
WokenIfWaiting == wake \/ watch.at = "waiting"

\* One request is kept for when the watch waits again.
Woken == TRUE

\* handle: dtt reads what it has put there, and answers; then the watch is
\* asked to list.
AnswersInstalled(h) ==
    /\ IsAt(h, "done")
    /\ \E t \in readToolDir(place.dst) :
         IF t = "none" THEN GoesTo(h, "failed") /\ UNCHANGED toolStory
         ELSE GoesTo(h, "answered") /\ toolStory' = [toolStory EXCEPT !.there = t]
    /\ CatalogKeeps /\ UNCHANGED <<place, installs>>

reinspect(h) ==
    /\ IsAt(h, "answered") /\ installing' = [installing EXCEPT ![h] = NotAsked]
    /\ wake' = Woken /\ toolStory' = [toolStory EXCEPT !.untold = FALSE]
    /\ UNCHANGED <<place, watch, catalog, installs>>

RefusesRequest(h) ==
    /\ IsAt(h, "failed") /\ installing' = [installing EXCEPT ![h] = NotAsked]
    /\ toolStory' = [toolStory EXCEPT !.untold = @ \/ installing[h].changed]
    /\ CatalogKeeps /\ UNCHANGED <<place, installs>>

\* The call's time is over, and dtt's grace as well.
CallTimesOut(h) ==
    /\ installing[h].at \notin {"idle", "answered", "failed"}
    /\ installing' = [installing EXCEPT ![h] = NotAsked]
    /\ toolStory' = [toolStory EXCEPT !.amiss = "lost", !.untold = TRUE]
    /\ CatalogKeeps /\ UNCHANGED <<place, installs>>

\* Somebody edits the tool, and may ask for a listing.
EditedByHand ==
    /\ Moves("toolset") /\ place.dst \in Whose \ {"edited"} /\ ~Installing
    /\ place' = [place EXCEPT !.dst = "edited"]
    /\ toolStory' = [toolStory EXCEPT !.there = "edited", !.untold = TRUE]
    /\ CatalogKeeps /\ UNCHANGED <<installing, installs>>

ReinspectClicked ==
    /\ Moves("toolset") /\ wake' = Woken
    /\ toolStory' = [toolStory EXCEPT !.untold = FALSE]
    /\ UNCHANGED <<place, installing, watch, catalog, installs>>

-----------------------------------------------------------------------------
\* list: what the listing says.
ListedTool(t) == [at |-> "listed", read |-> t]

\* dtt list reads the directory at some time while it runs.
scanCatalog ==
    /\ Moves("toolset") /\ watch.at = "listing"
    /\ \E t \in readToolDir(place.dst) : watch' = ListedTool(t)
    /\ toolStory' = [toolStory EXCEPT !.untold = FALSE]
    /\ UNCHANGED <<place, installing, wake, catalog, installs>>

\* check: what it read, or that it could not be had.
check ==
    /\ watch.at # "waiting"
    /\ watch' = [at |-> "waiting", read |-> "none"]
    /\ \/ watch.at = "listed" /\ catalog' = [status |-> "ok", tool |-> watch.read]
       \/ catalog' = [status |-> "failed", tool |-> "none"]
    /\ UNCHANGED <<place, installing, wake, toolStory, installs>>

watchLoop ==
    /\ Moves("toolset") /\ watch.at = "waiting" /\ watch' = [watch EXCEPT !.at = "listing"]
    /\ \/ wake /\ wake' = FALSE /\ catalog' = [catalog EXCEPT !.status = "checking"]
       \/ UNCHANGED <<wake, catalog>>  \* toolsPollInterval
    /\ UNCHANGED <<place, installing, toolStory, installs>>

ToolCatalogNext ==
    \/ \E h \in Installers :
         \/ \E force \in BOOLEAN : install(h, force)
         \/ copyTree(h) \/ ClearsOld(h) \/ MovesAway(h) \/ Places(h) \/ DropsOld(h)
         \/ scaffold(h) \/ AnswersInstalled(h) \/ reinspect(h) \/ RefusesRequest(h) \/ CallTimesOut(h)
    \/ EditedByHand \/ ReinspectClicked \/ scanCatalog \/ check \/ watchLoop

-----------------------------------------------------------------------------
\* What was last said to be installed is there, alone, unless two requests met
\* or one was stopped; when they met a tool that was there is still never gone,
\* unless there was no room for the new one either.  Once nothing is under way the catalog has it,
\* whenever the listings took place, or somebody has still to ask for one.
ToolsKept ==
    ~Installing =>
        /\ toolStory.amiss = "no" => place = [dst |-> toolStory.there, old |-> "none"]
        /\ toolStory.amiss # "lost" /\ toolStory.there # "none" => place.dst # "none"
        /\ watch.at = "waiting" /\ ~wake /\ catalog.status = "ok" /\ ~toolStory.untold =>
               catalog.tool \in readToolDir(place.dst)

-----------------------------------------------------------------------------
(***************************************************************************)
(* Runs of tools (tools.go) and the dtt processes that carry them out      *)
(* (dtt/run.go): started from a tools tab or by a control run, cancelled,  *)
(* out of time or out of reach, shown with the last few others, their      *)
(* working directories kept for a save to the files tab as long as the run *)
(* is, and local-representative's own restart.                             *)
(***************************************************************************)
CONSTANTS MaxToolRuns, MaxRunsKept, MaxLRStarts

ASSUME ToolRunsAssumption == {MaxToolRuns, MaxRunsKept, MaxLRStarts} \subseteq Nat

VARIABLES history,   \* runs, newest first
          jobs,      \* run -> the goroutine that waits for it
          dtts,      \* run -> its dtt process, and the tool that runs in it
          workdirs,  \* run -> its working directory
          halted,    \* runs told to stop: cancelled, or LR's own limit is over
          savingRun, \* a save to files: of which run, and how far
          lrTools,   \* this LR: whether it has removed what the last one left, and
                     \* whether dtt has listed its tools; and which LR it is
          ran        \* runs so far

toolRunVars == <<history, jobs, dtts, workdirs, halted, savingRun, lrTools, ran>>

RunIds == 1 .. MaxToolRuns
Origins == {"tab", "control"}
NoJob == [at |-> "none", from |-> "tab", copied |-> "none", said |-> "none"]
NoDtt == [at |-> "none", tool |-> "no"]
NoSave == [run |-> 0, at |-> "idle", zip |-> "none"]

ToolRunsTypeOK ==
    /\ Len(history) <= MaxToolRuns
    /\ \A n \in DOMAIN history : /\ history[n].id \in RunIds /\ history[n].from \in Origins
                                 /\ history[n].status \in {"running", "ok", "failed"}
    /\ jobs \in [RunIds -> [at : {"none", "calling", "copying", "finished", "over", "lost"},
                            from : Origins, copied : {"none", "whole", "cut"},
                            said : {"none", "ok", "failed", "cancelled"}]]
    /\ dtts \in [RunIds -> [at : {"none", "starting", "running", "reading", "ok", "failed", "killed"},
                            tool : {"no", "runs", "ended"}]]
    /\ workdirs \in [RunIds -> {"none", "made", "filled"}]
    /\ halted \subseteq RunIds /\ ran \in RunIds \cup {0} /\ savingRun.run \in RunIds \cup {0}

ToolRunsInit ==
    /\ history = << >> /\ jobs = [i \in RunIds |-> NoJob]
    /\ dtts = [i \in RunIds |-> NoDtt]
    /\ workdirs = [i \in RunIds |-> "none"] /\ halted = {} /\ savingRun = NoSave
    /\ lrTools = [swept |-> FALSE, listed |-> FALSE, number |-> 1] /\ ran = 0

InHistory(i) == \E n \in DOMAIN history : history[n].id = i
RunOf(i) == history[CHOOSE n \in DOMAIN history : history[n].id = i]

-----------------------------------------------------------------------------
\* The deviation: the oldest go, whatever they are at.
Oldest(h) == DOMAIN h

\* The runs that may go.
Over(h) == {n \in DOMAIN h : h[n].status # "running"}

\* The oldest that are over, as many as there are too many.
Dropped(h) ==
    {h[n].id : n \in {m \in Over(h) :
        Len(h) > MaxRunsKept + Cardinality({k \in Over(h) : k > m})}}

\* Added and dropped under the lock, working directories and all.
newRun(i, from) ==
    LET h == <<[id |-> i, from |-> from, status |-> "running", saved |-> "no"]>> \o history IN
    /\ history' = SelectSeq(h, LAMBDA r : r.id \notin Dropped(h))
    /\ workdirs' = [d \in RunIds |-> IF d \in Dropped(h) THEN "none" ELSE workdirs[d]]
    /\ jobs' = [jobs EXCEPT ![i] = [NoJob EXCEPT !.at = "calling", !.from = from]]
    /\ dtts' = [dtts EXCEPT ![i].at = "starting"]
    /\ ran' = i

\* A tool is known once dtt has listed it.  A control run is at one at a time.
startRun ==
    /\ Moves("toolruns") /\ lrTools.listed /\ ran < MaxToolRuns
    /\ newRun(ran + 1, "tab")
    /\ UNCHANGED <<halted, savingRun, lrTools>>

opTool ==
    /\ Moves("toolruns") /\ lrTools.listed /\ ran < MaxToolRuns
    /\ \A i \in RunIds : jobs[i].from = "control" => jobs[i].at \in {"over", "lost"}
    /\ newRun(ran + 1, "control")
    /\ UNCHANGED <<halted, savingRun, lrTools>>

-----------------------------------------------------------------------------
\* runTool, in dtt.  Inputs that do not fit are answered at once, and no tool is
\* started by a dtt that has been told to stop.
checkInputs(i) ==
    /\ dtts[i].at = "starting"
    /\ \/ dtts' = [dtts EXCEPT ![i].at = "failed"] /\ UNCHANGED workdirs
       \/ /\ dtts' = [dtts EXCEPT ![i] = IF i \in halted THEN [at |-> "failed", tool |-> "no"]
                                        ELSE [at |-> "running", tool |-> "runs"]]
          /\ workdirs' = [workdirs EXCEPT ![i] = "made"]
    /\ UNCHANGED <<history, jobs, halted, savingRun, lrTools, ran>>

\* A tool that ends has written its files if there still is where to.
ToolEnds(i) ==
    /\ dtts[i].tool = "runs"
    /\ dtts' = [dtts EXCEPT ![i] = [at |-> IF @.at = "running" THEN "reading" ELSE @.at, tool |-> "ended"]]
    /\ workdirs' = [workdirs EXCEPT ![i] = IF @ = "made" /\ dtts[i].at = "running" THEN "filled" ELSE @]
    /\ UNCHANGED <<history, jobs, halted, savingRun, lrTools, ran>>

\* Its status, and what it has written, decide.
readOutputs(i) ==
    /\ dtts[i].at = "reading"
    /\ \E how \in {"ok", "failed"} :
         /\ how = "ok" => workdirs[i] = "filled"
         /\ dtts' = [dtts EXCEPT ![i].at = how]
    /\ UNCHANGED <<history, jobs, workdirs, halted, savingRun, lrTools, ran>>

\* The tool's timeout, or dtt was told to stop: the tool's process group is
\* killed, and dtt answers.
StopsTool(i) ==
    /\ dtts[i].at = "running"
    /\ dtts' = [dtts EXCEPT ![i] = [at |-> "failed", tool |-> "ended"]]
    /\ UNCHANGED <<history, jobs, workdirs, halted, savingRun, lrTools, ran>>

-----------------------------------------------------------------------------
\* The deviation: dtt is killed, and its tool, in a process group of its own, is
\* not.
Sigkill(i) == [dtts EXCEPT ![i].at = IF @ \in {"ok", "failed"} THEN @ ELSE "killed"]

\* dtt kills its tool before it goes.
Sigterm(i) == dtts

\* A control run is cancelled, or LR gives up waiting.
Halt(i) ==
    /\ jobs[i].at = "calling" /\ i \notin halted
    /\ halted' = halted \cup {i} /\ dtts' = Sigterm(i)
    /\ UNCHANGED <<history, jobs, workdirs, savingRun, lrTools, ran>>

\* A dtt that does not answer is killed, later than it takes it to kill its tool:
\* one that has not started it yet, or is done with it.
runDTT(i) ==
    /\ i \in halted /\ jobs[i].at = "calling" /\ dtts[i].at \in {"starting", "reading"}
    /\ dtts' = [dtts EXCEPT ![i].at = "killed"]
    /\ UNCHANGED <<history, jobs, workdirs, halted, savingRun, lrTools, ran>>

Answered(i) == dtts[i].at \in {"ok", "failed", "killed"}

finishRun(i, how) ==
    history' = [n \in DOMAIN history |->
        IF history[n].id = i THEN [history[n] EXCEPT !.status = how] ELSE history[n]]

\* execute has an answer, or none.
execute(i) ==
    /\ jobs[i].at = "calling" /\ Answered(i)
    /\ IF jobs[i].from = "control" /\ dtts[i].at # "killed"
       THEN jobs' = [jobs EXCEPT ![i].at = "copying"] /\ UNCHANGED history
       ELSE /\ finishRun(i, IF dtts[i].at = "ok" THEN "ok" ELSE "failed")
            /\ jobs' = [jobs EXCEPT ![i].at = IF jobs[i].from = "tab" THEN "over" ELSE "finished"]
    /\ UNCHANGED <<dtts, workdirs, halted, savingRun, lrTools, ran>>

\* A control run's files are copied into the files tab, and then it is shown as
\* ended.
copyToFiles(i) ==
    /\ jobs[i].at = "copying"
    /\ jobs' = [jobs EXCEPT ![i].at = "finished",
                            ![i].copied = IF dtts[i].at # "ok" THEN "none"
                                          ELSE IF workdirs[i] = "filled" THEN "whole" ELSE "cut"]
    /\ finishRun(i, dtts[i].at)
    /\ UNCHANGED <<dtts, workdirs, halted, savingRun, lrTools, ran>>

\* The values are saved, and at last the working directory is removed.
EndsStep(i) ==
    /\ jobs[i].at = "finished"
    /\ jobs' = [jobs EXCEPT ![i].at = "over",
                            ![i].said = IF dtts[i].at = "ok" THEN "ok"
                                        ELSE IF i \in halted THEN "cancelled" ELSE "failed"]
    /\ workdirs' = [workdirs EXCEPT ![i] = "none"]
    /\ UNCHANGED <<history, dtts, halted, savingRun, lrTools, ran>>

-----------------------------------------------------------------------------
\* saveRun: of a run that is over, looked up under the lock; its files are read,
\* and the file saved, outside it.
saveRun ==
    \/ /\ savingRun.at = "idle"
       /\ \E n \in DOMAIN history :
            /\ history[n].status # "running" /\ history[n].saved = "no"
            /\ savingRun' = [NoSave EXCEPT !.run = history[n].id, !.at = "zipping"]
       /\ UNCHANGED history
    \/ /\ savingRun.at = "zipping"
       /\ savingRun' = [savingRun EXCEPT !.at = "zipped",
            !.zip = IF dtts[savingRun.run].at # "ok" \/ workdirs[savingRun.run] = "filled" THEN "whole"
                    ELSE IF InHistory(savingRun.run) /\ jobs[savingRun.run].from = "tab" THEN "cut" ELSE "less"]
       /\ UNCHANGED history
    \/ /\ savingRun.at = "zipped" /\ savingRun' = NoSave
       /\ history' = [n \in DOMAIN history |->
              IF history[n].id = savingRun.run THEN [history[n] EXCEPT !.saved = savingRun.zip] ELSE history[n]]

SavesRun == saveRun /\ UNCHANGED <<jobs, dtts, workdirs, halted, lrTools, ran>>

-----------------------------------------------------------------------------
\* watchLoop removes what the last LR's runs left before it lists the tools.  (A
\* listing that fails later on refuses runs until the next one.)
RemovesRunDir ==
    /\ Moves("toolruns")
    /\ \/ /\ ~lrTools.swept /\ lrTools' = [lrTools EXCEPT !.swept = TRUE]
          /\ workdirs' = [i \in RunIds |-> "none"]
       \/ /\ lrTools.swept /\ ~lrTools.listed /\ lrTools' = [lrTools EXCEPT !.listed = TRUE]
          /\ UNCHANGED workdirs
    /\ UNCHANGED <<history, jobs, dtts, halted, savingRun, ran>>

\* LR's restart: history and waiting are gone, dtt's processes are not.
LRRestarts ==
    /\ Moves("toolruns") /\ lrTools.number < MaxLRStarts
    /\ lrTools' = [swept |-> FALSE, listed |-> FALSE, number |-> lrTools.number + 1]
    /\ history' = << >> /\ savingRun' = NoSave
    /\ jobs' = [i \in RunIds |-> IF jobs[i].at = "none" THEN NoJob ELSE [jobs[i] EXCEPT !.at = "lost"]]
    /\ UNCHANGED <<dtts, workdirs, halted, ran>>

ToolRunsNext ==
    \/ startRun \/ opTool
    \/ \E i \in RunIds : \/ checkInputs(i) \/ ToolEnds(i) \/ readOutputs(i) \/ StopsTool(i)
                         \/ Halt(i) \/ runDTT(i) \/ execute(i) \/ copyToFiles(i) \/ EndsStep(i)
    \/ SavesRun \/ RemovesRunDir \/ LRRestarts

-----------------------------------------------------------------------------
\* A run that is waited for is shown as running, however many came after it; one
\* that is shown as over has no tool running; a tab's run that ended well has its
\* files for as long as it is shown, and a save of it has them all; a control
\* run's were copied before they were removed; and no working directory is left
\* but of a run that is shown, that ends just now, or of a dtt no LR waits for.
ToolRunsKept ==
    /\ \A i \in RunIds :
         /\ jobs[i].at \in {"calling", "copying"} => InHistory(i) /\ RunOf(i).status = "running"
         /\ InHistory(i) /\ RunOf(i).status # "running" => dtts[i].tool # "runs"
         /\ InHistory(i) /\ RunOf(i).status = "ok" /\ jobs[i].from = "tab" => workdirs[i] = "filled"
         /\ InHistory(i) => RunOf(i).saved # "cut"
         /\ jobs[i].said = "ok" => jobs[i].copied = "whole"
         /\ workdirs[i] # "none" => InHistory(i) \/ jobs[i].at = "lost"
    /\ savingRun.zip # "cut"
=============================================================================
