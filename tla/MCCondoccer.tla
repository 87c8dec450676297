---------------------------- MODULE MCCondoccer ----------------------------
EXTENDS Condoccer, TLC
CONSTANTS Prompts, Forces, Resubmits, Faults, Crashes, WorkerCrashes,
          LongOutputs
MCLimit == [e \in BoundedEvent |->
    CASE e = "prompt" -> Prompts [] e = "force" -> Forces [] e = "resubmit" -> Resubmits
      [] e = "fault" -> Faults [] e = "crash" -> Crashes
      [] e = "workerCrash" -> WorkerCrashes
      [] e = "longOutput" -> LongOutputs]
Symmetry == Permutations(Condocs) \cup Permutations(Workers)
=============================================================================
