--------------------------- MODULE MCEpochPidFile ---------------------------
(***************************************************************************)
(* The properties of EpochPidFile.tla and its small instances for TLC.     *)
(***************************************************************************)
EXTENDS EpochPidFile, FiniteSets

\* A child whose record was published can be found again as long as it lives:
\* the file holds its record, across a crash at any step, a reap that fails
\* half way, and the next spawn.  So two recorded children never live together
\* (pid_file.rs 95-113, 356-400, 961-1021).
RecordedChildIsRecoverable == \A i \in published \cap alive : file.token = i

\* A signal hits the very process whose identity was proven, although it may
\* exit and its pid be given away between any two steps (pid_file.rs 832-892).
SignalHitsItsTarget == \A s \in shot : s[1] = s[2]

\* A child that ended under its manager leaves no record: the next manager has
\* nothing to reap (pid_file.rs 157-180).
CleanEndLeavesNoRecord == task.at = "done" /\ task.kind = "spawn" => file = Nobody

\* A reap comes to an end, whatever the processes do: the killed one may stay,
\* fork, or leave its pid to another, and each target is tried once and waited
\* for a bounded number of times (pid_file.rs 356-400, 832-892).
InReap ==
  task.at \in {"read", "identify", "list", "capture", "list_again", "capture_again",
              "confirm", "open", "check", "signal", "wait", "next", "compare", "remove"}
ReapEnds == InReap ~> ~InReap

\* How many steps a reap can still take, six for each target, of which there is one
\* for a pid at most.
Stage ==
  [read |-> 14, identify |-> 13, list |-> 12, capture |-> 11, list_again |-> 10,
   capture_again |-> 9, confirm |-> 8, open |-> 7, check |-> 6, signal |-> 5, wait |-> 4,
   next |-> 3, compare |-> 2, remove |-> 1]
Targets ==
  CASE task.at \in {"confirm", "open", "check", "signal", "wait", "next"}
         -> Cardinality(task.captured)
    [] task.at \in {"compare", "remove"} -> 0
    [] OTHER -> MaxPids
StepsLeft == IF InReap THEN 6 * Targets + Stage[task.at] ELSE 0

\* Every step of a reap leaves fewer to come, whatever the processes did since the
\* one before, and nothing but the reap itself or a crash moves it: neither a
\* descendant forked meanwhile nor a kill that did not work starts it over
\* (pid_file.rs 356-400, 832-892).
ReapAdvances ==
  [][/\ ReapStep => StepsLeft' < StepsLeft
     /\ InReap /\ InReap' /\ ~ReapStep => UNCHANGED task]_vars

\* Only the recorded child and its descendants are killed
\* (pid_file.rs 216-223, 480-521).
OnlyTheTreeIsKilled == \A s \in shot : s[2] \in tree
=============================================================================
