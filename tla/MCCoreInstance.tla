--------------------------- MODULE MCCoreInstance ---------------------------
(***************************************************************************)
(* The properties of CoreInstance.tla and its small instances for TLC.     *)
(* Where the code logs a failure and goes on, a core can slip out of its   *)
(* hands: a signal was not sent, its pid did not reach the file in time or *)
(* was overwritten there, or the future of its run() was dropped.  What    *)
(* the code owes is owed to every other core.                              *)
(***************************************************************************)
EXTENDS CoreInstance

\* A core that a later run() replaced dies, unless a mishap hit it: also when the
\* later run() came before the checkpoint of the first, after a kill() that failed,
\* or after mishaps that hit other cores (instance.rs 216-227, 321-327).
CoresDoNotPileUp == \A k \in Cores : (k < n /\ k \in alive) ~> (k \notin alive \/ k \in slipped)

\* When the instance is dropped no core it ever started lives on, but those that
\* slipped: the last is killed, and those before it were swept (instance.rs 393-402).
DropKillsEveryCore == dropped ~> (alive \subseteq slipped)

\* The same promise before time passes: once the instance is dropped, every core
\* that still lives was told to end or had slipped (instance.rs 222-227, 321-327,
\* 392-402).
OnlySlippedCoresSurvive == dropped => alive \subseteq asked \cup killed \cup slipped

\* The promise of the doc, for a machine on which nothing fails and no future is
\* dropped: every core that outlives the instance was told to end (instance.rs
\* 392-402).
DroppedCoresAreTold == dropped => alive \subseteq asked \cup killed

\* The state does not stay Running when every core has died: as long as the
\* instance is used, run() becomes possible again (instance.rs 285-289, 309-319).
StateCatchesUp ==
  (alive = {} /\ state = "Running")
    ~> (state = "Stopped" \/ alive # {} \/ dropped)
=============================================================================
