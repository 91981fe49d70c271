-------------------------- MODULE RecommendationBoard --------------------------
(***************************************************************************)
(* What GET /recommendations (src/api.py) shows of the life of             *)
(* recommendations: the request reads the newest run from the database and *)
(* leaves out what is past its own deadline.  Requests come at any moment, *)
(* between any two steps of a run, and change nothing.                     *)
(***************************************************************************)
EXTENDS RecommendationLifecycle

\* The run that get_latest_run finds: the rows that bear its run_time.
VARIABLE latest

boardVars == <<vars, latest>>

BoardInit == Init /\ latest = {}

\* save_run records a run even when it recommends nothing; an entry that the table
\* has already is ignored and keeps the run_time of its own run.
NewestRun ==
    IF \E t \in Threads : run[t].pc = "save" /\ run'[t].pc = "announce"
    THEN latest' = {e \in Entry : rows'[e] # None /\ ~Exists(e)}
    ELSE UNCHANGED latest

BoardNext == Next /\ NewestRun

\* An ordinary day, as in PromptSpec.
BoardSpec == BoardInit /\ [][BoardNext /\ (now' # now => Prompt)]_boardVars

\* _live_recommendations: what a request is shown at this moment.
Shown == {e \in latest : now <= Deadline(e)}

\* BR40: a recommendation is valid up to the exit_deadline of its own track and is
\* shown until then; one that users have been told of is still to be seen while
\* its trade is under way.
ShownUntilDeadline ==
    \A e \in Entry : sent[e] > 0 /\ now <= Deadline(e) => e \in Shown
=============================================================================
