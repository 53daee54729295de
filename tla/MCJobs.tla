------------------------------- MODULE MCJobs -------------------------------
(* Instances of Jobs for TLC. *)
EXTENDS Jobs

\* Jobs run by the loop and by hand; one-shot and recurring jobs with what may
\* end them: cancels and reports, turns and executors that go away.
MCLoads == {{"create", "run"},
            {"create", "assign", "calendar", "cancel"},
            {"create", "cancel", "update", "turn"},
            {"create", "assign", "turn", "offline"},
            {"calendar", "cancel", "offline"}}
=============================================================================
