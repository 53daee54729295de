---------------------------- MODULE MCScheduler ----------------------------
(* Workloads for TLC: the sum of a few small systems instead of their product. *)
EXTENDS Scheduler

CONSTANTS n1, n2, n3, a1, b1, x1, x2, s1, s2

MailLoads == {{n1, n2, n3}, {n1, n2, s1}, {n1, s1, s2}, {a1, s1}, {a1, b1}, {b1, s1}, {x1}, {x1, x2}}
==============================================================================
