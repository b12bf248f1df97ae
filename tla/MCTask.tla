------------------------------- MODULE MCTask -------------------------------
(* A small instance of Task for TLC. *)
EXTENDS Task

\* Two DetachedTasks; the first owns two tasks, one of which owns a task.
NestedOwner == <<0, 0, 1, 1, 3>>
NestedFuel == <<2, 1, 1, 1, 1>>
=============================================================================
