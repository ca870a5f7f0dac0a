-------------------------- MODULE ScheduledTasksMC --------------------------
EXTENDS ScheduledTasks

\* Ids of tasks, by where they come from, and processes.
CONSTANTS brief, once, test, c1, c2, d1
=============================================================================
