------------------------- MODULE MCBackendWorkQueue --------------------------
(* Small instances of BackendWorkQueue: two git jobs, one of a worktree     *)
(* that two tasks may share, so that a request for it names either, and one *)
(* of a worktree of no task.  A client looks at the first task, selected or *)
(* not; the second is in the background as long as a client is registered.  *)
EXTENDS BackendWorkQueue

CONSTANTS t1, t2, git1, git2

Shared    == git1 :> {t1, t2} @@ git2 :> {NoTask}
OneNoTask == git1 :> {t1} @@ git2 :> {NoTask}
MCGitKey  == [t \in Tasks |-> git1]

OnlyFirst     == {{t1}}
FirstSelected == {t1, NoTask}

\* The lanes that callers insist on: after a git mutation, and for the sweep and
\* what it leads to.  A selected worktree is asked for by ReportClientTaskFocus.
UrgentOrBackground == {Interactive, Background}
=============================================================================
