CONSTANTS
  t1 = t1
  t2 = t2
  git1 = git1
  git2 = git2
  Tasks = {t1, t2}
  NoTask = NoTask
  Keys = {git1, git2}
  KeyTasks <- Shared
  GitKey <- MCGitKey
  Clients = {c1}
  Selections <- FirstSelected
  Visibles <- OnlyFirst
  Explicit <- UrgentOrBackground
  Cap = 2
  MaxReconcile = 2

SPECIFICATION Spec

INVARIANTS TypeOK WorkConserving LaneFollowsFocus NothingForgotten RequestGetsFreshRun
