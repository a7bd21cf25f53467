CONSTANTS
  t1 = t1
  t2 = t2
  git1 = git1
  git2 = git2
  Tasks = {t1}
  NoTask = NoTask
  Keys = {git1, git2}
  KeyTasks <- OneNoTask
  GitKey <- MCGitKey
  Clients = {}
  Selections <- FirstSelected
  Visibles <- OnlyFirst
  Explicit <- UrgentOrBackground
  Cap = 1
  MaxReconcile = 2

SPECIFICATION FairSpec

PROPERTIES EveryJobRuns EveryTaskReconciled
