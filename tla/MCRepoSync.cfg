\* Rows of a repository under requests, webhooks and cycles.
CONSTANTS
  r1 = r1
  r2 = r2
  MaxConn = 2
  Req <- Reqs
  NoToken = NoToken
  FirstToken = FirstToken
  RepoPrivate = TRUE
  PeriodicPull = TRUE
  MaxCommit = 3
  MaxFailures = 2
SPECIFICATION BoundedRepoSpec
INVARIANT RepoTypeOK
PROPERTY LatestCommitIsIndexed
PROPERTY PendingSettles
CHECK_DEADLOCK FALSE
