SPECIFICATION FairSpec
CONSTANTS
  Capacities = {1, 2}
  iServSocket = 3
  Sockets = {4, 5}
  Backlog = 1
INVARIANTS TypeOK OpenIsWatched TableMatches
PROPERTIES EventMeetsOwner ReadServed WriteServed
