CONSTANTS
  Threads = {game, loader, audio}
  Destinations = {file, console}
  Worker = Worker
  Nobody = Nobody
  MaxLogged = 4
SPECIFICATION FairSpec
INVARIANTS TypeOK RemovedStaysSilent NoLostWakeup
PROPERTIES InOrder EveryMessageIsTold
