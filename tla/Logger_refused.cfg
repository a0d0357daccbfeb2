CONSTANTS
  Threads = {game}
  Destinations = {file}
  Worker = Worker
  Nobody = Nobody
  MaxLogged = 2
SPECIFICATION Spec
PROPERTY RefusalIsHarmless
