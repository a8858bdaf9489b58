SPECIFICATION LifeSpec
CONSTANTS
  Streams = {s1, s2}
  NoStream = NoStream
  p1 = p1
  p2 = p2
  Pairings = {p1, p2}
  NoId = NoId
  Kinds <- MCKinds
  Tools = {systemctl}
  Systemctl = systemctl
  Probers = {w1, w2}
  NoTool = NoTool
  Capacity = 2
  MaxEvents = 3
  MaxTime = 2
  Corrupt = Corrupt
  Listers = {w1, w2}
  MinInterval = 1
  MaxInterval = 7
  MaxCollect = 1
  MaxPost = 1
  nginx = nginx
  fpm = fpm
  mysql = mysql
  mariadb = mariadb
  web1 = web1
  php1 = php1
  db1 = db1
  WebNames = {nginx}
  PhpNames = {fpm}
  DbNames = {mysql, mariadb}
  CustomNames = {nginx}
  Ids = {web1, php1, db1}
  IdOf <- MCIdOf
  FirstFacts <- MCFirstFacts
  MaxFlips = 2
INVARIANT StandalonePairsCleanly
CHECK_DEADLOCK FALSE
