SPECIFICATION HostSpec
CONSTANTS
  k1 = k1
  k2 = k2
  plain = plain
  options = options
  backup_job = backup_job
  renew_job = renew_job
  clean_job = clean_job
  http = http
  https = https
  KeyWorkers = {w1, w2}
  KeyMaterial = {k1, k2}
  Renderings = {plain, options}
  NoKey = NoKey
  NoWorker = NoWorker
  KeyFiles <- MCKeyFiles
  MaxKeyCmds = 2
  CronWorkers = {w1, w2}
  EntryIds = {backup_job, renew_job, clean_job}
  CronTables <- MCCronTables
  MaxCronCmds = 2
  LockWorkers = {w1, w2}
  Ports = {http, https}
  Ranges = {r1, r2}
  FirstRules <- MCFirstRules
  MaxLocks = 2
  Installers = {i1, i2}
  Checker = i1
  NoFile = NoFile
  MaxInstalls = 3
  NoCreds = NoCreds
  Torn = Torn
  MaxRotations = 3
  MaxRestarts = 3
  TermWorkers = {w1, w2}
  TermIds = {t1, t2}
  NoSession = NoSession
  MaxSessions = 2
  Pipes = {stdout, stderr}
  LineCap = 2
  OutCap = 2
  MaxLines = 4
  LinkWorkers = {w1, w2}
  Interfaces = {wg0, wg1}
  Addresses = {a1, a2}
  NoAddress = NoAddress
  MaxLinkCmds = 3
  DevWorkers = {w1, w2}
  DevPorts = {p1, p2}
  NoDevice = NoDevice
  MaxDevices = 2
  MaxDevCmds = 4
  RtJobs = {j1, j2}
  Pythons = {py}
  NoJob = NoJob
INVARIANT PortsStayReachable
CHECK_DEADLOCK FALSE
