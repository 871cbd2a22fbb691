\* One heartbeat that reports a problem, then silence.
CONSTANTS
  Watcher = {}
  FreshFor = 1
  StaleFor = 2
  ReportCap = 1
  WatchedFor = 3
SPECIFICATION MonSpec
INVARIANT LivenessIsUniform
