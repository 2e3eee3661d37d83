SPECIFICATION MCSpec
CONSTANTS
  Harts = {h1, h2}
  Addrs <- ThreeAddrs
  Granule <- GranuleOf
  Touches <- TouchesOf
  PatternPass = 2
  PatternFail = 1
  Ttl = 2
  Decline = TRUE
  FailCnts = {0, 1, 2}
  MaxTime = 2
  MaxCount = 1
  Lines = {plain, secure}
  Bytes = {0, 1}
  Values = {0, 1}
  FLAGS_mcm = TRUE
  FLAGS_num_harts = 2
  Driven = {}
  Ids = 4
  RangeIds = 4
  FLAGS_imsic_intr = "uarch_trigger"
  FLAGS_trickbox_write_enables_intr = TRUE
  FLAGS_msi_backpressure_threshold = 1
  FLAGS_msi_backpressure_timeout = 3
  FLAGS_max_intr_count = 0
  FLAGS_imsic_vs_id_threshold = 5
  Files = {"M", "VS"}
  MaxDelay = 1
  MaxSent = 3
  MaxCallbacks = 2
  PlainLine = plain
  SecureLine = secure
INVARIANTS EndsRight MsisThrottled LinesFollow DevicesServed
  WhisperMemory EnginesOwnData InjectsAsConfigured MetricsRight
PROPERTIES Atomic FailsFirst TimersRight
CHECK_DEADLOCK FALSE
