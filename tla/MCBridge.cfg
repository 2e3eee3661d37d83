SPECIFICATION MCSpec
CONSTANTS
  Gpr = {x1}
  Fpr = {f1}
  Vr = {v1}
  Checked = {c1}
  Skipped = {k1}
  mip_resynch_threshold = 1
  Modes = {"step", "resynch", "period", "psc"}
  MaxRetires <- RetiresOf
  MaxWrong = 2
INVARIANTS NoFalseAlarm WhisperInStep StepsInOrder MismatchesFound CsrsFollow
CHECK_DEADLOCK FALSE
