CONSTANTS
  Callers = {c1, c2}
  FailMax = 2
  MaxAttempts = 3
  StreakMax = 9
SPECIFICATION ClientSpec
INVARIANTS TypeOK ClosedBelowThreshold ProbeFlagExact ClientTypeOK VerdictExplained OutageBounded
PROPERTIES OneProbePerEpisode TransitionsHaveCause OneCountPerCall NeverStuck EveryCallEnds
