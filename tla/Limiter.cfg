\* Five calls against ceilings of 1, 2 and 3.
SPECIFICATION FairLimiterSpec
CONSTANTS
    Task = {t1, t2, t3, t4, t5}
    Options <- MCOptions
    Envs <- MCEnvs
CHECK_DEADLOCK FALSE
INVARIANTS
    ActiveIsHolding
    NoIdleSlot
    NoOvertaking
PROPERTY EveryCallSettles
