CONSTANTS
    Configs <- MCConfigs
    Areas = {0, 1, 2}
    INNER_SENSITIVITY = 2
    NULL = NULL
SPECIFICATION Spec
INVARIANTS
    ModelsFitZones
    ModelsBuiltOnce
    ZonesUnwatchedForAReason
