CONSTANTS
    Threads = {t1, t2}
    Conns = {c1}
    NoConn = NoConn
    MaxSize = 1
    ReapsIdle = TRUE
SPECIFICATION Spec
PROPERTIES
    MissingSettingsReported
