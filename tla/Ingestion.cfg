CONSTANTS
    Devices = {d1}
    Handlers = {h1, h2}
    Messages = {m1}
    Ponds = {p1, p2}
    FirstPond = p1
    FirstProduct = water
    temp = temp
    ph = ph
    water = water
    generic = generic
    None = None
    Metrics <- MCMetrics
    Products <- MCProducts
    Generic <- MCGeneric
    Schema <- MCSchema
    Payloads <- MCPayloads
    MaxClock = 1
    MaxReports = 3
    MaxChanges = 2
    Views = {v1, v2}
    Asks = {a1}
    MaxVersion = 2
SYMMETRY Sym
SPECIFICATION PartsSpec
INVARIANTS
    RowsAreSingle
    ShadowIsLatest
    StoresUnderBinding
    ServedAgrees
\* Devices may stop sending and nobody has to administer them.
CHECK_DEADLOCK FALSE
