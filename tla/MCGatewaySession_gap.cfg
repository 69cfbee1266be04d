\* The deployed settings, in units of six seconds.
CONSTANTS
    Interval = 10
    Cap = 50
    Window = 50
    RequestTime = 0
    MaxExponent = 20
    Horizon = 120
    None = None
SPECIFICATION Spec
PROPERTIES GapIsSixMinutes
