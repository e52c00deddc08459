\* Two outputs, two panels that write, three settings, two troubles.
SPECIFICATION Spec
SYMMETRY Requests
CONSTANTS
    Device = {jack, hdmi}
    Fallback = jack
    Request = {r1, r2}
    None = None
    MaxWrites = 3
    MaxTroubles = 2
INVARIANTS
    TypeOK
    TheHostsChoiceIsKept
    TheChosenSoundIsHeard
