SPECIFICATION Spec
CONSTANTS
    Pins = 2
    MaxStops = 2
INVARIANT
    LabelsArePinned
