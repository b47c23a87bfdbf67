SPECIFICATION Spec
CONSTANTS
    Buzzers = {buzzer}
    Strips = {strip}
    Melodies <- TwoMelodies
    Patterns <- TwoPatterns
    Leds = 2
    MaxTasks = 2
    SizeRange = 16
INVARIANT
    FinishedTasksRemoved
CHECK_DEADLOCK FALSE
