SPECIFICATION Spec
CONSTANTS
 Commands <- SearchOnly
 MaxStarts = 2
PROPERTIES ResultsAreKept
