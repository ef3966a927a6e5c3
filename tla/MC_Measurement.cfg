SPECIFICATION Spec
CONSTANTS
  Operations = 2
  Delay = 2
  Usages = {2, 5}
  Limit = 2
INVARIANTS TimesNested StatsSampled AverageOfSamples
PROPERTIES EveryMeasurementEnds
