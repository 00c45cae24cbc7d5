\* One stimulus, two variants, two launches: two visits of the wizard, or the
\* two effects of a strict build. Two failures or reloads.
SPECIFICATION FairSpec
CONSTANTS
  Stimuli = {a}
  MaxVariants = 2
  MaxLaunches = 2
  MaxFaults = 2
INVARIANTS LauncherTypeOK ResultsAreOfTheForm RowsInOrder CutShortForCause
PROPERTIES LaunchEnds LaunchReports
CHECK_DEADLOCK FALSE
