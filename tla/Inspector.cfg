\* All combinations of flags.  The command ends.
SPECIFICATION FairSpec

  
PROPERTIES
  InterruptEnds
CHECK_DEADLOCK FALSE
