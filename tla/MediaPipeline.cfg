\* Two confirm calls around two uploads, and the one standalone worker of README.md;
\* a job survives one crash (BullMQ's default) and not a second.
CONSTANTS
  Confirms = {c1, c2}
  Workers = {w1}
  MaxUploads = 2
  MaxStalls = 1
\* Once everything is uploaded and processed nothing is left to do.
CHECK_DEADLOCK FALSE
SPECIFICATION FairSpec
INVARIANTS
  TypeOK
  ReadyIsStripped
  ConfirmedIsStripped
  VerdictStands
PROPERTIES
  ProcessingEnds
