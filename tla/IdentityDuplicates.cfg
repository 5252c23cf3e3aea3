\* Whether a subject keeps to one default: two resolutions of one subject show it.
CONSTANTS
  Subjects = {u1}
  Tasks = {t1, t2}
  Levels = {"ANONYMOUS", "FULL"}
  None = None
SPECIFICATION Spec
INVARIANT OneDefault
