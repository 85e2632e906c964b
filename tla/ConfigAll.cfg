CONSTANTS
  Edits = {e1}
  Saves = {s1}
  Creates = {c1}
  Imports = {i1}
  Deletes = {d1}
  VenvDeletes = {x1}
  Editable = {"host", "port", "venv", "deps"}
  Reassigns = TRUE
  Migrates = TRUE
  Venvs = {vd, va}
  DefaultVenv = vd
  Packages = {p1}
  None = None
SPECIFICATION Spec
CONSTRAINT AtMostMaxRequests
INVARIANTS
  SavedIsPrepared
  HeldWhileUnderway
  ConfigHasToolFile
PROPERTIES
  LockedIsUntouched
  EveryChangeIsNamed
  CreatesNeverOverwrite
CHECK_DEADLOCK FALSE
