SPECIFICATION InstallSpec
CHECK_DEADLOCK FALSE
CONSTANTS
  Procs = {p1, p2}
  Adapters = {"codex", "bootstrap"}
  FilesOf <- MCFilesOf
  Kind <- MCKind
  Governed = {"AGENTS.md"}
  Modular = {"data", "old", "new", "data/runtime"}
  Top <- MCTop
  Registries <- MCRegistries
  CommandFiles = {"config", "data", "AGENTS.md"}
  Moves <- MCMoves
  Ignored = {"data/runtime"}
  Legacy = {"codex"}
  Editable <- MCEditable
  MaxVersion = 2
  MaxEdits = 1
  MaxBackups = 2
  MaxOps = 3
SYMMETRY ProcSymmetry
INVARIANTS OriginalsKept
PROPERTIES UninstallRestores UserWorkSurvives
