SPECIFICATION Spec
CONSTANTS
  f1 = f1
  f2 = f2
  Garbage = Garbage
  Flows = {f1, f2}
  Asks <- AsksOf
  Paths = {"A"}
  Names = {"m", "n"}
  Routes <- Handlers
  Pools <- PoolKinds
  MaxSetup = 2
  MaxWrites = 2
  Slow = {f1}
INVARIANTS
  OneAnswer
  OutcomeIsReal
  NoForeignData
  PublishedIsFound
  FreedOnce
  NobodyForgotten
CHECK_DEADLOCK FALSE
