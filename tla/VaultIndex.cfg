\* Two requests, a hand, the watcher and a restart.
SPECIFICATION Spec
CONSTANTS
  NotePath <- Notes
  Key <- Links
  Rank <- Order
  AtFirst <- Vault
  Req = {r1, r2}
  Watcher = Watcher
  Reconcile = Reconcile
  Nothing = Nothing
  Timely = TRUE
  MaxWrites = 2
  MaxCrashes = 1
INVARIANTS
  TypeOK
  IndexCatchesUp
  LinksHeal
  ReconcileFindsAll
SYMMETRY Swaps
CHECK_DEADLOCK FALSE
