SPECIFICATION Spec
CONSTANTS
    Routes = {"ar", "rb"}
    Ring = "rb"
    MaxAttempts = 2
    MaxVisits = 2
    MaxDocs = 4
INVARIANTS OneBattleForm ConfirmedIsBattle FreshRoute IntentSettled
CHECK_DEADLOCK FALSE
