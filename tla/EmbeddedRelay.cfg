CONSTANTS
    Entry = {e1, e2, e3}
    Relay = {r1, r2}
    NoRelay = NoRelay
SPECIFICATION Spec
INVARIANTS TypeOK OneProcess LoadedIsServed NothingLeftBehind NoneSurvives
PROPERTIES Restarts AcquireAnswers IsShared
