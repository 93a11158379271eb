\* Clearing a one-shot timer that has not fired.
CONSTANT MaxTimers = 1
SPECIFICATION Spec
INVARIANT ClearTimerCancels
