\* Three providers, of which any may refuse subscriptions while the streams of
\* the others may end; the tasks of two subscriptions may overlap.
CONSTANTS
    P = 3
    EventSlots = {1, 3}
    Tasks = {t1, t2}
    MaxSlotLag = 1
    MaxSilence = 0
    MaxTime = 2
    StreamsEnd = TRUE
    NoTask = NoTask
SPECIFICATION MuxFairSpec
INVARIANT SlotWithinTip UntriedStaysHealthy
PROPERTY ConsumerGetsStream
