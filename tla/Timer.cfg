SPECIFICATION TimerSpec
CONSTANTS
    MaxPosts = 3
    Fd = {"fd", "timerfd"}
    Tfd = "timerfd"
    MaxStarts = 2
INVARIANTS
    ExactlyOnceInOrder
PROPERTIES
    PostedBeforeEvents
    PostedRuns
    StoppedLoopExits
    StopSilences
    StartsFire
