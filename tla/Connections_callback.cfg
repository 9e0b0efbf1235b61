CONSTANTS
    Conns = {c1, c2}
    Fds = {1, 2}
    Workers = {w1}
    Listener = listener
    Nobody = nobody
    MaxTasks = 1
    MaxFunctors = 2
SPECIFICATION Safety
CHECK_DEADLOCK FALSE
INVARIANT SurvivesCallback
