SPECIFICATION Spec
CONSTANTS
    c1 = c1
    c2 = c2
    i1 = i1
    i2 = i2
    Conns = {c1, c2}
    Turns = {t1, t2}
    Ids = {i1, i2}
    IdOf <- TwoIds
    Fds <- LowFds
    Solo = TRUE
    NoConn = NoConn
    NoFd = NoFd
PROPERTY FramesGoToTheirClient
