SPECIFICATION Spec
CONSTANTS
    Pids = {1, 2}
    Slots = {1, 2}
    tcpSock = tcpSock
    udpSock = udpSock
    Sockets = {tcpSock, udpSock}
    Proto <- MCProto
    Cmds = {"grep", "bash", "rootd", "longgrep"}
    Matching = {"grep", "longgrep"}
    Private = {"rootd"}
    Long = {"longgrep"}
    Wide = {udpSock}
    Options = {{}, {"tcp"}, {"udp"}, {"?"}}
    Tables = {{"tcp", "tcp6", "udp", "udp6"}, {"tcp", "udp"}}
    Starts <- MCStarts
    Gone = Gone
    Closed = Closed
    File = File
    Junk = Junk
    MaxChanges = 2
INVARIANTS
    ListerInv
    OwnerHeld
    KeptFound
    CrashNeedsCause
    QuietReport
CHECK_DEADLOCK FALSE
