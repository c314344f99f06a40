CONSTANTS
    ChannelWindow = 2
    MaxOutput = 4
    MaxOutputBytes = 2
SPECIFICATION ExecSpec
PROPERTIES
    ExecHonoursDeadline
CHECK_DEADLOCK FALSE
