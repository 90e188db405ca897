CONSTANTS
    Message <- TwoMessages
    BufSize = 3
    Apis = {"copy_duplex", "copy_duplex_abortable", "transfer_session", "transfer_session_datagram"}
    MaxStalls <- OneStall
SPECIFICATION MCSpec
INVARIANTS OutIsPrefix DatagramsKeptApart EofLosesNothing
PROPERTIES TransferEnds WrittenIsFlushed
CHECK_DEADLOCK FALSE
