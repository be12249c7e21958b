SPECIFICATION AllSpec
CONSTANTS
    Sent <- MCSent
    Leftover0 <- MCLeftover
    Devices <- MCDevices
INVARIANTS
    Delivered
    HeadersKept
    NothingInvented
    ListKept
    QuestionsAnswered
