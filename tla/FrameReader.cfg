SPECIFICATION FairReaderSpec
CONSTANTS
    Kinds = {"ble", "ws", "nb", "nb_async", "esp", "esp_async", "usb"}
    FifoLen = 3
    TxLen = 1
    RxBufLen = 2
    Message = {1, 2}
    PayloadLen <- MCPayloadLen
    MaxPayload = 1
    Noise = {0, 1, 7}
    AnswerLen = 2
    MaxPosted = 2
    MaxDamaged = 1
CHECK_DEADLOCK FALSE
INVARIANTS
    ReaderTypeOK
    BytesInOrder
    AnswersAreWhole
    NoWakeupIsLost
    OnlyNewFramesAreAwaited
PROPERTIES
    ImplementsFrames
    FramesAreAnswered
    DamageIsNoticed
