SPECIFICATION Spec
CONSTANTS
    N = 31
    OddY <- MCOddY
    Receivers <- MCReceivers
    ScanKey <- MCScanKey
    SpendKey <- MCSpendKey
    Inputs <- MCInputs
    OutputHash <- MCOutputHash
    InputHash <- MCInputHash
    LabelHashes <- MCLabelHashes
    ForeignOutputs <- MCForeignOutputs
    GroupLimit = 2
    BatchSize = 2
    MaxRecipients = 3
    MaxLabels = 1
INVARIANTS
    OutputsInOrder
    ReceiverFindsHisOutputs
    FailsAsDocumented
    FoundIsSpendable
    ScanIsSequential
