CONSTANTS
    Client = Client
    Circuit = Circuit
    MaxBytes <- MCMaxBytes
    BufSize <- MCBufSize
SPECIFICATION Spec
INVARIANTS
    TypeOK
    NoDataLoss
    SummaryAccurate
    IInv
    LossInv
    RInv
PROPERTIES
    RelayTerminates
    OneSidedTeardown
    AbstractSpec
