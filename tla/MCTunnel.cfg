CONSTANTS
    Client = Client
    Circuit = Circuit
    MaxBytes <- MCMaxBytes
    BufSize <- MCBufSize
SPECIFICATION TSpec
INVARIANTS
    TTypeOK
    NoDataLoss
    TInv
PROPERTIES
    ClientReleased
