CONSTANTS
    Client = Client
    Circuit = Circuit
    MaxBytes <- MCMaxBytes
    BufSize <- MCBufSize
SPECIFICATION Spec
PROPERTIES
    ErrorTearsDown
