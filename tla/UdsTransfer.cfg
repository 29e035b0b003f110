SPECIFICATION Spec
CONSTANTS
    Modulus = 4
    Services = {"download", "upload", "addFile", "replaceFile", "resumeFile", "readFile", "readDir"}
    Adapter = FALSE
    Faults = FALSE
    Functional = TRUE
    MaxBlocks = 6
INVARIANTS
    TypeOK
    StreamInOrder
    ExitIsWhole
    UploadRepeatsData
