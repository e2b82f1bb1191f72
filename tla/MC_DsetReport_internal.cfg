CONSTANTS
    s1 = s1
    probes = probes
    gc = gc
    NoSet = NoSet
    Names <- MCNames
    IgnoredOpts <- MCIgnoredOpts
    MaxOpts = 2
    TypeRevision = 0
    KernelRevs <- MCKernelRevs
    ProtoMin = 6
    ProtoMax = 7
    KernelProtos <- MCKernelProtos
    KernelErrnos <- MCKernelErrnos
    MaxLines = 3

SPECIFICATION Spec
CHECK_DEADLOCK FALSE
INVARIANT InternalErrorNeverShown
