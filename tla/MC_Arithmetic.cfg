CONSTANTS
    ByteBits = 1
    ByteSize = 2
    UpperUnit = 4
    Cell = {1, 2}
    WideBits = 4
    WideSize = 16
    WideBytes = 4
    WideOperands <- MCOperands
    WideOthers <- MCOthers
    ModP = 13
    ModLimit = 32
    ComplexP = 3
    ComplexLimit = 16
    Coordinate = {0, 2, 3, 5, 15}
    CurveP = 7
    CurveLimit = 10
    CurveA = 4
    CurveB = 6
    Multiples <- MCMultiples
SPECIFICATION Spec
INVARIANTS DivisionIdentity ExactProduct ShiftsScale HintIsNonResidue
PROPERTIES ImplementsUint256 ImplementsField ImplementsComplexField ImplementsGroup DecompressesPoint
CHECK_DEADLOCK FALSE
