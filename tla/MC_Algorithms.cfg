SPECIFICATION Spec
\* Primes that are 3, 1 and 5 modulo 8; 2^5 divides 97 - 1.
CONSTANTS
    Primes = {7, 11, 13, 17, 41, 97}
    Excess = 20
    BN254 <- MCBn254
    BLS12_381 <- MCBls12381
INVARIANTS LoopRelation HintTrue Bn254WitnessIffOne Bls12381WitnessIffOne
PROPERTIES RootAnswered Bn254Ends ImplementsKeccak KnownAnswer
CHECK_DEADLOCK FALSE
