\* Names of up to two bytes, a mode of two letters, blocks of two bytes;
\* every packet of up to nine bytes, and buffers in which a packet of each
\* kind just fits or just does not.
SPECIFICATION Spec
CONSTANTS
    ByteMod = 9
    Lower <- MCLower
    Octet <- MCOctet
    NameSize = 3
    BlockSize = 2
    BufferSizes = {3, 4, 5, 6, 7}
    Inputs <- MCInputs
    Blocks <- MCBlocks
    Payloads <- MCPayloads
    Messages <- MCMessages
INVARIANTS
    RequestsExact
    BuiltReadsBack
    BuiltWhenItFits
