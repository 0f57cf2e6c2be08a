\* resolvOwner against the reference: the last daemon named in the leading comment block; files of up to 3 lines of up to 2 tokens.
CONSTANTS
    w1 = w1
    Words = {w1}
    MaxLines = 3
    MaxTokens = 2
SPECIFICATION Spec
INVARIANT OwnerIsLastNamed
