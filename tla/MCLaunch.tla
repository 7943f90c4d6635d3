------------------------------ MODULE MCLaunch ------------------------------
EXTENDS Launch

\* Option values a user may type: none negative.
MCValidArgVals == {0, 1, 2}

\* Every sign: 0, positive values and -1.
MCAllArgVals == {-1, 0, 1, 2}

\* The same with -1, which (uint64_t)atoi turns into 2^64 - 1.
MCNegativeArgVals == {-1, 1, 2}

=============================================================================
