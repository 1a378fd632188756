---------------------------- MODULE MCStreamRelay ----------------------------
EXTENDS StreamRelay, TLC

CONSTANTS a, b

MCPool  == (a :> 2) @@ (b :> 1)
MCRetry == (a :> 0) @@ (b :> 1)
=============================================================================
