---------------------------- MODULE MCBodyStream ----------------------------
EXTENDS BodyStream, TLC

CONSTANTS long, empty

\* A file of more pieces than the channel and the reader hold between them,
\* and an empty one.
Files == long :> 5 @@ empty :> 0
=============================================================================
