---------------------------- MODULE MCJobStream ----------------------------
\* Bounds for TLC: every constant of JobStream is a number, given in the
\* configuration (MCLog).
EXTENDS JobStream
=============================================================================
