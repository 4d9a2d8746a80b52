------------------------------- MODULE MCPages -------------------------------
EXTENDS Pages

\* Both ends of the trend and either side of its middle.
MCPointers == {32, 289, 291, 548}
=============================================================================
