----------------------------- MODULE MCProvider -----------------------------
\* Instances of Provider.
EXTENDS Provider

CONSTANTS Wifi, Cell
TwoPaths == {Wifi, Cell}
=============================================================================
