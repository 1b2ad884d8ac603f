---------------------------- MODULE MCRegionHistory ----------------------------
\* RegionHistory for small caps.
EXTENDS RegionHistory
=============================================================================
