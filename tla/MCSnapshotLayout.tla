-------------------------- MODULE MCSnapshotLayout --------------------------
EXTENDS SnapshotLayout
MCPlaces == {10}
=============================================================================
