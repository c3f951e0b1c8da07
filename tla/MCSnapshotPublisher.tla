------------------------ MODULE MCSnapshotPublisher ------------------------
\* Model checking of SnapshotPublisher.
EXTENDS SnapshotPublisher
=============================================================================
