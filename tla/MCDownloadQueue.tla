-------------------------- MODULE MCDownloadQueue --------------------------
EXTENDS DownloadQueue

\* A video, downloaded by a process or copied from the cache, a native track, and a
\* stream at a signed address.
VideoAndTrack == {"video", "track", "signed"}
Signed == {"signed"}
Tracks == {"track"}
\* The name of a file takes room: two files are more than the limit allows.
OneFileFits(q) == Cardinality({j \in Jobs : State(q, j) = "completed"}) < 2
=============================================================================
