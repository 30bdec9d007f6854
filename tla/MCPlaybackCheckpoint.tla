------------------------ MODULE MCPlaybackCheckpoint ------------------------
EXTENDS PlaybackCheckpoint

\* Two items with positions, of one source.
Recordings == {"video", "short"}
RecordingSources == {"youtube"}
SourceOfRecording == [i \in Recordings |-> "youtube"]
\* A video and a live station.
Pair == {"video", "station"}
PairSources == {"youtube", "radio"}
SourceOfPair == [i \in Pair |-> IF i = "video" THEN "youtube" ELSE "radio"]

Stations == {"station"}
NoStations == {}
TwoPositions == {0, 1}
OnePosition == {0}
=============================================================================
