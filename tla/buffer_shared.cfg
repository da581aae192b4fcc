\* Two callers and the timer; a flush callback that waits or not.
SPECIFICATION FairSpec
CONSTANTS
    Callers = {c1, c2}
    Speakers = {ann, bob}
    NoSpeaker = NoSpeaker
    Nobody = Nobody
    Timer = Timer
    WordCount = 2
    CallbackWaits = {TRUE, FALSE}
    MaxChunks = 3
    MaxForced = 1
INVARIANTS TypeOK NothingLost OneSpeaker
PROPERTIES EveryChunkFlushed
\* Once no call comes any more and nothing is pending the buffer stops; that it
\* stops nowhere else is what EveryChunkFlushed says.
CHECK_DEADLOCK FALSE
