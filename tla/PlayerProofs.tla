------------------------------ MODULE PlayerProofs ------------------------------
(***************************************************************************)
(* Proofs about Player, for any number of songs: nothing is used after it  *)
(* was freed, a song is gone before the next one is created, and the keys  *)
(* reach the song that is played.                                          *)
(***************************************************************************)
EXTENDS Player, TLAPS

-----------------------------------------------------------------------------
(* The invariant.  Only the latest song has anything to it; the others are *)
(* over or have not begun.                                                 *)

Typed ==
  /\ uiPc \in {"play", "stop", "join", "newReader", "newNes", "newStreamer",
               "startStream", "load", "idle", "quit"}
  /\ song \in 0 .. MaxSongs
  /\ {g_nes, g_as, g_reader, g_run_thread} \subseteq 0 .. MaxSongs
  /\ destroy_ \in [Song -> BOOLEAN]
  /\ runPc \in [Song -> {"none", "start", "run", "deleteReader", "stopStream",
                         "deleteStreamer", "deleteNes", "done"}]
  /\ runNes \in [Song -> 0 .. MaxSongs]
  /\ stream \in [Song -> {"none", "open", "invalid", "running", "stopping", "closed"}]
  /\ callback \in [Song -> BOOLEAN]

Over(s)     == runPc[s] = "done" /\ stream[s] = "closed" /\ ~callback[s]
NotBegun(s) == runPc[s] = "none" /\ stream[s] = "none" /\ ~callback[s] /\ ~destroy_[s]

(* main is creating the objects of the latest song, or its thread exists.  *)
Creating == uiPc \in {"newNes", "newStreamer", "startStream", "load"}
Started  == uiPc \in {"idle", "quit", "stop", "join"}

OthersAway ==
  /\ \A s \in Song : s < song => Over(s)
  /\ \A s \in Song : s > song => NotBegun(s)

(* Which song each global points to: a new one after the other.            *)
Globals ==
  /\ uiPc = "play" => song = 0
  /\ uiPc \notin {"play", "newReader"} => song > 0
  /\ uiPc \in {"stop", "join", "newReader"} => song < MaxSongs
  /\ g_reader = song
  /\ g_nes = IF uiPc = "newNes" THEN song - 1 ELSE song
  /\ g_as = IF uiPc \in {"newNes", "newStreamer", "startStream"} THEN song - 1 ELSE song
  /\ g_run_thread = IF Creating THEN song - 1 ELSE song

Reader(s)   == <<"reader", s>>
Machine(s)  == <<"nes", s>>
Streamer(s) == <<"streamer", s>>

(* The objects of the latest song, as main and its thread get on.          *)
Objects ==
  /\ uiPc \in {"play", "newReader"} => live = {}
  /\ uiPc = "newNes" => live = {Reader(song)}
  /\ uiPc = "newStreamer" => live = {Reader(song), Machine(song)}
  /\ uiPc \in {"startStream", "load"} => live = {Reader(song), Machine(song), Streamer(song)}
  /\ Started =>
       /\ runPc[song] \in {"start", "run", "deleteReader"} =>
            live = {Reader(song), Machine(song), Streamer(song)}
       /\ runPc[song] \in {"stopStream", "deleteStreamer"} =>
            live = {Machine(song), Streamer(song)}
       /\ runPc[song] = "deleteNes" => live = {Machine(song)}
       /\ runPc[song] = "done" => live = {}

(* The thread of the latest song leaves Nes::Run after Stop() only.        *)
RunThread ==
  /\ uiPc = "newReader" /\ song > 0 => Over(song)
  /\ Creating => runPc[song] = "none" /\ ~destroy_[song]
  /\ Started => runPc[song] # "none" /\ (destroy_[song] <=> uiPc = "join")
  /\ uiPc \in {"idle", "quit", "stop"} => runPc[song] \in {"start", "run"}
  /\ \A s \in Song : runPc[s] = "run" => runNes[s] = s

(* Callbacks come while the stream runs, and none is left when it closes.  *)
Sound ==
  /\ \A s \in Song : callback[s] => stream[s] \in {"running", "stopping"}
  /\ uiPc \in {"newNes", "newStreamer"} => stream[song] = "none"
  /\ uiPc = "startStream" => stream[song] \in {"open", "invalid"}
  /\ Started /\ runPc[song] \in {"deleteNes", "done"} => stream[song] = "closed"
  /\ uiPc \in {"load"} \/ (Started /\ runPc[song] \notin {"deleteNes", "done"})
       => stream[song] \in {"open", "invalid", "running", "stopping"}
  /\ Started /\ runPc[song] = "deleteStreamer" => stream[song] # "running"
  /\ uiPc \in {"load", "idle", "quit", "stop"} => stream[song] # "stopping"

IInv == Typed /\ OthersAway /\ Globals /\ Objects /\ RunThread /\ Sound

-----------------------------------------------------------------------------
(* The invariant holds when main starts, and every step keeps it.          *)

LEMMA SongsAreNumbers == Song \subseteq Nat /\ MaxSongs \in Nat /\ MaxSongs > 0
BY MaxSongsAssumption DEF Song

(* No song has begun, and g_reader, g_nes and g_as point to none.          *)
LEMMA InitIInv == Init => IInv
BY SongsAreNumbers DEF Init, IInv, Typed, OthersAway, Globals, Objects, RunThread, Sound,
   Over, NotBegun, Creating, Started, Song

(* The user-interface thread.                                              *)

(* play_song goes to the wait for the last song or, the first time,        *)
(* straight to new NSFReader.                                              *)
LEMMA PlaySongKeeps == IInv /\ PlaySong => IInv'
<1> SUFFICES ASSUME IInv, PlaySong PROVE IInv'
  OBVIOUS
<1> USE SongsAreNumbers DEF IInv, PlaySong, objects, threads, audio
<1>1. Typed'
  BY DEF Typed
<1>2. OthersAway'
  BY DEF OthersAway, Over, NotBegun
<1>3. Globals'
  BY DEF Globals, Creating
<1>4. Objects'
  BY DEF Globals, Objects, Started
<1>5. RunThread'
  BY DEF Globals, RunThread, Creating, Started
<1>6. Sound'
  BY DEF Globals, Sound, Started
<1> QED
  BY <1>1, <1>2, <1>3, <1>4, <1>5, <1>6

(* g_nes still is the machine of the latest song, whose thread is in       *)
(* run_nes: the only one that Stop() reaches.                              *)
LEMMA StopNesKeeps == IInv /\ StopNes => IInv'
<1> SUFFICES ASSUME IInv, StopNes PROVE IInv'
  OBVIOUS
<1> USE SongsAreNumbers DEF IInv, StopNes, objects, threads, audio
<1>1. Typed'
  BY DEF Song, Typed, Globals
<1>2. OthersAway'
  BY DEF OthersAway, Globals, Over, NotBegun
<1>3. Globals'
  BY DEF Globals, Creating
<1>4. Objects'
  BY DEF Objects, Started
<1>5. RunThread'
  BY DEF Song, Typed, Globals, RunThread, Creating
<1>6. Sound'
  BY DEF Sound, Started
<1> QED
  BY <1>1, <1>2, <1>3, <1>4, <1>5, <1>6

(* pthread_join returns when the thread is done, and by then it has        *)
(* deleted everything and closed the stream.                               *)
LEMMA JoinKeeps == IInv /\ Join => IInv'
<1> SUFFICES ASSUME IInv, Join PROVE IInv'
  OBVIOUS
<1> USE SongsAreNumbers DEF IInv, Join, objects, threads, audio
<1>1. Typed'
  BY DEF Typed
<1>2. OthersAway'
  BY DEF OthersAway, Over, NotBegun
<1>3. Globals'
  BY DEF Globals, Creating
<1>4. Objects'
  BY DEF Globals, Objects, Creating, Started
<1>5. RunThread'
  BY DEF Song, Globals, RunThread, Sound, Creating, Started, Over
<1>6. Sound'
  BY DEF Sound, Started
<1> QED
  BY <1>1, <1>2, <1>3, <1>4, <1>5, <1>6

(* The next song is the latest one from here on; the song before is over.  *)
LEMMA NewReaderKeeps == IInv /\ NewReader => IInv'
<1> SUFFICES ASSUME IInv, NewReader PROVE IInv'
  OBVIOUS
<1> USE SongsAreNumbers DEF IInv, NewReader, objects, threads, audio
<1>1. Typed'
  BY DEF Typed, Globals
<1>2. OthersAway'
  BY DEF Song, OthersAway, Globals, RunThread, Over, NotBegun
<1>3. Globals'
  BY DEF Typed, Globals, Creating
<1>4. Objects'
  BY DEF Objects, Started, Reader
<1>5. RunThread'
  BY DEF Song, Typed, OthersAway, Globals, RunThread, Started, NotBegun
<1>6. Sound'
  BY DEF Song, Typed, OthersAway, Globals, Sound, Started, NotBegun
<1> QED
  BY <1>1, <1>2, <1>3, <1>4, <1>5, <1>6

(* Each new object is that of the latest song, and its global is set at    *)
(* the same moment.                                                        *)
LEMMA NewNesKeeps == IInv /\ NewNes => IInv'
<1> SUFFICES ASSUME IInv, NewNes PROVE IInv'
  OBVIOUS
<1> USE SongsAreNumbers DEF IInv, NewNes, objects, threads, audio
<1>1. Typed'
  BY DEF Typed
<1>2. OthersAway'
  BY DEF OthersAway, Over, NotBegun
<1>3. Globals'
  BY DEF Globals, Creating
<1>4. Objects'
  BY DEF Objects, Started, Machine
<1>5. RunThread'
  BY DEF RunThread, Creating, Started
<1>6. Sound'
  BY DEF Sound, Started
<1> QED
  BY <1>1, <1>2, <1>3, <1>4, <1>5, <1>6

(* A stream that fails to open is as good as an open one for what follows. *)
LEMMA OpenStreamKeeps == IInv /\ OpenStream => IInv'
<1> SUFFICES ASSUME IInv, OpenStream PROVE IInv'
  OBVIOUS
<1> USE SongsAreNumbers DEF IInv, OpenStream, objects, threads, audio
<1>1. Typed'
  BY DEF Song, Typed, Globals
<1>2. OthersAway'
  BY DEF OthersAway, Over, NotBegun
<1>3. Globals'
  BY DEF Globals, Creating
<1>4. Objects'
  BY DEF Objects, Started, Streamer
<1>5. RunThread'
  BY DEF RunThread, Creating, Started
<1>6. Sound'
  BY DEF Song, Typed, Globals, Sound, Started
<1> QED
  BY <1>1, <1>2, <1>3, <1>4, <1>5, <1>6

LEMMA StartStreamKeeps == IInv /\ StartStream => IInv'
<1> SUFFICES ASSUME IInv, StartStream PROVE IInv'
  OBVIOUS
<1> USE SongsAreNumbers DEF IInv, StartStream, objects, threads, audio
<1>1. Typed'
  BY DEF Typed
<1>2. OthersAway'
  BY DEF Typed, OthersAway, Over, NotBegun
<1>3. Globals'
  BY DEF Globals, Creating
<1>4. Objects'
  BY DEF Objects, Started
<1>5. RunThread'
  BY DEF RunThread, Creating, Started
<1>6. Sound'
  BY DEF Song, Typed, Sound, Started
<1> QED
  BY <1>1, <1>2, <1>3, <1>4, <1>5, <1>6

(* The thread starts with all objects in place.                            *)
LEMMA LoadAndRunKeeps == IInv /\ LoadAndRun => IInv'
<1> SUFFICES ASSUME IInv, LoadAndRun PROVE IInv'
  OBVIOUS
<1> USE SongsAreNumbers DEF IInv, LoadAndRun, objects, threads, audio
<1>1. Typed'
  BY DEF Song, Typed, Globals
<1>2. OthersAway'
  BY DEF OthersAway, Over, NotBegun
<1>3. Globals'
  BY DEF Globals, Creating
<1>4. Objects'
  BY DEF Objects, RunThread, Creating
<1>5. RunThread'
  BY DEF Song, Typed, Globals, RunThread, Creating
<1>6. Sound'
  BY DEF RunThread, Sound, Creating
<1> QED
  BY <1>1, <1>2, <1>3, <1>4, <1>5, <1>6

LEMMA QuitKeeps == IInv /\ Quit => IInv'
<1> SUFFICES ASSUME IInv, Quit PROVE IInv'
  OBVIOUS
<1> USE SongsAreNumbers DEF IInv, Quit, objects, threads, audio
<1>1. Typed'
  BY DEF Typed
<1>2. OthersAway'
  BY DEF OthersAway, Over, NotBegun
<1>3. Globals'
  BY DEF Globals, Creating
<1>4. Objects'
  BY DEF Objects, Started
<1>5. RunThread'
  BY DEF RunThread, Creating, Started
<1>6. Sound'
  BY DEF Sound, Started
<1> QED
  BY <1>1, <1>2, <1>3, <1>4, <1>5, <1>6

(* The run thread, which is that of the latest song, and the callback.     *)

(* A thread that moves is the one of the latest song: the others are done  *)
(* or have not started.                                                    *)
LEMMA RunEntersKeeps ==
  ASSUME NEW s \in Song, IInv, uiPc # "quit", RunEnters(s) PROVE IInv'
<1> USE SongsAreNumbers DEF IInv, RunEnters, objects, threads, audio
<1>0. s = song /\ s > 0
  BY DEF Song, Typed, OthersAway, Over, NotBegun
<1>1. Typed'
  BY <1>0 DEF Typed
<1>2. OthersAway'
  BY <1>0 DEF OthersAway, Over, NotBegun
<1>3. Globals'
  BY <1>0 DEF Globals, Creating
<1>4. Objects'
  BY <1>0 DEF Objects, Started
<1>5. RunThread'
  BY <1>0 DEF Typed, Globals, RunThread, Creating, Started, Over
<1>6. Sound'
  BY <1>0 DEF Sound, Started
<1> QED
  BY <1>1, <1>2, <1>3, <1>4, <1>5, <1>6

LEMMA RunReturnsKeeps ==
  ASSUME NEW s \in Song, IInv, uiPc # "quit", RunReturns(s) PROVE IInv'
<1> USE SongsAreNumbers DEF IInv, RunReturns, objects, threads, audio
<1>0. s = song /\ s > 0
  BY DEF Song, Typed, OthersAway, Over, NotBegun
<1>1. Typed'
  BY <1>0 DEF Typed
<1>2. OthersAway'
  BY <1>0 DEF OthersAway, Over, NotBegun
<1>3. Globals'
  BY <1>0 DEF Globals, Creating
<1>4. Objects'
  BY <1>0 DEF Objects, Started
<1>5. RunThread'
  BY <1>0 DEF RunThread, Creating, Started, Over
<1>6. Sound'
  BY <1>0 DEF Sound, Started
<1> QED
  BY <1>1, <1>2, <1>3, <1>4, <1>5, <1>6

(* g_reader points to the reader of the thread's own song, since the next  *)
(* one is created after the join only.                                     *)
LEMMA DeleteReaderKeeps ==
  ASSUME NEW s \in Song, IInv, uiPc # "quit", DeleteReader(s) PROVE IInv'
<1> USE SongsAreNumbers DEF IInv, DeleteReader, objects, threads, audio
<1>0. s = song /\ s > 0
  BY DEF Song, Typed, OthersAway, Over, NotBegun
<1>1. Typed'
  BY <1>0 DEF Typed
<1>2. OthersAway'
  BY <1>0 DEF OthersAway, Over, NotBegun
<1>3. Globals'
  BY <1>0 DEF Globals, Creating
<1>4. Objects'
  BY <1>0 DEF Typed, Globals, Objects, RunThread, Creating, Started, Reader,
    Machine, Streamer
<1>5. RunThread'
  BY <1>0 DEF RunThread, Creating, Started, Over
<1>6. Sound'
  BY <1>0 DEF Sound, Started
<1> QED
  BY <1>1, <1>2, <1>3, <1>4, <1>5, <1>6

(* Pa_StopStream returns when no callback is left.                         *)
LEMMA StopStreamKeeps ==
  ASSUME NEW s \in Song, IInv, uiPc # "quit", StopStream(s) PROVE IInv'
<1> USE SongsAreNumbers DEF IInv, StopStream, objects, threads, audio
<1>0. s = song /\ s > 0
  BY DEF Song, Typed, OthersAway, Over, NotBegun
<1>1. Typed'
  BY <1>0 DEF Typed, Globals, RunThread, Creating
<1>2. OthersAway'
  BY <1>0 DEF OthersAway, Over, NotBegun
<1>3. Globals'
  BY <1>0 DEF Globals, Creating
<1>4. Objects'
  BY <1>0 DEF Objects, Started
<1>5. RunThread'
  BY <1>0 DEF RunThread, Creating, Started, Over
<1>6. Sound'
  BY <1>0 DEF Typed, Globals, RunThread, Sound, Creating, Started
<1> QED
  BY <1>1, <1>2, <1>3, <1>4, <1>5, <1>6

LEMMA DeleteStreamerKeeps ==
  ASSUME NEW s \in Song, IInv, uiPc # "quit", DeleteStreamer(s) PROVE IInv'
<1> USE SongsAreNumbers DEF IInv, DeleteStreamer, objects, threads, audio
<1>0. s = song /\ s > 0
  BY DEF Song, Typed, OthersAway, Over, NotBegun
<1>1. Typed'
  BY <1>0 DEF Typed, Globals, RunThread, Creating
<1>2. OthersAway'
  BY <1>0 DEF OthersAway, Globals, Over, NotBegun
<1>3. Globals'
  BY <1>0 DEF Globals, Creating
<1>4. Objects'
  BY <1>0 DEF Typed, Globals, Objects, RunThread, Creating, Started, Machine,
    Streamer
<1>5. RunThread'
  BY <1>0 DEF RunThread, Creating, Started, Over
<1>6. Sound'
  BY <1>0 DEF Typed, Globals, RunThread, Sound, Creating
<1> QED
  BY <1>1, <1>2, <1>3, <1>4, <1>5, <1>6

LEMMA DeleteNesKeeps ==
  ASSUME NEW s \in Song, IInv, uiPc # "quit", DeleteNes(s) PROVE IInv'
<1> USE SongsAreNumbers DEF IInv, DeleteNes, objects, threads, audio
<1>0. s = song /\ s > 0
  BY DEF Song, Typed, OthersAway, Over, NotBegun
<1>1. Typed'
  BY <1>0 DEF Typed
<1>2. OthersAway'
  BY <1>0 DEF OthersAway, Over, NotBegun
<1>3. Globals'
  BY <1>0 DEF Globals, Creating
<1>4. Objects'
  BY <1>0 DEF Typed, Globals, Objects, RunThread, Creating, Started, Machine
<1>5. RunThread'
  BY <1>0 DEF RunThread, Creating, Started, Over
<1>6. Sound'
  BY <1>0 DEF Sound, Started
<1> QED
  BY <1>1, <1>2, <1>3, <1>4, <1>5, <1>6

(* A callback begins while the stream of the latest song runs.             *)
LEMMA BeginCallbackKeeps ==
  ASSUME NEW s \in Song, IInv, uiPc # "quit", BeginCallback(s) PROVE IInv'
<1> USE SongsAreNumbers DEF IInv, BeginCallback, objects, threads, audio
<1>0. s = song /\ s > 0
  BY DEF Song, Typed, OthersAway, Over, NotBegun
<1>1. Typed'
  BY <1>0 DEF Typed
<1>2. OthersAway'
  BY <1>0 DEF OthersAway, Over, NotBegun
<1>3. Globals'
  BY <1>0 DEF Globals, Creating
<1>4. Objects'
  BY <1>0 DEF Objects, Started
<1>5. RunThread'
  BY <1>0 DEF RunThread, Creating, Started, Over
<1>6. Sound'
  BY <1>0 DEF Sound, Started
<1> QED
  BY <1>1, <1>2, <1>3, <1>4, <1>5, <1>6

LEMMA EndCallbackKeeps ==
  ASSUME NEW s \in Song, IInv, uiPc # "quit", EndCallback(s) PROVE IInv'
<1> USE SongsAreNumbers DEF IInv, EndCallback, objects, threads, audio
<1>0. s = song /\ s > 0
  BY DEF Song, Typed, OthersAway, Over, NotBegun
<1>1. Typed'
  BY <1>0 DEF Typed
<1>2. OthersAway'
  BY <1>0 DEF OthersAway, Over, NotBegun
<1>3. Globals'
  BY <1>0 DEF Globals, Creating
<1>4. Objects'
  BY <1>0 DEF Objects, Started
<1>5. RunThread'
  BY <1>0 DEF RunThread, Creating, Started, Over
<1>6. Sound'
  BY <1>0 DEF Sound, Started
<1> QED
  BY <1>1, <1>2, <1>3, <1>4, <1>5, <1>6

LEMMA UserInterfaceKeeps == IInv /\ UserInterface => IInv'
BY PlaySongKeeps, StopNesKeeps, JoinKeeps, NewReaderKeeps,
   NewNesKeeps, OpenStreamKeeps, StartStreamKeeps, LoadAndRunKeeps DEF UserInterface

LEMMA ThreadsKeep == IInv /\ uiPc # "quit" /\ Threads => IInv'
<1> SUFFICES ASSUME IInv, uiPc # "quit", NEW s \in Song,
                    RunNes(s) \/ BeginCallback(s) \/ EndCallback(s)
             PROVE  IInv'
  BY DEF Threads
<1>1. CASE RunNes(s)
  BY <1>1, RunEntersKeeps, RunReturnsKeeps, DeleteReaderKeeps,
     StopStreamKeeps, DeleteStreamerKeeps, DeleteNesKeeps DEF RunNes
<1>2. CASE BeginCallback(s) \/ EndCallback(s)
  BY <1>2, BeginCallbackKeeps, EndCallbackKeeps
<1> QED
  BY <1>1, <1>2

LEMMA UnchangedKeeps == IInv /\ UNCHANGED vars => IInv'
BY DEF vars, objects, threads, audio, IInv, Typed, OthersAway, Globals, Objects, RunThread,
   Sound, Over, NotBegun, Creating, Started

LEMMA NextIInv == IInv /\ [Next]_vars => IInv'
BY UserInterfaceKeeps, QuitKeeps, ThreadsKeep, UnchangedKeeps DEF Next

(* Only the latest song has anything to it, its objects are those that     *)
(* main has created and its thread has not deleted yet, and the globals    *)
(* follow the song one after the other.                                    *)
THEOREM PlayerInvariant == Spec => []IInv
BY InitIInv, NextIInv, PTL DEF Spec

-----------------------------------------------------------------------------
(* What the invariant says of the properties.                              *)

(* A thread or callback that is alive belongs to the latest song.          *)
LEMMA LatestSong ==
  ASSUME IInv, NEW s \in Song, runPc[s] \notin {"none", "done"} \/ callback[s]
  PROVE  s = song /\ s > 0 /\ (Started \/ callback[s])
BY SongsAreNumbers DEF IInv, OthersAway, RunThread, Over, NotBegun, Globals, Typed, Creating,
   Started, Song

(* What main, run_nes and the callback touch are objects of the latest     *)
(* song that exist.                                                        *)
LEMMA IInvNoUseAfterFree == IInv => NoUseAfterFree
<1> SUFFICES ASSUME IInv PROVE NoUseAfterFree
  OBVIOUS
<1>1. TouchedByUI \subseteq live
  BY SongsAreNumbers
     DEF TouchedByUI, IInv, Typed, Globals, Objects, RunThread, Started, Reader,
         Machine, Streamer, Creating
<1>2. ASSUME NEW s \in Song PROVE TouchedByRun(s) \subseteq live
  BY LatestSong, SongsAreNumbers
     DEF TouchedByRun, IInv, Typed, Globals, Objects, RunThread, Started, Reader,
         Machine, Streamer, Creating, OthersAway, Over, NotBegun
<1>3. ASSUME NEW s \in Song, callback[s] PROVE <<"nes", s>> \in live
  BY <1>3, LatestSong, SongsAreNumbers
     DEF IInv, Typed, Globals, Objects, RunThread, Sound, Started, Reader,
         Machine, Streamer, Creating, OthersAway, Over, NotBegun
<1> QED
  BY <1>1, <1>2, <1>3 DEF NoUseAfterFree

(* newReader is reached before the first song or after the join.           *)
LEMMA IInvCleanHandOver == IInv => CleanHandOver
BY SongsAreNumbers
   DEF CleanHandOver, IInv, Typed, OthersAway, Objects, RunThread, Over, NotBegun,
       Globals, Song

(* While main is idle the thread of the latest song has neither been       *)
(* stopped nor left Run.                                                   *)
LEMMA IInvKeysReachTheSong == IInv => KeysReachTheSong
BY SongsAreNumbers
   DEF KeysReachTheSong, IInv, Typed, OthersAway, Globals, RunThread, Sound, Over,
       NotBegun, Creating, Started, Song

(* No thread touches or deletes an object that is not allocated: not main, *)
(* whose globals dangle after every song, not run_nes, which deletes       *)
(* through them, and not PaCallback, whose adapter run_nes frees.          *)
THEOREM PlayerNoUseAfterFree == Spec => []NoUseAfterFree
BY PlayerInvariant, IInvNoUseAfterFree, PTL

(* When play_song begins to create, every object, stream and callback of   *)
(* the songs before is gone.                                               *)
THEOREM PlayerCleanHandOver == Spec => []CleanHandOver
BY PlayerInvariant, IInvCleanHandOver, PTL

(* While main waits for a key, g_nes is the one machine that runs, nobody  *)
(* has stopped it, and no other song is heard.                             *)
THEOREM PlayerKeysReachTheSong == Spec => []KeysReachTheSong
BY PlayerInvariant, IInvKeysReachTheSong, PTL
=============================================================================
