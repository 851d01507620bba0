--------------------------------- MODULE Player ---------------------------------
(***************************************************************************)
(* The player library (src/src/nsf/nsf.cc) and who may touch what when.    *)
(*                                                                         *)
(*   - the user-interface thread creates an NSFReader, a Nes and an        *)
(*     AudioStreamer for every song, after stopping and joining the thread *)
(*     of the song before;                                                 *)
(*   - the run thread of a song runs Nes::Run and then deletes the three   *)
(*     objects through the globals, which are never reset;                 *)
(*   - PortAudio's thread calls back into the song's AudioAdapter, which   *)
(*     the Nes owns, from Pa_StartStream until Pa_StopStream returns.      *)
(*                                                                         *)
(* A song is the number of the play_song call that started it, and an      *)
(* object is the pair of its class and its song.  Nes::Run is taken for    *)
(* what module Nes shows of it: it returns some time after Stop() and      *)
(* never before.                                                           *)
(***************************************************************************)
EXTENDS Integers, FiniteSets

CONSTANT MaxSongs   \* bound of the model: calls of play_song

ASSUME MaxSongsAssumption == MaxSongs \in Nat \ {0}

VARIABLES
  uiPc,          \* where main and play_song are
  song,          \* calls of play_song that began to create objects
  g_nes, g_as, g_reader, g_run_thread,   \* the song they point to, 0 for NULL
  live,          \* objects that are allocated
  destroy_,      \* destroy_[s]: the flag in the Nes of song s
  runPc,         \* runPc[s]: where the run thread of song s is
  runNes,        \* runNes[s]: the Nes that thread s is inside Run() of
  stream,        \* stream[s]: PortAudio's stream of song s
  callback       \* callback[s]: PaCallback is being executed for song s

objects == <<song, g_nes, g_as, g_reader, live>>
threads == <<g_run_thread, runPc, runNes>>
audio   == <<stream, callback>>
vars    == <<uiPc, destroy_, objects, threads, audio>>

Song == 1 .. MaxSongs

Init ==
  /\ uiPc = "play"
  /\ song = 0
  /\ g_nes = 0 /\ g_as = 0 /\ g_reader = 0 /\ g_run_thread = 0
  /\ live = {}
  /\ destroy_ = [s \in Song |-> FALSE]
  /\ runPc = [s \in Song |-> "none"]
  /\ runNes = [s \in Song |-> 0]
  /\ stream = [s \in Song |-> "none"]
  /\ callback = [s \in Song |-> FALSE]

-----------------------------------------------------------------------------
(* The user-interface thread.                                              *)

(* main is back in getch(), or has just started; it calls play_song.       *)
PlaySong ==
  /\ uiPc \in {"play", "idle"}
  /\ song < MaxSongs
  /\ uiPc' = IF g_nes # 0 THEN "stop" ELSE "newReader"
  /\ UNCHANGED <<destroy_, objects, threads, audio>>

(* g_nes->Stop()                                                           *)
StopNes ==
  /\ uiPc = "stop"
  /\ destroy_' = [destroy_ EXCEPT ![g_nes] = TRUE]
  /\ uiPc' = "join"
  /\ UNCHANGED <<objects, threads, audio>>

(* Mutant: the next song is started without waiting for the thread.        *)
NoJoin ==
  /\ uiPc = "join"
  /\ uiPc' = "newReader"
  /\ UNCHANGED <<destroy_, objects, threads, audio>>

(* pthread_join(g_run_thread, NULL)                                        *)
Join ==
  /\ uiPc = "join"
  /\ runPc[g_run_thread] = "done"
  /\ uiPc' = "newReader"
  /\ UNCHANGED <<destroy_, objects, threads, audio>>

NewReader ==
  /\ uiPc = "newReader"
  /\ song' = song + 1
  /\ g_reader' = song + 1
  /\ live' = live \cup {<<"reader", song + 1>>}
  /\ uiPc' = "newNes"
  /\ UNCHANGED <<g_nes, g_as, destroy_, threads, audio>>

NewNes ==
  /\ uiPc = "newNes"
  /\ g_nes' = song
  /\ live' = live \cup {<<"nes", song>>}
  /\ uiPc' = "newStreamer"
  /\ UNCHANGED <<song, g_as, g_reader, destroy_, threads, audio>>

(* new AudioStreamer: Pa_OpenDefaultStream.  When it fails, the error is   *)
(* printed and stream_ keeps whatever it held.                             *)
OpenStream ==
  /\ uiPc = "newStreamer"
  /\ live' = live \cup {<<"streamer", song>>}
  /\ \E result \in {"open", "invalid"} :
       stream' = [stream EXCEPT ![song] = result]
  /\ uiPc' = "startStream"
  /\ UNCHANGED <<song, g_nes, g_as, g_reader, callback, destroy_, threads>>

(* Pa_StartStream, whatever came before; it may fail too.  From here on    *)
(* PortAudio calls back, before the song is loaded.                        *)
StartStream ==
  /\ uiPc = "startStream"
  /\ \/ /\ stream[song] = "open"
        /\ stream' = [stream EXCEPT ![song] = "running"]
     \/ UNCHANGED stream
  /\ g_as' = song
  /\ uiPc' = "load"
  /\ UNCHANGED <<song, g_nes, g_reader, live, callback, destroy_, threads>>

(* Cart, LoadCart, Banks, LoadBank, SetRegisters, ..., RunPeriodic read    *)
(* the reader and write the Nes; the run thread is created last.           *)
LoadAndRun ==
  /\ uiPc = "load"
  /\ runPc' = [runPc EXCEPT ![song] = "start"]
  /\ g_run_thread' = song
  /\ uiPc' = "idle"
  /\ UNCHANGED <<runNes, destroy_, objects, audio>>

(* 'q': main returns, and the process ends with all its threads.           *)
Quit ==
  /\ uiPc = "idle"
  /\ uiPc' = "quit"
  /\ UNCHANGED <<destroy_, objects, threads, audio>>

-----------------------------------------------------------------------------
(* run_nes, the run thread of song s.                                      *)

(* Mutant: the streamer is not deleted.                                    *)
DeleteReaderOnly(s) ==
  /\ runPc[s] = "deleteReader"
  /\ live' = live \ {<<"reader", g_reader>>}
  /\ runPc' = [runPc EXCEPT ![s] = "deleteNes"]
  /\ UNCHANGED <<uiPc, song, g_nes, g_as, g_reader, g_run_thread, runNes,
                 destroy_, audio>>

(* g_nes->Run() is entered, with the value g_nes has now ...               *)
RunEnters(s) ==
  /\ runPc[s] = "start"
  /\ runNes' = [runNes EXCEPT ![s] = g_nes]
  /\ runPc' = [runPc EXCEPT ![s] = "run"]
  /\ UNCHANGED <<uiPc, g_run_thread, destroy_, objects, audio>>

(* ... and returns.                                                        *)
RunReturns(s) ==
  /\ runPc[s] = "run"
  /\ destroy_[runNes[s]]
  /\ runPc' = [runPc EXCEPT ![s] = "deleteReader"]
  /\ UNCHANGED <<uiPc, g_run_thread, runNes, destroy_, objects, audio>>

DeleteReader(s) ==
  /\ runPc[s] = "deleteReader"
  /\ live' = live \ {<<"reader", g_reader>>}
  /\ runPc' = [runPc EXCEPT ![s] = "stopStream"]
  /\ UNCHANGED <<uiPc, song, g_nes, g_as, g_reader, g_run_thread, runNes,
                 destroy_, audio>>

(* Mutant: the stream is waited for but not stopped.                       *)
StopStreamForgotten(s) ==
  /\ runPc[s] = "stopStream"
  /\ runPc' = [runPc EXCEPT ![s] = "deleteStreamer"]
  /\ UNCHANGED <<uiPc, g_run_thread, runNes, audio, destroy_, objects>>

(* ~AudioStreamer: Pa_StopStream lets no new callback begin ...            *)
StopStream(s) ==
  /\ runPc[s] = "stopStream"
  /\ stream' = [stream EXCEPT ![g_as] = IF @ = "running" THEN "stopping" ELSE @]
  /\ runPc' = [runPc EXCEPT ![s] = "deleteStreamer"]
  /\ UNCHANGED <<uiPc, g_run_thread, runNes, callback, destroy_, objects>>

(* Mutant: the stream is closed without waiting (Pa_AbortStream-like).     *)
DeleteStreamerAtOnce(s) ==
  /\ runPc[s] = "deleteStreamer"
  /\ stream' = [stream EXCEPT ![g_as] = "closed"]
  /\ live' = live \ {<<"streamer", g_as>>}
  /\ runPc' = [runPc EXCEPT ![s] = "deleteNes"]
  /\ UNCHANGED <<uiPc, song, g_nes, g_as, g_reader, g_run_thread, runNes,
                 callback, destroy_>>

(* ... and waits for the one in progress; then Pa_CloseStream and          *)
(* Pa_Terminate, and the memory of the streamer is freed.                  *)
DeleteStreamer(s) ==
  /\ runPc[s] = "deleteStreamer"
  /\ ~callback[g_as]
  /\ stream' = [stream EXCEPT ![g_as] = "closed"]
  /\ live' = live \ {<<"streamer", g_as>>}
  /\ runPc' = [runPc EXCEPT ![s] = "deleteNes"]
  /\ UNCHANGED <<uiPc, song, g_nes, g_as, g_reader, g_run_thread, runNes,
                 callback, destroy_>>

(* delete g_nes frees the AudioAdapter and its queues too.                 *)
DeleteNes(s) ==
  /\ runPc[s] = "deleteNes"
  /\ live' = live \ {<<"nes", g_nes>>}
  /\ runPc' = [runPc EXCEPT ![s] = "done"]
  /\ UNCHANGED <<uiPc, song, g_nes, g_as, g_reader, g_run_thread, runNes,
                 destroy_, audio>>

RunNes(s) ==
  \/ RunEnters(s) \/ RunReturns(s) \/ DeleteReader(s) \/ StopStream(s)
  \/ DeleteStreamer(s) \/ DeleteNes(s)

-----------------------------------------------------------------------------
(* PaCallback: fills the buffer with as->GetSample().                      *)

BeginCallback(s) ==
  /\ stream[s] = "running" /\ ~callback[s]
  /\ callback' = [callback EXCEPT ![s] = TRUE]
  /\ UNCHANGED <<uiPc, stream, destroy_, objects, threads>>

EndCallback(s) ==
  /\ callback[s]
  /\ callback' = [callback EXCEPT ![s] = FALSE]
  /\ UNCHANGED <<uiPc, stream, destroy_, objects, threads>>

-----------------------------------------------------------------------------
UserInterface ==
  \/ PlaySong \/ StopNes \/ Join \/ NewReader \/ NewNes \/ OpenStream
  \/ StartStream \/ LoadAndRun

Threads == \E s \in Song : RunNes(s) \/ BeginCallback(s) \/ EndCallback(s)

Next ==
  \/ UserInterface
  \/ Quit
  \/ uiPc # "quit" /\ Threads
  \/ uiPc = "quit" /\ UNCHANGED vars

Spec == Init /\ [][Next]_vars

(* The scheduler runs every thread that can run, main goes on inside       *)
(* play_song, Nes::Run returns after Stop(), and PaCallback returns.       *)
FairSpec ==
  /\ Spec
  /\ WF_vars(UserInterface /\ uiPc # "idle")
  /\ \A s \in Song : /\ WF_vars(uiPc # "quit" /\ RunNes(s))
                     /\ WF_vars(uiPc # "quit" /\ EndCallback(s))

-----------------------------------------------------------------------------
(* Properties.                                                             *)

(* The objects each thread dereferences or deletes where it stands.  In    *)
(* getch(), any key may come: the toggles go through g_nes, the song       *)
(* information through g_reader.                                           *)
TouchedByUI ==
  CASE uiPc = "stop"        -> {<<"nes", g_nes>>}
    [] uiPc = "newStreamer" -> {<<"nes", g_nes>>}
    [] uiPc \in {"load", "idle"} -> {<<"nes", g_nes>>, <<"reader", g_reader>>}
    [] OTHER                -> {}
TouchedByRun(s) ==
  CASE runPc[s] = "start"        -> {<<"nes", g_nes>>}
    [] runPc[s] = "run"          -> {<<"nes", runNes[s]>>}
    [] runPc[s] = "deleteReader" -> {<<"reader", g_reader>>}
    [] runPc[s] \in {"stopStream", "deleteStreamer"} -> {<<"streamer", g_as>>}
    [] runPc[s] = "deleteNes"    -> {<<"nes", g_nes>>}
    [] OTHER                     -> {}

(* No thread touches an object that is not allocated, or deletes one that  *)
(* was deleted before: not the callback, whose adapter the run thread      *)
(* frees, and not main, whose globals dangle after every song.             *)
NoUseAfterFree ==
  /\ TouchedByUI \subseteq live
  /\ \A s \in Song : /\ TouchedByRun(s) \subseteq live
                     /\ callback[s] => <<"nes", s>> \in live

(* Nothing of a song survives into the next: when play_song begins to      *)
(* create, every object, stream and callback of the songs before is gone.  *)
CleanHandOver ==
  uiPc = "newReader" =>
    /\ live = {}
    /\ \A s \in Song : /\ runPc[s] \in {"none", "done"}
                       /\ stream[s] \in {"none", "closed"}
                       /\ ~callback[s]

(* While main waits for a key, the song that the keys act on is the one    *)
(* being emulated, and the one being heard unless PortAudio failed.        *)
KeysReachTheSong ==
  uiPc = "idle" =>
    /\ {s \in Song : runPc[s] \in {"start", "run"}} = {g_nes}
    /\ ~destroy_[g_nes]
    /\ {s \in Song : stream[s] = "running" \/ callback[s]} \subseteq {g_nes}

(* portaudio.h:835: "If a call to Pa_OpenStream() fails [...] the value of *)
(* stream is invalid": no such value is passed to Pa_StartStream,          *)
(* Pa_StopStream or Pa_CloseStream.                                        *)
OnlyValidStreamsUsed ==
  /\ uiPc = "startStream" => stream[song] # "invalid"
  /\ \A s \in Song :
       runPc[s] \in {"stopStream", "deleteStreamer"} => stream[g_as] # "invalid"

(* Changing the song always succeeds: play_song is not caught in the join. *)
PlaySongReturns == uiPc = "stop" ~> uiPc = "idle"
=============================================================================
