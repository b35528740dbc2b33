---------------------------- MODULE PlayPipeline ----------------------------
(***************************************************************************)
(* One session of a player after another, from the decoder to the device:  *)
(* the task of mp3_decoder.c, common_player.c (the calls of the worker and *)
(* the two callbacks) and, by PcmTrans, the PCM task.  The decoder pushes  *)
(* into the ring buffer, the PCM task's callback pops from it; each pauses *)
(* itself when it cannot go on and is resumed by the other.                *)
(*                                                                         *)
(* Sound is counted, not stored: the ring holds `ring' units, a frame is   *)
(* FrameSize of them, a chunk of input ChunkFrames frames.  The 30 s waits *)
(* of mp3_decoder_stop and _deinit do not expire here: the longest wait of *)
(* the decoder, in its input callback, gives up after 17.5 s.              *)
(*                                                                         *)
(* An operator marked MUTATION is a faulty variant of the one after it.    *)
(***************************************************************************)
EXTENDS PcmTrans

CONSTANTS Player, Decoder,      \* the worker and its decoder task
          Size,                 \* units in the ring buffer
          FrameSize,            \* units in a decoded frame
          RequestSize,          \* units the PCM task asks for at a time
          ChunkFrames,          \* frames in what one input callback delivers
          Chunks,               \* bound: such chunks in a session
          MaxErrors,            \* MP3_DECODER_MAX_ERR_COUNT
          MaxSessions,          \* bound: sessions
          MaxPauses             \* bound: pause commands

\* The worker and the decoder task of one player are all that use the device.
OneWorker == Users = {Player} /\ Feeders = {Decoder}

ASSUME UnitsAssumption ==
  {Size, FrameSize, RequestSize, ChunkFrames, MaxErrors} \subseteq Nat \ {0}
ASSUME PipelineBounds == {Chunks, MaxSessions, MaxPauses} \subseteq Nat

VARIABLES
  \* the worker, in com_player_*
  worker,                       \* where it is
  enable_pcm_or_decoder, wait_decoder,
  com_event,                    \* com_player->event_handle
  decoder_info,                 \* it has been set
  last_error,                   \* audio_player->last_error is an error
  \* mp3_decoder
  dpc,                          \* where its task is; "none" when there is none
  cur_state, dec_event, input_done, output_done,
  callbacks,                    \* which of input_callback, output_callback are set
  mem,                          \* mp3_decoder_memory_t
  \* the ring buffer, the source, and the PCM task's callback
  ring, left,
  cpc, count, free_count, done,
  fresh,                        \* history: units pushed since the running callback read count
  sessions, pauses

workVars == <<worker, enable_pcm_or_decoder, wait_decoder, last_error, sessions, pauses>>
comVars  == <<com_event, decoder_info>>
decVars  == <<dpc, cur_state, dec_event, input_done, output_done, callbacks, mem>>
bufVars  == <<ring, left, fresh>>
cbVars   == <<cpc, count, free_count, done>>
vars     == <<pcmVars, workVars, comVars, decVars, bufVars, cbVars>>

DecStates == {"IDLE", "RUN", "PAUSE", "EXIT"}
DecEvents == {"START", "RESUME", "PAUSE", "STOP", "STOP_DONE", "EXIT", "EXIT_DONE"}
Teardown  == {"stop", "stopping", "no_input", "no_output", "dec_stop", "dec_stop_wait",
              "dec_exit", "dec_exit_wait", "clear"}
WorkerPcs == {"idle", "init", "register", "start", "wait", "starting", "play", "auto",
              "pause", "pausing", "pause_set", "paused", "resuming"} \cup Teardown
DecPcs    == {"none", "top", "wait", "start", "resume", "pause", "stop", "stop_done",
              "exit", "exit_done", "output", "notify_in", "pushed_in", "input", "reading",
              "finish", "decode", "decoded", "notify_top", "pushed_top", "give_up"}

\* What the decoder has allocated: frames not yet decoded, units not yet pushed, errors in
\* a row, and whether anything was ever pushed (output_total > 0).
Mems  == [alloc : BOOLEAN, frames : 0..ChunkFrames, output : 0..FrameSize,
          errors : 0..MaxErrors, any : BOOLEAN]
NoMem == [alloc |-> FALSE, frames |-> 0, output |-> 0, errors |-> 0, any |-> FALSE]

Least(a, b) == IF a < b THEN a ELSE b

Init ==
  /\ PcmInit
  /\ worker = "idle"
  /\ enable_pcm_or_decoder = FALSE /\ wait_decoder = FALSE
  /\ com_event = {} /\ decoder_info = FALSE
  /\ last_error = FALSE
  /\ dpc = "none" /\ cur_state = "IDLE" /\ dec_event = {}
  /\ input_done = FALSE /\ output_done = FALSE
  /\ callbacks = {} /\ mem = NoMem
  /\ ring = 0 /\ left = 0 /\ fresh = 0
  /\ cpc = "count" /\ count = 0 /\ free_count = 0 /\ done = FALSE
  /\ sessions = 0 /\ pauses = 0

-----------------------------------------------------------------------------
(* The worker: com_player_start, _pause, _resume, _stop and the monitor *)

\* It goes on when the call of pcm_trans.c it has made has returned.
WorkerGoto(from, to) ==
  /\ worker = from
  /\ pc[Player] \in {"idle", "playing"} /\ Player \notin resuming
  /\ worker' = to

\* The call of pcm_trans.c begins: a start, or a stop.
StartTx == pc' = [pc EXCEPT ![Player] = "attach"]
StopTx  == pc' = [pc EXCEPT ![Player] = "detach"]
pcmRest == <<pcm_trans_cur_state, pcm_event, pcm_trans_tx_no_data,
             pcm_trans_data_request_param, task, resuming, endVars>>

\* A session begins; the source may fail to open, then it is stopped at once.
Begin ==
  /\ sessions < MaxSessions
  /\ WorkerGoto("idle", "init") \/ WorkerGoto("idle", "stop")
  /\ sessions' = sessions + 1
  /\ last_error' = FALSE
  /\ left' = Chunks
  /\ IF worker' = "init"
     THEN wait_decoder' = TRUE /\ enable_pcm_or_decoder' = TRUE /\ decoder_info' = FALSE
     ELSE UNCHANGED <<wait_decoder, enable_pcm_or_decoder, decoder_info>>
  /\ UNCHANGED <<pcmVars, com_event, decVars, ring, fresh, cbVars, pauses>>

\* mp3_decoder_init: a new event group, a new task.
DecoderInit ==
  /\ WorkerGoto("init", "register")
  /\ cur_state' = "IDLE" /\ dec_event' = {} /\ callbacks' = {}
  /\ input_done' = FALSE /\ output_done' = FALSE
  /\ dpc' = "top" /\ mem' = NoMem
  /\ UNCHANGED <<pcmVars, comVars, bufVars, cbVars, enable_pcm_or_decoder, wait_decoder,
                 last_error, sessions, pauses>>

\* MUTATION (CrashesOnlyInStops): the decoder is started before its callbacks
\* are registered.
RegisterLate ==
  /\ WorkerGoto("register", "start")
  /\ dec_event' = dec_event \cup {"START"}
  /\ UNCHANGED <<pcmVars, comVars, bufVars, cbVars, enable_pcm_or_decoder, wait_decoder,
                 last_error, sessions, pauses, dpc, cur_state, input_done, output_done,
                 callbacks, mem>>

RegisterCallbacks ==
  /\ WorkerGoto("register", "start")
  /\ callbacks' = {"input", "output"}
  /\ UNCHANGED <<pcmVars, comVars, bufVars, cbVars, enable_pcm_or_decoder, wait_decoder,
                 last_error, sessions, pauses, dpc, cur_state, dec_event, input_done,
                 output_done, mem>>

\* mp3_decoder_start, called in MP3_DECODER_STA_IDLE
DecoderStart ==
  /\ WorkerGoto("start", "wait")
  /\ input_done' = FALSE /\ output_done' = FALSE
  /\ dec_event' = dec_event \cup {"START"}
  /\ UNCHANGED <<pcmVars, comVars, bufVars, cbVars, enable_pcm_or_decoder, wait_decoder,
                 last_error, sessions, pauses, dpc, cur_state, callbacks, mem>>

\* The first sound starts the device; an error, or nothing for 15 s, ends the start.
WaitDecoder ==
  /\ WorkerGoto("wait", IF "DECODER" \in com_event THEN "starting" ELSE "stop")
  /\ com_event' = {}
  /\ IF "DECODER" \in com_event THEN StartTx ELSE UNCHANGED pc
  /\ UNCHANGED <<pcmRest, decoder_info, decVars, bufVars, cbVars, enable_pcm_or_decoder,
                 wait_decoder, last_error, sessions, pauses>>

Started ==
  /\ WorkerGoto("starting", "play") \/ WorkerGoto("resuming", "play")
  /\ wait_decoder' = FALSE      \* com_player_resume finds it so
  /\ UNCHANGED <<pcmVars, comVars, decVars, bufVars, cbVars, enable_pcm_or_decoder,
                 last_error, sessions, pauses>>

\* A command, STOP or PAUSE, is taken instead of waiting 300 ms.
Command ==
  /\ \/ WorkerGoto("play", "stop") /\ UNCHANGED pauses
     \/ WorkerGoto("paused", "stop") /\ UNCHANGED pauses
     \/ WorkerGoto("play", "pause") /\ pauses < MaxPauses /\ pauses' = pauses + 1
  /\ UNCHANGED <<pcmVars, comVars, decVars, bufVars, cbVars, enable_pcm_or_decoder,
                 wait_decoder, last_error, sessions>>

\* Where audio_player_task goes after its monitor.
AfterMonitor == IF last_error THEN "stop" ELSE "play"

\* audio_player_proc_play_monitor: com_player_is_done and the first half of
\* com_player_auto_resume.
Monitor ==
  /\ WorkerGoto("play", IF pcm_trans_cur_state = "TX_DONE" THEN "stop"
                        ELSE IF pcm_trans_cur_state = "TX_PAUSE" THEN "auto"
                        ELSE AfterMonitor)
  /\ UNCHANGED <<pcmVars, comVars, decVars, bufVars, cbVars, enable_pcm_or_decoder,
                 wait_decoder, last_error, sessions, pauses>>

\* MUTATION (PipelineEnds): there is no com_player_auto_resume.
AutoResumeNever ==
  /\ WorkerGoto("auto", AfterMonitor)
  /\ UNCHANGED <<pcmVars, comVars, decVars, bufVars, cbVars, enable_pcm_or_decoder,
                 wait_decoder, last_error, sessions, pauses>>

AutoResume ==
  /\ WorkerGoto("auto", AfterMonitor)
  /\ IF cur_state = "PAUSE" THEN ResumeTx(Player) /\ UNCHANGED pc ELSE UNCHANGED pcmVars
  /\ UNCHANGED <<comVars, decVars, bufVars, cbVars, enable_pcm_or_decoder, wait_decoder,
                 last_error, sessions, pauses>>

\* com_player_pause and com_player_stop begin alike.
Halt ==
  /\ WorkerGoto("pause", "pausing") \/ WorkerGoto("stop", "stopping")
  /\ enable_pcm_or_decoder' = FALSE
  /\ StopTx
  /\ UNCHANGED <<pcmRest, comVars, decVars, bufVars, cbVars, wait_decoder, last_error,
                 sessions, pauses>>

\* mp3_decoder_pause; the call of the monitor after it finds the device gone.
DecoderPause ==
  /\ WorkerGoto("pausing", IF cur_state = "RUN" THEN "pause_set"
                           ELSE IF last_error THEN "stop" ELSE "paused")
  /\ UNCHANGED <<pcmVars, comVars, decVars, bufVars, cbVars, enable_pcm_or_decoder,
                 wait_decoder, last_error, sessions, pauses>>

DecoderPauseSet ==
  /\ WorkerGoto("pause_set", IF last_error THEN "stop" ELSE "paused")
  /\ dec_event' = dec_event \cup {"PAUSE"}
  /\ UNCHANGED <<pcmVars, comVars, bufVars, cbVars, enable_pcm_or_decoder, wait_decoder,
                 last_error, sessions, pauses, dpc, cur_state, input_done, output_done,
                 callbacks, mem>>

\* com_player_resume
Resume ==
  /\ WorkerGoto("paused", "resuming")
  /\ enable_pcm_or_decoder' = TRUE
  /\ StartTx
  /\ UNCHANGED <<pcmRest, comVars, decVars, bufVars, cbVars, wait_decoder, last_error,
                 sessions, pauses>>

\* com_player_stop takes the decoder's callbacks away, while its task may be running.
Unregister ==
  /\ \/ WorkerGoto("stopping", "no_input") /\ callbacks' = callbacks \ {"input"}
     \/ WorkerGoto("no_input", "dec_stop") /\ callbacks' = callbacks \ {"output"}
  /\ UNCHANGED <<pcmVars, comVars, bufVars, cbVars, enable_pcm_or_decoder, wait_decoder,
                 last_error, sessions, pauses, dpc, cur_state, dec_event, input_done,
                 output_done, mem>>

\* mp3_decoder_stop, of an idle decoder or one never made (state 0 is IDLE) nothing;
\* one that has ended has no event group to set or wait for, and is not ended again.
DecoderStop ==
  /\ WorkerGoto("dec_stop", IF cur_state = "IDLE" THEN "dec_exit"
                            ELSE IF dpc = "none" THEN "clear" ELSE "dec_stop_wait")
  /\ dec_event' = IF worker' = "dec_stop_wait" THEN dec_event \cup {"STOP"} ELSE dec_event
  /\ UNCHANGED <<pcmVars, comVars, bufVars, cbVars, enable_pcm_or_decoder, wait_decoder,
                 last_error, sessions, pauses, dpc, cur_state, input_done, output_done,
                 callbacks, mem>>

DecoderStopped ==
  /\ WorkerGoto("dec_stop_wait", "dec_exit")
  /\ "STOP_DONE" \in dec_event
  /\ dec_event' = dec_event \ {"STOP_DONE"}
  /\ UNCHANGED <<pcmVars, comVars, bufVars, cbVars, enable_pcm_or_decoder, wait_decoder,
                 last_error, sessions, pauses, dpc, cur_state, input_done, output_done,
                 callbacks, mem>>

\* MUTATION (NothingLeftOver): com_player_stop does not call mp3_decoder_deinit.
DecoderExitSkipped ==
  /\ WorkerGoto("dec_exit", "clear") /\ dpc # "none"
  /\ UNCHANGED <<pcmVars, comVars, decVars, bufVars, cbVars, enable_pcm_or_decoder,
                 wait_decoder, last_error, sessions, pauses>>

\* mp3_decoder_deinit; the task is joined.
DecoderExit ==
  /\ WorkerGoto("dec_exit", "dec_exit_wait") /\ dpc # "none"
  /\ dec_event' = dec_event \cup {"EXIT"}
  /\ UNCHANGED <<pcmVars, comVars, bufVars, cbVars, enable_pcm_or_decoder, wait_decoder,
                 last_error, sessions, pauses, dpc, cur_state, input_done, output_done,
                 callbacks, mem>>

DecoderJoin ==
  /\ WorkerGoto("dec_exit_wait", "clear")
  /\ "EXIT_DONE" \in dec_event
  /\ dpc = "none"
  /\ dec_event' = {}
  /\ UNCHANGED <<pcmVars, comVars, bufVars, cbVars, enable_pcm_or_decoder, wait_decoder,
                 last_error, sessions, pauses, dpc, cur_state, input_done, output_done,
                 callbacks, mem>>

\* mp3_decoder_deinit of a decoder that was never made, in a session that ends before
\* any has come so far (decoder_type 0 is MP3): no event group, and pthread_join of a
\* handle that is 0, which is undefined: it crashes, or returns an error.
DecoderJoinNothing ==
  /\ WorkerGoto("dec_exit", "clear") /\ dpc = "none"
  /\ crashed' \in BOOLEAN
  /\ UNCHANGED <<pcm_trans_cur_state, pcm_event, pcm_trans_tx_no_data,
                 pcm_trans_data_request_param, task, pc, resuming, failed, contended,
                 rivals, overlapped, comVars, decVars, bufVars, cbVars,
                 enable_pcm_or_decoder, wait_decoder, last_error, sessions, pauses>>

\* ring_buffer_clear, com_player_clear_event
Clear ==
  /\ WorkerGoto("clear", "idle")
  /\ ring' = 0
  /\ com_event' = {}
  /\ UNCHANGED <<pcmVars, decoder_info, decVars, left, fresh, cbVars, enable_pcm_or_decoder,
                 wait_decoder, last_error, sessions, pauses>>

\* What the worker does by itself; it also makes commands and begins sessions.
WorkerStep ==
  \/ DecoderInit \/ RegisterCallbacks \/ DecoderStart \/ WaitDecoder \/ Started
  \/ Monitor \/ AutoResume \/ Halt \/ DecoderPause \/ DecoderPauseSet
  \/ Unregister \/ DecoderStop \/ DecoderStopped \/ DecoderExit \/ DecoderJoin
  \/ DecoderJoinNothing \/ Clear

-----------------------------------------------------------------------------
(* mp3_decoder_task *)

DecGoto(from, to) == dpc = from /\ Decoder \notin resuming /\ dpc' = to
decRest == <<pcmVars, workVars, ring, left, fresh, cbVars>>

\* mp3_decoder_error_handler: too many errors in a row, or nothing decoded at all.
TooBad == mem.alloc /\ (mem.errors >= MaxErrors \/ (output_done /\ ~mem.any))

\* __player_error_callback: last_error, com_player_set_done(true)
DecTop ==
  /\ DecGoto("top", "wait")
  /\ IF TooBad
     THEN last_error' = TRUE /\ input_done' = TRUE /\ com_event' = com_event \cup {"EXIT"}
     ELSE UNCHANGED <<last_error, input_done, com_event>>
  /\ UNCHANGED <<pcmVars, worker, enable_pcm_or_decoder, wait_decoder, sessions, pauses,
                 decoder_info, cur_state, dec_event, output_done, callbacks, mem, bufVars,
                 cbVars>>

\* All bits are taken; the first of them in this order is obeyed.
DecWait ==
  LET bits == dec_event \cap {"EXIT", "STOP", "START", "RESUME", "PAUSE"}
      runs == cur_state = "RUN" /\ mem.alloc
  IN  /\ cur_state = "RUN" \/ bits # {}
      /\ DecGoto("wait", IF "EXIT" \in bits THEN "exit"
                         ELSE IF "STOP" \in bits THEN "stop"
                         ELSE IF "START" \in bits THEN "start"
                         ELSE IF "RESUME" \in bits THEN "resume"
                         ELSE IF "PAUSE" \in bits THEN "pause"
                         ELSE IF runs THEN "output" ELSE "top")
      /\ dec_event' = dec_event \ bits
      /\ UNCHANGED <<decRest, comVars, cur_state, input_done, output_done, callbacks, mem>>

DecSetState ==
  /\ \/ DecGoto("exit", "exit_done") /\ cur_state' = "EXIT" /\ UNCHANGED mem
     \/ DecGoto("stop", "stop_done") /\ cur_state' = "IDLE" /\ mem' = NoMem
     \/ DecGoto("start", "output") /\ cur_state' = "RUN"
        /\ mem' = [NoMem EXCEPT !.alloc = TRUE]
     \/ DecGoto("resume", IF mem.alloc THEN "output" ELSE "top") /\ cur_state' = "RUN"
        /\ UNCHANGED mem
     \/ DecGoto("pause", "top") /\ cur_state' = "PAUSE" /\ UNCHANGED mem
  /\ UNCHANGED <<decRest, comVars, dec_event, input_done, output_done, callbacks>>

\* MUTATION (StopReturns): the decoder stops without an answer.
DecAnswerNever ==
  /\ \/ DecGoto("stop_done", "top") /\ UNCHANGED dec_event
     \/ DecGoto("exit_done", "none") /\ dec_event' = dec_event \cup {"EXIT_DONE"}
  /\ UNCHANGED <<decRest, comVars, cur_state, input_done, output_done, callbacks, mem>>

DecAnswer ==
  /\ \/ DecGoto("stop_done", "top") /\ dec_event' = dec_event \cup {"STOP_DONE"}
     \/ DecGoto("exit_done", "none") /\ dec_event' = dec_event \cup {"EXIT_DONE"}
  /\ UNCHANGED <<decRest, comVars, cur_state, input_done, output_done, callbacks, mem>>

\* MUTATION (TypeOK): the frame is pushed whole, whether it fits or not.
DecOutputWhole ==
  /\ \/ DecGoto("output", IF mem.output = 0 THEN "input" ELSE "notify_in")
     \/ DecGoto("decoded", "notify_top")
  /\ crashed' = (mem.output > 0 /\ "output" \notin callbacks)
  /\ ring' = ring + mem.output
  /\ fresh' = 0
  /\ mem' = [mem EXCEPT !.output = 0, !.any = TRUE]
  /\ UNCHANGED <<pcm_trans_cur_state, pcm_event, pcm_trans_tx_no_data,
                 pcm_trans_data_request_param, task, pc, resuming, failed, contended, rivals,
                 overlapped, workVars, comVars, cur_state, dec_event, input_done,
                 output_done, callbacks, left, cbVars>>

\* mp3_decoder_output_handler calls __decoder_output_callback, which pushes what
\* fits.  It is called first for what was left over, then for a new frame.
DecOutput ==
  /\ \/ DecGoto("output", IF mem.output = 0 THEN "input" ELSE "notify_in")
     \/ DecGoto("decoded", "notify_top")
  /\ crashed' = (mem.output > 0 /\ "output" \notin callbacks)
  /\ LET n == Least(mem.output, Size - ring)
     IN  /\ ring' = ring + n
         /\ fresh' = IF cpc = "count" THEN 0 ELSE Least(fresh + n, Size)
         /\ mem' = [mem EXCEPT !.output = @ - n, !.any = @ \/ n > 0]
  /\ UNCHANGED <<pcm_trans_cur_state, pcm_event, pcm_trans_tx_no_data,
                 pcm_trans_data_request_param, task, pc, resuming, failed, contended, rivals,
                 overlapped, workVars, comVars, cur_state, dec_event, input_done,
                 output_done, callbacks, left, cbVars>>

\* The first sound tells com_player_start; later pushes resume the device.
DecNotify ==
  /\ DecGoto("notify_in", "pushed_in") \/ DecGoto("notify_top", "pushed_top")
  /\ \/ /\ wait_decoder
        /\ decoder_info' = TRUE
        /\ com_event' = com_event \cup {"DECODER"}
        /\ UNCHANGED pcmVars
     \/ /\ ~wait_decoder /\ enable_pcm_or_decoder
        /\ ResumeTx(Decoder) /\ UNCHANGED <<pc, comVars>>
     \/ /\ ~wait_decoder /\ ~enable_pcm_or_decoder
        /\ UNCHANGED <<pcmVars, comVars>>
  /\ UNCHANGED <<workVars, cur_state, dec_event, input_done, output_done, callbacks, mem,
                 bufVars, cbVars>>

\* What did not fit makes the decoder pause.
DecPushed ==
  /\ \/ DecGoto("pushed_in", IF mem.output > 0 THEN "give_up" ELSE "input")
     \/ DecGoto("pushed_top", IF mem.output > 0 THEN "give_up" ELSE "top")
  /\ UNCHANGED <<decRest, comVars, cur_state, dec_event, input_done, output_done, callbacks,
                 mem>>

DecGiveUp ==
  /\ DecGoto("give_up", "top")
  /\ cur_state' = "PAUSE"
  /\ UNCHANGED <<decRest, comVars, dec_event, input_done, output_done, callbacks, mem>>

\* Frames left over are decoded; without, the input callback is called.
DecInput ==
  /\ DecGoto("input", IF mem.frames > 0 THEN "decode"
                      ELSE IF input_done THEN "finish" ELSE "reading")
  /\ crashed' = (dpc' = "reading" /\ "input" \notin callbacks)
  /\ UNCHANGED <<pcm_trans_cur_state, pcm_event, pcm_trans_tx_no_data,
                 pcm_trans_data_request_param, task, pc, resuming, failed, contended, rivals,
                 overlapped, workVars, comVars, cur_state, dec_event, input_done,
                 output_done, callbacks, mem, bufVars, cbVars>>

DecFinish ==
  /\ DecGoto("finish", "give_up")
  /\ output_done' = TRUE
  /\ UNCHANGED <<decRest, comVars, cur_state, dec_event, input_done, callbacks, mem>>

\* __player_input_callback delivers a chunk; the last of a file comes with the
\* end of the input, the last of a download before it.
DecRead ==
  /\ left > 0
  /\ DecGoto("reading", "decode")
  /\ left' = left - 1
  /\ mem' = [mem EXCEPT !.frames = ChunkFrames]
  /\ input_done' \in {input_done, left = 1 \/ input_done}
  /\ UNCHANGED <<pcmVars, workVars, comVars, cur_state, dec_event, output_done, callbacks,
                 ring, fresh, cbVars>>

\* It delivers nothing: the download has ended, is paused, or has failed.
DecReadNothing ==
  /\ DecGoto("reading", "give_up")
  /\ \/ /\ left = 0
        /\ input_done' = TRUE
        /\ UNCHANGED <<last_error, com_event>>
     \/ /\ worker = "paused"
        /\ last_error' = FALSE
        /\ UNCHANGED <<input_done, com_event>>
     \/ /\ input_done' = TRUE /\ last_error' = TRUE
        /\ com_event' = com_event \cup {"EXIT"}
  /\ UNCHANGED <<pcmVars, worker, enable_pcm_or_decoder, wait_decoder, sessions, pauses,
                 decoder_info, cur_state, dec_event, output_done, callbacks, mem, bufVars,
                 cbVars>>

\* mad_frame_decode and mad_synth_frame: a frame, an error that skips a frame, or
\* one that makes the decoder pause.
DecDecode ==
  /\ \/ /\ DecGoto("decode", "decoded")
        /\ mem' = [mem EXCEPT !.frames = @ - 1, !.output = FrameSize, !.errors = 0]
     \/ /\ DecGoto("decode", "top") \/ DecGoto("decode", "give_up")
        /\ mem' = [mem EXCEPT !.frames = @ - 1, !.errors = Least(@ + 1, MaxErrors)]
  /\ UNCHANGED <<decRest, comVars, cur_state, dec_event, input_done, output_done, callbacks>>

DecoderStep ==
  \/ DecTop \/ DecWait \/ DecSetState \/ DecAnswer \/ DecOutput \/ DecNotify \/ DecPushed
  \/ DecGiveUp \/ DecInput \/ DecFinish \/ DecRead \/ DecReadNothing \/ DecDecode

-----------------------------------------------------------------------------
(* __pcm_trans_data_request_callback, in the PCM task *)

CbGoto(from, to) == task = "look" /\ cpc = from /\ cpc' = to
cbRest == <<pcm_trans_cur_state, pcm_event, pcm_trans_data_request_param, pc, resuming,
            endVars, workVars, comVars, dpc, cur_state, input_done, output_done, callbacks,
            mem, left>>

CbCount ==
  /\ CbGoto("count", "free")
  /\ count' = ring
  /\ fresh' = 0
  /\ UNCHANGED <<cbRest, pcm_trans_tx_no_data, task, dec_event, ring, free_count, done>>

CbFreeCount ==
  /\ CbGoto("free", "done")
  /\ free_count' = Size - ring
  /\ UNCHANGED <<cbRest, pcm_trans_tx_no_data, task, dec_event, ring, fresh, count, done>>

\* mp3_decoder_is_output_done
CbOutputDone ==
  /\ CbGoto("done", "decide")
  /\ done' = output_done
  /\ UNCHANGED <<cbRest, pcm_trans_tx_no_data, task, dec_event, ring, fresh, count,
                 free_count>>

\* mp3_decoder_resume, when more than half of the ring is free
CbDecide ==
  /\ CbGoto("decide", IF /\ ~done /\ enable_pcm_or_decoder /\ free_count > count
                         /\ cur_state = "PAUSE"
                      THEN "resume" ELSE "give")
  /\ UNCHANGED <<cbRest, pcm_trans_tx_no_data, task, dec_event, ring, fresh, count,
                 free_count, done>>

CbResume ==
  /\ CbGoto("resume", "give")
  /\ dec_event' = dec_event \cup {"RESUME"}
  /\ UNCHANGED <<cbRest, pcm_trans_tx_no_data, task, ring, fresh, count, free_count, done>>

\* The callback's locals are gone.
CbReturn == count' = 0 /\ free_count' = 0 /\ done' = FALSE /\ fresh' = 0

\* MUTATION (SoundIsHeard): the count is not looked at.
CbGiveDone ==
  /\ CbGoto("give", "count")
  /\ LET n == IF done THEN 0 ELSE Least(RequestSize, ring)
     IN  /\ ring' = ring - n
         /\ task' = IF n > 0 THEN "write" ELSE "empty"
  /\ pcm_trans_tx_no_data' = (pcm_trans_tx_no_data \/ done)
  /\ CbReturn
  /\ UNCHANGED <<cbRest, dec_event>>

\* pcm_trans_set_tx_no_data, or ring_buffer_pop
CbGive ==
  /\ CbGoto("give", "count")
  /\ LET over == done /\ count = 0
         n    == IF over THEN 0 ELSE Least(RequestSize, ring)
     IN  /\ ring' = ring - n
         /\ task' = IF n > 0 THEN "write" ELSE "empty"
         /\ pcm_trans_tx_no_data' = (pcm_trans_tx_no_data \/ over)
  /\ CbReturn
  /\ UNCHANGED <<cbRest, dec_event>>

CallbackStep == CbCount \/ CbFreeCount \/ CbOutputDone \/ CbDecide \/ CbResume \/ CbGive

-----------------------------------------------------------------------------
pipeRest == <<workVars, comVars, decVars, bufVars, cbVars>>

PlayerDeviceStep  == UserStep(Player) /\ UNCHANGED pipeRest
ResumeStep(t)     == ResumeSet(t) /\ UNCHANGED pipeRest
DeviceStep        == TaskStep /\ UNCHANGED pipeRest

\* All sessions are over, or the worker waits for a device that has failed.
Quiescent ==
  /\ \/ worker = "idle" /\ sessions = MaxSessions
     \/ Hung(Player) /\ failed
  /\ UNCHANGED vars

Next ==
  \/ /\ ~crashed
     /\ \/ Begin \/ Command \/ Resume
        \/ WorkerStep \/ PlayerDeviceStep
        \/ \E t \in Users \cup Feeders : ResumeStep(t)
        \/ DecoderStep
        \/ DeviceStep \/ CallbackStep
        \/ Quiescent
  \/ crashed /\ UNCHANGED vars

\* Threads are scheduled fairly, the input callback returns and the device plays
\* on.  Commands need not come.
Fairness ==
  /\ WF_vars(~crashed /\ (WorkerStep \/ PlayerDeviceStep \/ ResumeStep(Player)))
  /\ WF_vars(~crashed /\ (DecoderStep \/ ResumeStep(Decoder)))
  /\ WF_vars(~crashed /\ (DeviceStep \/ CallbackStep))

Spec     == Init /\ [][Next]_vars
FairSpec == Spec /\ Fairness

-----------------------------------------------------------------------------
(* Properties *)

TypeOK ==
  /\ PcmTypeOK
  /\ worker \in WorkerPcs
  /\ {enable_pcm_or_decoder, wait_decoder, decoder_info, last_error} \subseteq BOOLEAN
  /\ com_event \subseteq {"DECODER", "EXIT"}
  /\ dpc \in DecPcs
  /\ cur_state \in DecStates
  /\ dec_event \subseteq DecEvents
  /\ {input_done, output_done, done} \subseteq BOOLEAN
  /\ callbacks \subseteq {"input", "output"}
  /\ mem \in Mems
  /\ {ring, fresh, count, free_count} \subseteq 0..Size
  /\ left \in 0..Chunks
  /\ cpc \in {"count", "free", "done", "decide", "resume", "give"}
  /\ sessions \in Nat /\ pauses \in Nat

\* When the end of the sound is reported to the device, everything that was in
\* the ring when the callback looked has been played: what is cut off is at most
\* what the decoder pushed since then (common_player.c 215-233).
EndReported  == ~pcm_trans_tx_no_data /\ pcm_trans_tx_no_data'
SoundIsHeard == [][EndReported => ring <= fresh]_vars

\* pcm_trans_set_tx_no_data is called when there is no data: the condition of
\* line 231 of common_player.c.
NoDataIsLeft == [][EndReported => ring = 0]_vars

\* The device is opened with the format of this session's first frame: a DECODER
\* event of an earlier session never starts it (common_player.c 88-94 and 124).
InfoKnown == pc[Player] \in {"start_state", "start_clear", "start_create"} => decoder_info

\* Nothing of a session is left when com_player_stop returns: no task of the PCM
\* output or of the decoder, no sound, no event (common_player.c 109-127).
SessionIsClean ==
  worker = "idle" => task = "none" /\ dpc = "none" /\ ring = 0 /\ com_event = {}

\* A session finds none of the one before it and leaves none of its own: no stale
\* decoder_info, task, sound or event (common_player.c 77-127).
NothingLeftOver == InfoKnown /\ SessionIsClean

\* A callback is called as NULL only while com_player_stop or com_player_pause
\* takes it away, and a thread that was never created joined only by a stop: the
\* player never crashes as a session starts, plays or is paused
\* (pcm_trans.c 202-204, mp3_decoder.c 65, 265 and 376).
CrashesOnlyInStops == crashed => worker \in Teardown \cup {"pausing"}

\* While the player is paused no sound leaves the ring (common_player.c 129-141).
PausedHolds == [][worker = "paused" /\ worker' = "paused" => ring' >= ring]_vars

\* Playing ends, by the end of the sound, an error or a command: however the
\* decoder and the device pause and resume each other, both never stay paused
\* (com_player_auto_resume repairs a resume that came too early).  A device that
\* has failed to take a write is not noticed.
PipelineEnds == worker = "play" ~> (worker \in {"stop", "pause"} \/ crashed \/ failed)

\* com_player_stop returns, unless the process crashes: the decoder answers in every
\* state it may be in, the device as long as it takes what is written.  A stop that
\* comes before the player's first decoder may crash; after an earlier session, one
\* that has made none returns.
StopReturns == worker = "stop" ~> (worker = "idle" \/ crashed \/ failed)
=============================================================================
