------------------------- MODULE PlayPipelineProofs -------------------------
(***************************************************************************)
(* Theorems about PcmTrans, for any number of workers and decoder tasks,   *)
(* and about PlayPipeline, for every size of the ring buffer, of the       *)
(* frames and of the requests, and any number of chunks, sessions, pauses  *)
(* and errors.                                                             *)
(*                                                                         *)
(* The device (PcmSpec): its type invariant, and when a stop hangs, a      *)
(* second task is created, a task outlives its session, or NULL is called. *)
(* Most of what makes its protocol right holds while no worker starts it   *)
(* as another has it, starts it or stops it (~contended): then a task has  *)
(* a worker that will stop it, and each TX_STOP one that waits for its     *)
(* answer.                                                                 *)
(*                                                                         *)
(* The pipeline (Spec, of one worker and one decoder: OneWorker): its type *)
(* invariant, NothingLeftOver, CrashesOnlyInStops, SoundIsHeard and        *)
(* PausedHolds.  To the device the pipeline is one worker that starts and  *)
(* stops it, and one decoder that resumes it: each step is one of          *)
(* PcmTrans, or leaves alone what its invariant IInv speaks of             *)
(* (DeviceKeeps).  So the task is gone when a stop has returned.  The rest *)
(* relates the places of worker and decoder, and what they have left in    *)
(* the ring buffer and in events.                                          *)
(***************************************************************************)
EXTENDS PlayPipeline, TLAPS

-----------------------------------------------------------------------------
(* The invariant of the device *)

\* Who starts the device does so alone.
StartInv ==
  ~contended => \A u \in Users : Starting(u) => \A v \in Users \ {u} : pc[v] = "idle"

\* A task belongs to a worker that has created it or is about to stop it.
Holds(u) == pc[u] = "start_resume" \/ pc[u] = "playing" \/ Stopping(u)
OwnerInv == ~contended /\ task # "none" => \E u \in Users : Holds(u)

\* A TX_STOP is pending; one has been taken and its worker has not heard of it.
\* Each is for a worker of its own.
Pending   == "TX_STOP" \in pcm_event
Taken     == task \in {"stopping", "answer"} \/ "TX_STOP_DONE" \in pcm_event
Waiter(u) == pc[u] = "stop_wait"
StopInv == ~contended =>
  /\ "TX_STOP_DONE" \in pcm_event => task = "none"
  /\ Pending \/ Taken => \E u \in Users : Waiter(u)
  /\ Pending /\ Taken => \E u, v \in Users : u # v /\ Waiter(u) /\ Waiter(v)

\* The state is PCM_TRANS_STA_EXIT before the first start and after the last stop.
Creating(u) == pc[u] \in {"start_clear", "start_create"}
ExitInv ==
  /\ pcm_trans_cur_state = "EXIT" => task \in {"none", "answer", "open"}
  /\ ~contended /\ pcm_trans_cur_state = "EXIT" => task # "open"
  /\ ~contended /\ task = "answer" => pcm_trans_cur_state = "EXIT"
  /\ ~contended => \A u \in Users : Creating(u) => pcm_trans_cur_state # "EXIT"
  /\ ~contended /\ ~failed /\ task = "none" /\ pcm_trans_cur_state # "EXIT" =>
       \E u \in Users : Creating(u)

RivalInv == ~rivals => \A u, v \in Users : Stopping(u) /\ Stopping(v) => u = v

\* A worker finds a task to stop, and the answer is on its way.
AnswerInv == ~rivals /\ ~contended /\ ~failed => \A u \in Users :
  /\ pc[u] = "stop_set" => task # "none"
  /\ Waiter(u) => Taken \/ (Pending /\ task # "none")

\* The callback that is about to be called is registered, or just being detached.
CallInv == task = "call" /\ pcm_trans_data_request_param = NONE => \E u \in Users : Stopping(u)

IInv == /\ PcmTypeOK /\ StartInv /\ OwnerInv /\ StopInv /\ ExitInv /\ RivalInv /\ AnswerInv
        /\ CallInv /\ OneTask /\ CrashesOnlyDetaching

LEMMA InvInit == PcmInit => IInv
BY UsersAssumption
   DEF PcmInit, IInv, PcmTypeOK, StartInv, OwnerInv, StopInv, ExitInv, RivalInv, AnswerInv, CallInv,
       OneTask, CrashesOnlyDetaching, Starting, Stopping, Holds, Pending, Taken, Waiter, Creating,
       PcmStates, PcmEvents, TaskPcs, UserPcs

LEMMA InvStep == IInv /\ [PcmNext]_pcmVars => IInv'
<1> SUFFICES ASSUME IInv, [PcmNext]_pcmVars PROVE IInv'
  OBVIOUS
<1> USE UsersAssumption
    DEF IInv, PcmTypeOK, StartInv, OwnerInv, StopInv, ExitInv, RivalInv, AnswerInv, CallInv,
        OneTask, CrashesOnlyDetaching, Starting, Stopping, Holds, Pending, Taken, Waiter, Creating,
        PcmStates, PcmEvents, TaskPcs, UserPcs, endVars
<1>1. ASSUME NEW u \in Users, ~(crashed \/ overlapped), CallStart(u) PROVE IInv'
  <2>1. PcmTypeOK'
    BY <1>1 DEF CallStart, UserGoto
  <2>2. StartInv'
    BY <1>1 DEF CallStart, UserGoto
  <2>3. OwnerInv'
    BY <1>1 DEF CallStart, UserGoto
  <2>4. StopInv'
    BY <1>1 DEF CallStart, UserGoto
  <2>5. ExitInv'
    BY <1>1 DEF CallStart, UserGoto
  <2>6. RivalInv'
    BY <1>1 DEF CallStart, UserGoto
  <2>7. AnswerInv'
    BY <1>1 DEF CallStart, UserGoto
  <2>8. CallInv'
    BY <1>1 DEF CallStart, UserGoto
  <2>9. OneTask'
    BY <1>1 DEF CallStart, UserGoto
  <2>10. CrashesOnlyDetaching'
    BY <1>1 DEF CallStart, UserGoto
  <2> QED  BY <2>1, <2>2, <2>3, <2>4, <2>5, <2>6, <2>7, <2>8, <2>9, <2>10
<1>2. ASSUME NEW u \in Users, ~(crashed \/ overlapped), CallStop(u) PROVE IInv'
  <2>1. PcmTypeOK'
    BY <1>2 DEF CallStop, UserGoto
  <2>2. StartInv'
    <3>1. pc'[u] = "detach" /\ \A v \in Users \ {u} : pc'[v] = pc[v]
      BY <1>2 DEF CallStop, UserGoto
    <3>2. ~contended' => \A v \in Users : ~Starting(v)
      BY <1>2 DEF CallStop
    <3> QED  BY <3>1, <3>2
  <2>3. OwnerInv'
    BY <1>2 DEF CallStop, UserGoto
  <2>4. StopInv'
    BY <1>2 DEF CallStop, UserGoto
  <2>5. ExitInv'
    BY <1>2 DEF CallStop, UserGoto
  <2>6. RivalInv'
    <3> SUFFICES ASSUME ~rivals', NEW v \in Users, NEW w \in Users, Stopping(v)', Stopping(w)'
                 PROVE  v = w
      OBVIOUS
    <3>1. \A z \in Users : z # u => pc'[z] = pc[z]
      BY <1>2 DEF CallStop, UserGoto
    <3>2. \A z \in Users : ~Stopping(z)
      BY <1>2 DEF CallStop
    <3> QED  BY <3>1, <3>2
  <2>7. AnswerInv'
    BY <1>2 DEF CallStop, UserGoto
  <2>8. CallInv'
    BY <1>2 DEF CallStop, UserGoto
  <2>9. OneTask'
    BY <1>2 DEF CallStop, UserGoto
  <2>10. CrashesOnlyDetaching'
    BY <1>2 DEF CallStop, UserGoto
  <2> QED  BY <2>1, <2>2, <2>3, <2>4, <2>5, <2>6, <2>7, <2>8, <2>9, <2>10
<1>3. ASSUME NEW u \in Users, ~(crashed \/ overlapped), Attach(u) PROVE IInv'
  BY <1>3 DEF Attach, UserGoto
<1>4. ASSUME NEW u \in Users, ~(crashed \/ overlapped), StartState(u) PROVE IInv'
  <2>1. PcmTypeOK'
    BY <1>4 DEF StartState, UserGoto
  <2>2. StartInv'
    BY <1>4 DEF StartState, UserGoto
  <2>3. OwnerInv'
    BY <1>4 DEF StartState, UserGoto
  <2>4. StopInv'
    BY <1>4 DEF StartState, UserGoto
  <2>5. ExitInv'
    BY <1>4 DEF StartState, UserGoto
  <2>6. RivalInv'
    BY <1>4 DEF StartState, UserGoto
  <2>7. AnswerInv'
    BY <1>4 DEF StartState, UserGoto
  <2>8. CallInv'
    BY <1>4 DEF StartState, UserGoto
  <2>9. OneTask'
    BY <1>4 DEF StartState, UserGoto
  <2>10. CrashesOnlyDetaching'
    BY <1>4 DEF StartState, UserGoto
  <2> QED  BY <2>1, <2>2, <2>3, <2>4, <2>5, <2>6, <2>7, <2>8, <2>9, <2>10
<1>5. ASSUME NEW u \in Users, ~(crashed \/ overlapped), StartClear(u) PROVE IInv'
  BY <1>5 DEF StartClear, UserGoto
<1>6. ASSUME NEW u \in Users, ~(crashed \/ overlapped), StartCreate(u) PROVE IInv'
  BY <1>6 DEF StartCreate, UserGoto
<1>7. ASSUME NEW u \in Users, ~(crashed \/ overlapped), StartResume(u) PROVE IInv'
  BY <1>7 DEF StartResume, UserGoto, ResumeTx
<1>8. ASSUME NEW u \in Users, ~(crashed \/ overlapped), Detach(u) PROVE IInv'
  BY <1>8 DEF Detach, UserGoto
<1>9. ASSUME NEW u \in Users, ~(crashed \/ overlapped), StopCheck(u) PROVE IInv'
  BY <1>9 DEF StopCheck, UserGoto
<1>10. ASSUME NEW u \in Users, ~(crashed \/ overlapped), StopSet(u) PROVE IInv'
  BY <1>10 DEF StopSet, UserGoto
<1>11. ASSUME NEW u \in Users, ~(crashed \/ overlapped), StopWait(u) PROVE IInv'
  BY <1>11 DEF StopWait, UserGoto
<1>12. ASSUME NEW u \in Users, ~(crashed \/ overlapped), Join(u) PROVE IInv'
  BY <1>12 DEF Join, UserGoto
<1>13. ASSUME ~(crashed \/ overlapped), TaskOpen PROVE IInv'
  BY <1>13 DEF TaskOpen, TaskGoto
<1>14. ASSUME ~(crashed \/ overlapped), TaskWait PROVE IInv'
  BY <1>14 DEF TaskWait, TaskGoto
<1>15. ASSUME ~(crashed \/ overlapped), TaskStopping PROVE IInv'
  BY <1>15 DEF TaskStopping, TaskGoto
<1>16. ASSUME ~(crashed \/ overlapped), TaskAnswer PROVE IInv'
  BY <1>16 DEF TaskAnswer, TaskGoto
<1>17. ASSUME ~(crashed \/ overlapped), TaskResumed PROVE IInv'
  BY <1>17 DEF TaskResumed, TaskGoto
<1>18. ASSUME ~(crashed \/ overlapped), TaskAsk PROVE IInv'
  BY <1>18 DEF TaskAsk, TaskGoto
<1>19. ASSUME ~(crashed \/ overlapped), TaskCall PROVE IInv'
  BY <1>19 DEF TaskCall, TaskGoto
<1>20. ASSUME ~(crashed \/ overlapped), TaskWrite PROVE IInv'
  BY <1>20 DEF TaskWrite, TaskGoto
<1>21. ASSUME ~(crashed \/ overlapped), TaskWriteFails PROVE IInv'
  BY <1>21 DEF TaskWriteFails, TaskGoto
<1>22. ASSUME ~(crashed \/ overlapped), TaskEmpty PROVE IInv'
  BY <1>22 DEF TaskEmpty, TaskGoto
<1>23. ASSUME ~(crashed \/ overlapped), Callback PROVE IInv'
  <2>1. PcmTypeOK'
    BY <1>23 DEF Callback, TaskGoto
  <2>2. StartInv'
    BY <1>23 DEF Callback, TaskGoto
  <2>3. OwnerInv'
    BY <1>23 DEF Callback, TaskGoto
  <2>4. StopInv'
    BY <1>23 DEF Callback, TaskGoto
  <2>5. ExitInv'
    BY <1>23 DEF Callback, TaskGoto
  <2>6. RivalInv'
    BY <1>23 DEF Callback, TaskGoto
  <2>7. AnswerInv'
    BY <1>23 DEF Callback, TaskGoto
  <2>8. CallInv'
    BY <1>23 DEF Callback, TaskGoto
  <2>9. OneTask'
    BY <1>23 DEF Callback, TaskGoto
  <2>10. CrashesOnlyDetaching'
    BY <1>23 DEF Callback, TaskGoto
  <2> QED  BY <2>1, <2>2, <2>3, <2>4, <2>5, <2>6, <2>7, <2>8, <2>9, <2>10
<1>24. ASSUME NEW f \in Feeders, Feed(f) PROVE IInv'
  BY <1>24 DEF Feed, ResumeTx
<1>25. ASSUME NEW t \in Users \cup Feeders, ResumeSet(t) PROVE IInv'
  BY <1>25 DEF ResumeSet
<1>26. CASE UNCHANGED pcmVars
  BY <1>26 DEF pcmVars
<1> QED
  BY <1>1, <1>2, <1>3, <1>4, <1>5, <1>6, <1>7, <1>8, <1>9, <1>10, <1>11, <1>12, <1>13, <1>14,
     <1>15, <1>16, <1>17, <1>18, <1>19, <1>20, <1>21, <1>22, <1>23, <1>24, <1>25, <1>26
  DEF PcmNext, UserStep, TaskStep, AllHung

-----------------------------------------------------------------------------
(* The theorems about the device *)

LEMMA InvCorrect == PcmSpec => []IInv
  BY InvInit, InvStep, PTL DEF PcmSpec

\* Every reachable state of the device is of its type.
THEOREM PcmTypeCorrect == PcmSpec => []PcmTypeOK
  BY InvCorrect, PTL DEF IInv

\* Unless a worker starts or resumes the device while another has it, starts it or
\* stops it, pcm_trans_start_tx never creates a second task beside the first.
THEOREM OneTaskCorrect == PcmSpec => []OneTask
  BY InvCorrect, PTL DEF IInv

\* When all have stopped the device and nobody starts it, no task is left that
\* could call a callback of a player that is gone, as long as they have used it one
\* after another.
THEOREM EndIsQuietCorrect == PcmSpec => []EndIsQuiet
<1>1. IInv => EndIsQuiet
  BY DEF IInv, OwnerInv, Holds, Stopping, EndIsQuiet
<1> QED  BY <1>1, InvCorrect, PTL

\* pcm_trans_stop_tx gets its answer unless two workers stop the device, one
\* starts or resumes it beside another, or a write has failed.
THEOREM StopAnsweredCorrect == PcmSpec => []StopAnswered
<1>1. IInv => StopAnswered
  <2> SUFFICES ASSUME IInv, NEW u \in Users, Hung(u), ~rivals, ~contended, ~failed
               PROVE  FALSE
    BY DEF StopAnswered
  <2> QED  BY DEF IInv, AnswerInv, Waiter, Taken, Pending, Hung
<1> QED  BY <1>1, InvCorrect, PTL

\* The one task calls the callback as NULL only while a worker is detaching it, also
\* when others start or resume the device at any moment.
THEOREM CrashesCorrect == PcmSpec => []CrashesOnlyDetaching
  BY InvCorrect, PTL DEF IInv

-----------------------------------------------------------------------------
(* The invariant of the pipeline *)

\* The worker finds the device as its calls have left it.
UserInv == LET at == pc[Player] IN
  /\ worker \in {"starting", "resuming"} =>
       at \in {"attach", "start_state", "start_clear", "start_create", "start_resume",
               "playing"}
  /\ worker \in {"play", "auto", "pause"} => at = "playing"
  /\ worker = "stop" => at \in {"idle", "playing"}
  /\ worker \in {"pausing", "stopping"} =>
       at \in {"detach", "stop_check", "stop_set", "stop_wait", "join", "idle"}
  /\ worker \notin {"starting", "resuming", "play", "auto", "pause", "stop", "pausing",
                    "stopping"} => at = "idle"

\* One worker does not contend with itself; the invariant of PcmTrans holds until a crash.
DeviceInv == /\ PcmTypeOK /\ ~contended /\ ~rivals /\ ~overlapped
             /\ ~crashed => IInv

\* Between sessions there is no decoder; it does nothing before its callbacks are
\* registered, and keeps them until the worker tears the session down.
Sounding == {"starting", "play", "auto", "pause", "pausing", "pause_set", "paused", "resuming"}
Loaded   == {"start", "wait"} \cup Sounding
DecoderInv ==
  /\ worker \in {"idle", "init", "clear"} => dpc = "none"
  /\ worker = "register" => /\ dpc \in {"top", "wait"} /\ mem = NoMem
                            /\ dec_event = {} /\ cur_state = "IDLE"
  /\ worker \in Loaded => callbacks = {"input", "output"}
  /\ dpc = "decode" => mem.frames > 0

\* A DECODER event is of this session, and the device starts after it.
SessionInv ==
  /\ worker = "idle" => ring = 0 /\ com_event = {}
  /\ "DECODER" \in com_event => decoder_info
  /\ worker \in Sounding => decoder_info

\* What the callback has not counted was pushed since.
HeardInv == cpc # "count" => ring <= count + fresh

\* All of the state but the device.
WorkerTypeOK ==
  /\ worker \in WorkerPcs
  /\ enable_pcm_or_decoder \in BOOLEAN /\ wait_decoder \in BOOLEAN
  /\ decoder_info \in BOOLEAN /\ last_error \in BOOLEAN
  /\ com_event \subseteq {"DECODER", "EXIT"}
  /\ sessions \in Nat /\ pauses \in Nat

DecoderTypeOK ==
  /\ dpc \in DecPcs
  /\ cur_state \in DecStates
  /\ dec_event \subseteq DecEvents
  /\ input_done \in BOOLEAN /\ output_done \in BOOLEAN
  /\ callbacks \subseteq {"input", "output"}
  /\ mem \in Mems

BufferTypeOK ==
  /\ ring \in 0..Size /\ fresh \in 0..Size /\ count \in 0..Size /\ free_count \in 0..Size
  /\ left \in 0..Chunks
  /\ cpc \in {"count", "free", "done", "decide", "resume", "give"}
  /\ done \in BOOLEAN

PipeTypeOK == WorkerTypeOK /\ DecoderTypeOK /\ BufferTypeOK

PipeInv == /\ PipeTypeOK /\ UserInv /\ DecoderInv /\ SessionInv /\ HeardInv
           /\ CrashesOnlyInStops

\* The type invariant of the module is the device's and the pipeline's.
LEMMA PipeTypes == TypeOK <=> PcmTypeOK /\ PipeTypeOK
BY DEF TypeOK, PipeTypeOK, WorkerTypeOK, DecoderTypeOK, BufferTypeOK

\* The sizes and the bounds are numbers.
LEMMA Sizes ==
  /\ Size \in Nat \ {0} /\ FrameSize \in Nat \ {0} /\ RequestSize \in Nat \ {0}
  /\ ChunkFrames \in Nat \ {0} /\ MaxErrors \in Nat \ {0}
  /\ Chunks \in Nat /\ MaxSessions \in Nat /\ MaxPauses \in Nat
BY UnitsAssumption, PipelineBounds

\* A decoder that has allocated nothing is one of those there may be.
LEMMA NoMemType == NoMem \in Mems
BY Sizes DEF NoMem, Mems

\* The invariant holds before the first session.
LEMMA PipeInit ==
  ASSUME OneWorker, Init
  PROVE  DeviceInv /\ PipeInv
<1>1. IInv
  BY InvInit DEF Init
<1>2. DeviceInv
  BY <1>1 DEF IInv, Init, PcmInit, DeviceInv
<1>3. PipeTypeOK
  <2>1. WorkerTypeOK
    BY DEF Init, WorkerTypeOK, WorkerPcs
  <2>2. DecoderTypeOK
    BY NoMemType DEF Init, DecoderTypeOK, DecPcs, DecStates
  <2>3. BufferTypeOK
    <3>1. 0 \in 0..Size /\ 0 \in 0..Chunks
      BY Sizes
    <3> QED  BY <3>1 DEF Init, BufferTypeOK
  <2> QED  BY <2>1, <2>2, <2>3 DEF PipeTypeOK
<1>4. UserInv /\ DecoderInv /\ SessionInv /\ HeardInv /\ CrashesOnlyInStops
  BY DEF OneWorker, Init, PcmInit, UserInv, DecoderInv, SessionInv, HeardInv, CrashesOnlyInStops,
         Sounding, Loaded
<1> QED  BY <1>2, <1>3, <1>4 DEF PipeInv

-----------------------------------------------------------------------------
(* The device *)

\* A step of PcmTrans keeps its invariant, and one worker does not contend with itself.
LEMMA OneUserStep ==
  ASSUME OneWorker, DeviceInv, ~crashed, [PcmNext]_pcmVars
  PROVE  DeviceInv'
<1>1. IInv /\ IInv'
  BY InvStep DEF DeviceInv
<1>2. ASSUME NEW u \in Users, CallStart(u) \/ CallStop(u) PROVE ~contended' /\ ~rivals'
  <2>1. \A v \in Users : ~Starting(v) /\ ~Stopping(v)
    BY <1>2 DEF OneWorker, CallStart, CallStop, UserGoto, Starting, Stopping
  <2>2. Users \ {u} = {}
    BY DEF OneWorker
  <2> QED  BY <1>2, <2>1, <2>2 DEF CallStart, CallStop, endVars, DeviceInv, PcmTypeOK
<1>3. ASSUME NEW u \in Users, UserStep(u) PROVE ~contended' /\ ~rivals'
  BY <1>3 DEF UserStep, DeviceInv, endVars, Attach, StartState, StartClear, StartCreate,
              StartResume, ResumeTx, Detach, StopCheck, StopSet, StopWait, Join
<1>4. ASSUME TaskStep \/ Callback PROVE ~contended' /\ ~rivals'
  BY <1>4 DEF TaskStep, Callback, DeviceInv, endVars, TaskOpen, TaskWait, TaskStopping,
              TaskAnswer, TaskResumed, TaskAsk, TaskCall, TaskWrite, TaskWriteFails,
              TaskEmpty
<1>5. ASSUME NEW t, ResumeSet(t) \/ Feed(t) PROVE ~contended' /\ ~rivals'
  BY <1>5 DEF ResumeSet, Feed, ResumeTx, DeviceInv, endVars
<1>6. ~contended' /\ ~rivals'
  BY <1>2, <1>3, <1>4, <1>5 DEF PcmNext, AllHung, pcmVars, DeviceInv
<1> QED  BY <1>1, <1>6 DEF IInv, OneTask, DeviceInv

\* Who resumes the device does not change what its invariant speaks of.
LEMMA ResumeKeeps ==
  ASSUME DeviceInv, ~crashed, NEW t \in Users \cup Feeders, ResumeTx(t), pc' = pc
  PROVE  DeviceInv'
BY DEF DeviceInv, IInv, PcmTypeOK, StartInv, OwnerInv, StopInv, ExitInv, RivalInv,
       AnswerInv, CallInv, OneTask, CrashesOnlyDetaching, Starting, Stopping, Holds,
       Pending, Taken, Waiter, Creating, ResumeTx, endVars

\* The decoder may crash, or the worker that stops it; nothing happens after it.
LEMMA CrashKeeps ==
  ASSUME OneWorker, DeviceInv, ~crashed, crashed' \in BOOLEAN,
         UNCHANGED <<pcm_trans_cur_state, pcm_event, pcm_trans_tx_no_data,
                     pcm_trans_data_request_param, task, pc, resuming, failed, contended, rivals,
                     overlapped>>
  PROVE  DeviceInv'
<1>1. CASE crashed'
  BY <1>1 DEF DeviceInv, PcmTypeOK
<1>2. CASE ~crashed'
  <2>1. UNCHANGED pcmVars
    BY <1>2 DEF DeviceInv, PcmTypeOK, pcmVars
  <2> QED  BY <2>1, OneUserStep
<1> QED  BY <1>1, <1>2

\* Each step of the pipeline is a step of the device, or does not matter to it.
LEMMA DeviceKeeps ==
  ASSUME OneWorker, DeviceInv, PipeInv, [Next]_vars
  PROVE  DeviceInv'
<1> SUFFICES ASSUME ~crashed PROVE DeviceInv'
  <2>1. DeviceInv /\ crashed /\ UNCHANGED pcmVars => DeviceInv'
    BY DEF pcmVars, DeviceInv, PcmTypeOK
  <2> QED  BY <2>1 DEF Next, vars
<1>p. Player \in Users /\ Decoder \in Feeders /\ Users = {Player} /\ ~overlapped
  BY DEF OneWorker, DeviceInv
<1>1. CASE UNCHANGED pcmVars
  BY <1>1, OneUserStep
<1>2. ASSUME Halt PROVE DeviceInv'
  <2>1. CallStop(Player)
    BY <1>2, <1>p
       DEF Halt, WorkerGoto, StopTx, pcmRest, endVars, CallStop, UserGoto, Starting,
           Stopping, DeviceInv, PcmTypeOK
  <2> QED  BY <2>1, <1>p, OneUserStep DEF PcmNext
<1>3. ASSUME Resume \/ WaitDecoder PROVE DeviceInv'
  <2>1. CallStart(Player) \/ UNCHANGED pcmVars
    BY <1>3, <1>p
       DEF Resume, WaitDecoder, WorkerGoto, StartTx, pcmRest, endVars, pcmVars, CallStart,
           UserGoto, Starting, Stopping, DeviceInv, PcmTypeOK, PipeInv, UserInv
  <2> QED  BY <2>1, <1>p, OneUserStep DEF PcmNext
<1>4. ASSUME AutoResume PROVE DeviceInv'
  BY <1>1, <1>4, <1>p, ResumeKeeps DEF AutoResume
<1>5. ASSUME DecNotify PROVE DeviceInv'
  BY <1>1, <1>5, <1>p, ResumeKeeps DEF DecNotify
<1>6. ASSUME DecOutput \/ DecInput PROVE DeviceInv'
  BY <1>6, CrashKeeps DEF DecOutput, DecInput
<1>7. ASSUME PlayerDeviceStep \/ DeviceStep PROVE DeviceInv'
  BY <1>7, <1>p, OneUserStep DEF PlayerDeviceStep, DeviceStep, PcmNext
<1>8. ASSUME NEW t \in Users \cup Feeders, ResumeStep(t) PROVE DeviceInv'
  BY <1>8, <1>p, OneUserStep DEF ResumeStep, PcmNext
<1>9. ASSUME CallbackStep PROVE DeviceInv'
  <2>1. CASE CbGive
    <3> DEFINE over == done /\ count = 0
               n    == IF over THEN 0 ELSE Least(RequestSize, ring)
    <3>1. /\ task = "look" /\ task' = (IF n > 0 THEN "write" ELSE "empty")
          /\ pcm_trans_tx_no_data' = (pcm_trans_tx_no_data \/ over)
          /\ UNCHANGED <<pcm_trans_cur_state, pcm_event, pcm_trans_data_request_param, pc,
                         resuming, endVars>>
      BY <2>1 DEF CbGive, CbGoto, cbRest
    <3>2. n > 0 => ~over
      OBVIOUS
    <3> HIDE DEF over, n
    <3>3. ASSUME n > 0 PROVE Callback
      <4>1. pcm_trans_tx_no_data' = pcm_trans_tx_no_data
        BY <3>1, <3>2, <3>3, Zenon DEF DeviceInv, PcmTypeOK
      <4> QED  BY <3>1, <3>3, <4>1 DEF Callback, TaskGoto
    <3>4. ASSUME ~(n > 0) PROVE Callback
      <4>1. pcm_trans_tx_no_data' \in {pcm_trans_tx_no_data, TRUE}
        BY <3>1, Zenon DEF DeviceInv, PcmTypeOK
      <4> QED  BY <3>1, <3>4, <4>1 DEF Callback, TaskGoto
    <3>5. Callback
      BY <3>3, <3>4
    <3> QED  BY <3>5, <1>p, OneUserStep DEF PcmNext
  <2>2. CASE CbCount \/ CbFreeCount \/ CbOutputDone \/ CbDecide \/ CbResume
    BY <1>1, <2>2
       DEF CbCount, CbFreeCount, CbOutputDone, CbDecide, CbResume, cbRest, endVars, pcmVars
  <2> QED  BY <1>9, <2>1, <2>2 DEF CallbackStep
<1>j. ASSUME DecoderJoinNothing PROVE DeviceInv'
  BY <1>j, CrashKeeps DEF DecoderJoinNothing
<1>10. ASSUME WorkerStep PROVE DeviceInv'
  BY <1>1, <1>2, <1>3, <1>4, <1>j, <1>10
     DEF WorkerStep, DecoderInit, RegisterCallbacks, DecoderStart, Started, Monitor,
         DecoderPause, DecoderPauseSet, Unregister, DecoderStop, DecoderStopped,
         DecoderExit, DecoderJoin, Clear
<1>11. ASSUME DecoderStep PROVE DeviceInv'
  BY <1>1, <1>5, <1>6, <1>11
     DEF DecoderStep, decRest, DecTop, DecWait, DecSetState, DecAnswer, DecPushed,
         DecGiveUp, DecFinish, DecRead, DecReadNothing, DecDecode
<1> QED  BY <1>1, <1>3, <1>7, <1>8, <1>9, <1>10, <1>11
         DEF Next, Begin, Command, Quiescent, vars

-----------------------------------------------------------------------------
(* The pipeline *)

\* The decoder works for a session, or for one that is being torn down.
LEMMA AtWork ==
  ASSUME PipeInv, dpc \notin {"none", "top", "wait"}
  PROVE  worker \in Loaded \cup Teardown
BY DEF PipeInv, PipeTypeOK, WorkerTypeOK, WorkerPcs, DecoderInv, Loaded, Sounding, Teardown

\* Nothing asks for data while the worker is outside its device calls.
LEMMA IdleDevice ==
  ASSUME OneWorker, DeviceInv, ~crashed, pc[Player] = "idle"
  PROVE  task = "none"
BY DEF OneWorker, DeviceInv, IInv, OwnerInv, Holds, Stopping

\* A smaller number is one of the two, and a pop or a push fits.
LEMMA LeastType ==
  ASSUME NEW a \in Nat, NEW b \in Nat
  PROVE  /\ Least(a, b) \in 0..a /\ Least(a, b) \in 0..b
         /\ Least(a, b) = a \/ Least(a, b) = b
BY DEF Least

\* The callback pops what there is at most.
LEMMA CbPops ==
  ASSUME BufferTypeOK, CbGive
  PROVE  ring' \in 0..ring
<1>1. CASE done /\ count = 0
  <2>1. ring' = ring - 0
    BY <1>1 DEF CbGive
  <2> QED  BY <2>1 DEF BufferTypeOK
<1>2. CASE ~(done /\ count = 0)
  <2>1. ring' = ring - Least(RequestSize, ring)
    BY <1>2 DEF CbGive
  <2>2. Least(RequestSize, ring) \in 0..ring
    BY LeastType, Sizes DEF BufferTypeOK
  <2> QED  BY <2>1, <2>2 DEF BufferTypeOK
<1> QED  BY <1>1, <1>2

\* It leaves the ring and its own variables in their types.
LEMMA CbTypes ==
  ASSUME BufferTypeOK, CbGive
  PROVE  BufferTypeOK'
<1>1. ring' \in 0..Size
  BY CbPops, Sizes DEF BufferTypeOK
<1>2. /\ fresh' = 0 /\ count' = 0 /\ free_count' = 0 /\ done' = FALSE
      /\ cpc' = "count" /\ left' = left
  BY DEF CbGive, CbReturn, CbGoto, cbRest
<1>3. 0 \in 0..Size
  BY Sizes
<1> QED  BY <1>1, <1>2, <1>3 DEF BufferTypeOK

\* The steps of the worker.
LEMMA PipeWorker ==
  ASSUME OneWorker, DeviceInv, PipeInv, ~crashed, Begin \/ Command \/ Resume \/ WorkerStep
  PROVE  PipeInv'
<1> USE Sizes, NoMemType
    DEF OneWorker, DeviceInv, PcmTypeOK, PipeInv, PipeTypeOK, WorkerTypeOK, DecoderTypeOK,
        BufferTypeOK, UserInv, DecoderInv, SessionInv, HeardInv, CrashesOnlyInStops,
        Sounding, Loaded, Teardown, WorkerPcs, DecPcs, DecStates, DecEvents, UserPcs,
        pcmVars, workVars, comVars, decVars, bufVars, cbVars, endVars, WorkerGoto, pcmRest
<1>1. ASSUME Begin PROVE PipeInv'
  <2>1. DecoderTypeOK' /\ BufferTypeOK'
    BY <1>1 DEF Begin
  <2>2. UserInv' /\ DecoderInv' /\ SessionInv' /\ HeardInv' /\ CrashesOnlyInStops'
    BY <1>1 DEF Begin
  <2>3. WorkerTypeOK'
    <3>1. /\ last_error' \in BOOLEAN /\ com_event' = com_event /\ pauses' = pauses
          /\ sessions' = sessions + 1
      BY <1>1 DEF Begin
    <3>2. worker' \in {"init", "stop"}
      BY <1>1 DEF Begin
    <3>3. /\ wait_decoder' \in BOOLEAN /\ enable_pcm_or_decoder' \in BOOLEAN
          /\ decoder_info' \in BOOLEAN
      BY <1>1 DEF Begin
    <3> QED  BY <3>1, <3>2, <3>3
  <2> QED  BY <2>1, <2>2, <2>3
<1>2. ASSUME Command PROVE PipeInv'
  BY <1>2 DEF Command
<1>3. ASSUME Resume PROVE PipeInv'
  BY <1>3 DEF Resume, StartTx
<1>4. ASSUME DecoderInit PROVE PipeInv'
  <2>1. WorkerTypeOK' /\ DecoderTypeOK' /\ BufferTypeOK'
    BY <1>4 DEF DecoderInit
  <2>2. UserInv' /\ DecoderInv' /\ SessionInv' /\ HeardInv' /\ CrashesOnlyInStops'
    BY <1>4 DEF DecoderInit
  <2> QED  BY <2>1, <2>2
<1>5. ASSUME RegisterCallbacks PROVE PipeInv'
  BY <1>5 DEF RegisterCallbacks
<1>6. ASSUME DecoderStart PROVE PipeInv'
  <2>1. WorkerTypeOK'
    BY <1>6 DEF DecoderStart
  <2>2. DecoderTypeOK'
    BY <1>6 DEF DecoderStart
  <2>3. BufferTypeOK'
    BY <1>6 DEF DecoderStart
  <2>4. UserInv' /\ DecoderInv' /\ SessionInv' /\ HeardInv' /\ CrashesOnlyInStops'
    BY <1>6 DEF DecoderStart
  <2> QED  BY <2>1, <2>2, <2>3, <2>4
<1>7. ASSUME WaitDecoder PROVE PipeInv'
  BY <1>7 DEF WaitDecoder, StartTx
<1>8. ASSUME Started PROVE PipeInv'
  <2>1. WorkerTypeOK'
    BY <1>8 DEF Started
  <2>2. DecoderTypeOK'
    BY <1>8 DEF Started
  <2>3. BufferTypeOK'
    BY <1>8 DEF Started
  <2>4. UserInv' /\ DecoderInv' /\ SessionInv' /\ HeardInv' /\ CrashesOnlyInStops'
    BY <1>8 DEF Started
  <2> QED  BY <2>1, <2>2, <2>3, <2>4
<1>9. ASSUME Monitor PROVE PipeInv'
  BY <1>9 DEF Monitor, AfterMonitor
<1>10. ASSUME AutoResume PROVE PipeInv'
  BY <1>10 DEF AutoResume, AfterMonitor, ResumeTx
<1>11. ASSUME Halt PROVE PipeInv'
  <2>1. WorkerTypeOK'
    BY <1>11 DEF Halt, StopTx
  <2>2. DecoderTypeOK'
    BY <1>11 DEF Halt, StopTx
  <2>3. BufferTypeOK'
    BY <1>11 DEF Halt, StopTx
  <2>4. UserInv' /\ DecoderInv' /\ SessionInv' /\ HeardInv' /\ CrashesOnlyInStops'
    BY <1>11 DEF Halt, StopTx
  <2> QED  BY <2>1, <2>2, <2>3, <2>4
<1>12. ASSUME DecoderPause PROVE PipeInv'
  BY <1>12 DEF DecoderPause
<1>13. ASSUME DecoderPauseSet PROVE PipeInv'
  BY <1>13 DEF DecoderPauseSet
<1>14. ASSUME Unregister PROVE PipeInv'
  <2>1. WorkerTypeOK'
    BY <1>14 DEF Unregister
  <2>2. DecoderTypeOK'
    BY <1>14 DEF Unregister
  <2>3. BufferTypeOK'
    BY <1>14 DEF Unregister
  <2>4. UserInv' /\ DecoderInv' /\ SessionInv' /\ HeardInv' /\ CrashesOnlyInStops'
    BY <1>14 DEF Unregister
  <2> QED  BY <2>1, <2>2, <2>3, <2>4
<1>15. ASSUME DecoderStop PROVE PipeInv'
  BY <1>15 DEF DecoderStop
<1>16. ASSUME DecoderStopped PROVE PipeInv'
  BY <1>16 DEF DecoderStopped
<1>17. ASSUME DecoderExit PROVE PipeInv'
  BY <1>17 DEF DecoderExit
<1>18. ASSUME DecoderJoin PROVE PipeInv'
  BY <1>18 DEF DecoderJoin
<1>19. ASSUME Clear PROVE PipeInv'
  BY <1>19 DEF Clear
<1>20. ASSUME DecoderJoinNothing PROVE PipeInv'
  <2>1. WorkerTypeOK' /\ DecoderTypeOK' /\ BufferTypeOK'
    BY <1>20 DEF DecoderJoinNothing
  <2>2. UserInv' /\ DecoderInv' /\ SessionInv' /\ HeardInv' /\ CrashesOnlyInStops'
    BY <1>20 DEF DecoderJoinNothing
  <2> QED  BY <2>1, <2>2
<1> QED  BY <1>1, <1>2, <1>3, <1>4, <1>5, <1>6, <1>7, <1>8, <1>9, <1>10, <1>11, <1>12, <1>13,
            <1>14, <1>15, <1>16, <1>17, <1>18, <1>19, <1>20
         DEF WorkerStep

\* The steps of the decoder.
LEMMA PipeDecoder ==
  ASSUME OneWorker, DeviceInv, PipeInv, ~crashed, DecoderStep
  PROVE  PipeInv'
<1> USE Sizes, NoMemType
    DEF DeviceInv, PcmTypeOK, PipeInv, PipeTypeOK, WorkerTypeOK, DecoderTypeOK,
        BufferTypeOK, UserInv, DecoderInv, SessionInv, HeardInv, CrashesOnlyInStops,
        Sounding, Loaded, Teardown, WorkerPcs, DecPcs, DecStates, DecEvents, UserPcs,
        pcmVars, workVars, comVars, decVars, bufVars, cbVars, endVars, DecGoto, decRest
<1>1. ASSUME DecTop PROVE PipeInv'
  <2>1. WorkerTypeOK'
    BY <1>1 DEF DecTop, TooBad, NoMem
  <2>2. DecoderTypeOK'
    BY <1>1 DEF DecTop, TooBad, NoMem
  <2>3. BufferTypeOK'
    BY <1>1 DEF DecTop, TooBad, NoMem
  <2>4. UserInv' /\ DecoderInv' /\ SessionInv' /\ HeardInv' /\ CrashesOnlyInStops'
    BY <1>1 DEF DecTop, TooBad, NoMem
  <2> QED  BY <2>1, <2>2, <2>3, <2>4
<1>2. ASSUME DecWait PROVE PipeInv'
  BY <1>2 DEF DecWait
<1>3. ASSUME DecSetState PROVE PipeInv'
  <2>1. WorkerTypeOK'
    BY <1>3 DEF DecSetState, Mems, NoMem
  <2>2. DecoderTypeOK'
    <3>1. mem' = mem \/ mem' = NoMem \/ mem' = [NoMem EXCEPT !.alloc = TRUE]
      BY <1>3 DEF DecSetState
    <3>2. [NoMem EXCEPT !.alloc = TRUE] \in Mems
      BY DEF Mems, NoMem
    <3>3. mem' \in Mems
      BY <3>1, <3>2
    <3> QED  BY <1>3, <3>3 DEF DecSetState
  <2>3. BufferTypeOK'
    BY <1>3 DEF DecSetState, Mems, NoMem
  <2>4. UserInv' /\ DecoderInv' /\ SessionInv' /\ HeardInv' /\ CrashesOnlyInStops'
    BY <1>3 DEF DecSetState, Mems, NoMem
  <2> QED  BY <2>1, <2>2, <2>3, <2>4
<1>4. ASSUME DecAnswer PROVE PipeInv'
  <2>1. WorkerTypeOK'
    BY <1>4 DEF DecAnswer
  <2>2. DecoderTypeOK'
    BY <1>4 DEF DecAnswer
  <2>3. BufferTypeOK'
    BY <1>4 DEF DecAnswer
  <2>4. UserInv' /\ DecoderInv' /\ SessionInv' /\ HeardInv' /\ CrashesOnlyInStops'
    BY <1>4 DEF DecAnswer
  <2> QED  BY <2>1, <2>2, <2>3, <2>4
<1>5. ASSUME DecOutput PROVE PipeInv'
  <2>1. WorkerTypeOK'
    BY <1>5 DEF DecOutput
  <2>2. UserInv' /\ DecoderInv' /\ SessionInv'
    BY <1>5 DEF DecOutput
  <2>3. DecoderTypeOK'
    <3>1. mem.output \in Nat /\ Size - ring \in Nat
      BY DEF Mems
    <3>2. PICK n \in 0..mem.output : mem' = [mem EXCEPT !.output = @ - n, !.any = @ \/ n > 0]
      BY <1>5, <3>1, LeastType DEF DecOutput
    <3>3. PICK b \in BOOLEAN : mem' = [mem EXCEPT !.output = mem.output - n, !.any = b]
      BY <3>2
    <3>4. mem.output - n \in 0..FrameSize
      BY <3>1 DEF Mems
    <3>5. mem' \in Mems
      BY <3>3, <3>4 DEF Mems
    <3> QED  BY <1>5, <3>5 DEF DecOutput
  <2>4. BufferTypeOK'
    <3>1. mem.output \in Nat /\ Size - ring \in Nat
      BY DEF Mems
    <3>2. PICK n \in 0..(Size - ring) :
            /\ ring' = ring + n
            /\ fresh' = IF cpc = "count" THEN 0 ELSE Least(fresh + n, Size)
      BY <1>5, <3>1, LeastType DEF DecOutput
    <3>3. fresh' \in 0..Size
      <4>1. fresh + n \in Nat /\ Size \in Nat
        BY <3>2
      <4>2. Least(fresh + n, Size) \in 0..Size
        BY <4>1, LeastType
      <4> QED  BY <3>2, <4>2
    <3>4. ring' \in 0..Size
      BY <3>1, <3>2
    <3>5. UNCHANGED <<count, free_count, cpc, done, left>>
      BY <1>5 DEF DecOutput
    <3> QED  BY <3>3, <3>4, <3>5
  <2>5. HeardInv'
    <3>1. mem.output \in Nat /\ Size - ring \in Nat
      BY DEF Mems
    <3>2. PICK n \in 0..(Size - ring) :
            /\ ring' = ring + n
            /\ fresh' = IF cpc = "count" THEN 0 ELSE Least(fresh + n, Size)
      BY <1>5, <3>1, LeastType DEF DecOutput
    <3>3. cpc' = cpc /\ count' = count
      BY <1>5 DEF DecOutput
    <3> QED  BY <3>2, <3>3 DEF Least
  <2>6. CrashesOnlyInStops'
    <3>1. worker \in Loaded \cup Teardown
      BY <1>5, AtWork DEF DecOutput
    <3>2. worker' = worker /\ (crashed' => "output" \notin callbacks)
      BY <1>5 DEF DecOutput
    <3> QED  BY <3>1, <3>2
  <2> QED  BY <2>1, <2>2, <2>3, <2>4, <2>5, <2>6
<1>6. ASSUME DecNotify PROVE PipeInv'
  <2>1. WorkerTypeOK'
    BY <1>6 DEF DecNotify, ResumeTx
  <2>2. DecoderTypeOK'
    BY <1>6 DEF DecNotify, ResumeTx
  <2>3. BufferTypeOK'
    BY <1>6 DEF DecNotify, ResumeTx
  <2>4. UserInv' /\ DecoderInv' /\ SessionInv' /\ HeardInv' /\ CrashesOnlyInStops'
    BY <1>6 DEF DecNotify, ResumeTx
  <2> QED  BY <2>1, <2>2, <2>3, <2>4
<1>7. ASSUME DecPushed PROVE PipeInv'
  BY <1>7 DEF DecPushed
<1>8. ASSUME DecGiveUp PROVE PipeInv'
  BY <1>8 DEF DecGiveUp
<1>9. ASSUME DecInput PROVE PipeInv'
  <2>1. WorkerTypeOK' /\ DecoderTypeOK' /\ BufferTypeOK'
    BY <1>9 DEF DecInput
  <2>2. UserInv' /\ DecoderInv' /\ SessionInv' /\ HeardInv'
    BY <1>9 DEF DecInput
  <2>3. CrashesOnlyInStops'
    <3>1. worker \in Loaded \cup Teardown
      BY <1>9, AtWork DEF DecInput
    <3>2. worker' = worker /\ (crashed' => "input" \notin callbacks)
      BY <1>9 DEF DecInput
    <3> QED  BY <3>1, <3>2
  <2> QED  BY <2>1, <2>2, <2>3
<1>10. ASSUME DecFinish PROVE PipeInv'
  BY <1>10 DEF DecFinish
<1>11. ASSUME DecRead PROVE PipeInv'
  <2>1. WorkerTypeOK' /\ BufferTypeOK'
    BY <1>11 DEF DecRead
  <2>2. UserInv' /\ DecoderInv' /\ SessionInv' /\ HeardInv' /\ CrashesOnlyInStops'
    BY <1>11 DEF DecRead
  <2>3. DecoderTypeOK'
    <3>1. mem' \in Mems
      BY <1>11 DEF DecRead, Mems
    <3>2. dpc' = "decode" /\ input_done' \in BOOLEAN
      BY <1>11 DEF DecRead
    <3> QED  BY <1>11, <3>1, <3>2 DEF DecRead
  <2> QED  BY <2>1, <2>2, <2>3
<1>12. ASSUME DecReadNothing PROVE PipeInv'
  <2>1. WorkerTypeOK'
    BY <1>12 DEF DecReadNothing
  <2>2. DecoderTypeOK'
    BY <1>12 DEF DecReadNothing
  <2>3. BufferTypeOK'
    BY <1>12 DEF DecReadNothing
  <2>4. UserInv' /\ DecoderInv' /\ SessionInv' /\ HeardInv' /\ CrashesOnlyInStops'
    BY <1>12 DEF DecReadNothing
  <2> QED  BY <2>1, <2>2, <2>3, <2>4
<1>13. ASSUME DecDecode PROVE PipeInv'
  <2>1. WorkerTypeOK' /\ BufferTypeOK'
    BY <1>13 DEF DecDecode
  <2>2. UserInv' /\ DecoderInv' /\ SessionInv' /\ HeardInv' /\ CrashesOnlyInStops'
    BY <1>13 DEF DecDecode
  <2>3. DecoderTypeOK'
    <3>1. mem.frames \in 1..ChunkFrames /\ mem.errors \in 0..MaxErrors
      BY <1>13 DEF DecDecode, Mems
    <3>2. Least(mem.errors + 1, MaxErrors) \in 0..MaxErrors
      BY <3>1 DEF Least
    <3>3. \/ mem' = [mem EXCEPT !.frames = @ - 1, !.output = FrameSize, !.errors = 0]
          \/ mem' = [mem EXCEPT !.frames = @ - 1, !.errors = Least(mem.errors + 1, MaxErrors)]
      BY <1>13 DEF DecDecode
    <3>4. mem.frames - 1 \in 0..ChunkFrames /\ FrameSize \in 0..FrameSize /\ 0 \in 0..MaxErrors
      BY <3>1
    <3>5. mem' \in Mems
      <4>1. CASE mem' = [mem EXCEPT !.frames = @ - 1, !.output = FrameSize, !.errors = 0]
        BY <3>4, <4>1 DEF Mems
      <4>2. CASE mem' = [mem EXCEPT !.frames = @ - 1, !.errors = Least(mem.errors + 1, MaxErrors)]
        BY <3>2, <3>4, <4>2 DEF Mems
      <4> QED  BY <3>3, <4>1, <4>2
    <3> QED  BY <1>13, <3>5 DEF DecDecode
  <2> QED  BY <2>1, <2>2, <2>3
<1> QED  BY <1>1, <1>2, <1>3, <1>4, <1>5, <1>6, <1>7, <1>8, <1>9, <1>10, <1>11, <1>12, <1>13
         DEF DecoderStep

\* The steps of the callback.
LEMMA PipeCallback ==
  ASSUME OneWorker, DeviceInv, PipeInv, ~crashed, CallbackStep
  PROVE  PipeInv'
<1> USE Sizes, NoMemType
    DEF DeviceInv, PcmTypeOK, PipeInv, PipeTypeOK, WorkerTypeOK, DecoderTypeOK,
        BufferTypeOK, UserInv, DecoderInv, SessionInv, HeardInv, CrashesOnlyInStops,
        Sounding, Loaded, Teardown, WorkerPcs, DecPcs, DecStates, DecEvents, UserPcs,
        pcmVars, workVars, comVars, decVars, bufVars, cbVars, endVars, CbGoto, cbRest
<1>1. ASSUME CbCount PROVE PipeInv'
  BY <1>1 DEF CbCount
<1>2. ASSUME CbFreeCount PROVE PipeInv'
  BY <1>2 DEF CbFreeCount
<1>3. ASSUME CbOutputDone PROVE PipeInv'
  BY <1>3 DEF CbOutputDone
<1>4. ASSUME CbDecide PROVE PipeInv'
  BY <1>4 DEF CbDecide
<1>5. ASSUME CbResume PROVE PipeInv'
  <2>1. WorkerTypeOK' /\ DecoderTypeOK' /\ BufferTypeOK'
    BY <1>5 DEF CbResume
  <2>2. UserInv' /\ SessionInv' /\ HeardInv' /\ CrashesOnlyInStops'
    BY <1>5 DEF CbResume
  <2>3. DecoderInv'
    <3>1. worker # "register"
      BY <1>5, IdleDevice DEF CbResume
    <3> QED  BY <1>5, <3>1 DEF CbResume
  <2> QED  BY <2>1, <2>2, <2>3
<1>6. ASSUME CbGive PROVE PipeInv'
  <2>1. WorkerTypeOK' /\ DecoderTypeOK'
    BY <1>6 DEF CbGive, CbReturn
  <2>2. UserInv' /\ DecoderInv' /\ HeardInv' /\ CrashesOnlyInStops'
    BY <1>6 DEF CbGive, CbReturn
  <2>3. BufferTypeOK'
    BY <1>6, CbTypes
  <2>4. SessionInv'
    <3>1. ring' \in 0..ring
      BY <1>6, CbPops
    <3> QED  BY <1>6, <3>1 DEF CbGive
  <2> QED  BY <2>1, <2>2, <2>3, <2>4
<1> QED  BY <1>1, <1>2, <1>3, <1>4, <1>5, <1>6
         DEF CallbackStep

\* The steps of the device, and of who resumes it.
LEMMA PipeDevice ==
  ASSUME OneWorker, DeviceInv, PipeInv, ~crashed,
         PlayerDeviceStep \/ DeviceStep \/ \E t \in Users \cup Feeders : ResumeStep(t)
  PROVE  PipeInv'
<1>1. UNCHANGED pipeRest
  BY DEF PlayerDeviceStep, DeviceStep, ResumeStep
<1>2. PipeTypeOK' /\ DecoderInv' /\ SessionInv' /\ HeardInv'
  BY <1>1 DEF PipeInv, PipeTypeOK, WorkerTypeOK, DecoderTypeOK, BufferTypeOK, DecoderInv,
              SessionInv, HeardInv, pipeRest, workVars, comVars, decVars, bufVars, cbVars
<1>3. worker' = worker
  BY <1>1 DEF pipeRest, workVars
<1>4. CASE PlayerDeviceStep
  <2>1. UserInv'
    BY <1>3, <1>4
       DEF OneWorker, PlayerDeviceStep, UserStep, UserGoto, PipeInv, UserInv, DeviceInv, PcmTypeOK,
           Attach, StartState, StartClear, StartCreate, StartResume, Detach, StopCheck,
           StopSet, StopWait, Join, PipeTypeOK, WorkerTypeOK, WorkerPcs, Teardown
  <2>2. crashed' = crashed
    BY <1>4 DEF PlayerDeviceStep, UserStep, endVars, Attach, StartState, StartClear,
                StartCreate, StartResume, ResumeTx, Detach, StopCheck, StopSet, StopWait,
                Join
  <2> QED  BY <1>2, <1>3, <2>1, <2>2 DEF PipeInv, CrashesOnlyInStops
<1>5. CASE DeviceStep
  <2>1. pc' = pc
    BY <1>5 DEF DeviceStep, TaskStep, TaskOpen, TaskWait, TaskStopping, TaskAnswer,
                TaskResumed, TaskAsk, TaskCall, TaskWrite, TaskWriteFails, TaskEmpty
  <2>2. IInv'
    BY <1>5, InvStep DEF DeviceStep, DeviceInv, PcmNext
  <2>3. crashed' => Stopping(Player)
    BY <2>1, <2>2 DEF OneWorker, IInv, CrashesOnlyDetaching, Stopping
  <2>4. Stopping(Player) => worker \in {"pausing", "stopping"}
    BY DEF Stopping, PipeInv, UserInv
  <2> QED  BY <1>2, <1>3, <2>1, <2>3, <2>4 DEF PipeInv, UserInv, CrashesOnlyInStops, Teardown
<1>6. ASSUME NEW t \in Users \cup Feeders, ResumeStep(t) PROVE PipeInv'
  BY <1>2, <1>3, <1>6 DEF ResumeStep, ResumeSet, PipeInv, UserInv, CrashesOnlyInStops, endVars
<1> QED  BY <1>4, <1>5, <1>6

\* Each step of the program keeps the invariant.
LEMMA PipeStep ==
  ASSUME OneWorker, DeviceInv, PipeInv, [Next]_vars
  PROVE  (DeviceInv /\ PipeInv)'
<1> SUFFICES PipeInv'
  BY DeviceKeeps
<1>1. CASE UNCHANGED vars
  BY <1>1 DEF PipeInv, PipeTypeOK, WorkerTypeOK, DecoderTypeOK, BufferTypeOK, UserInv,
              DecoderInv, SessionInv, HeardInv, CrashesOnlyInStops, vars, pcmVars,
              workVars, comVars, decVars, bufVars, cbVars
<1> QED  BY <1>1, PipeWorker, PipeDecoder, PipeCallback, PipeDevice DEF Next, Quiescent

-----------------------------------------------------------------------------
(* The theorems *)

\* It holds in every state of the program.
LEMMA PipeCorrect ==
  ASSUME OneWorker
  PROVE  Spec => [](DeviceInv /\ PipeInv)
<1>1. Init => DeviceInv /\ PipeInv
  BY PipeInit
<1>2. DeviceInv /\ PipeInv /\ [Next]_vars => (DeviceInv /\ PipeInv)'
  BY PipeStep
<1> QED  BY <1>1, <1>2, PTL DEF Spec

\* Every reachable state of the pipeline is of its type: the ring never holds more
\* than its size, and the decoder never decodes a frame it does not have.
THEOREM PipeTypeCorrect ==
  ASSUME OneWorker
  PROVE  Spec => []TypeOK
<1>1. DeviceInv /\ PipeInv => TypeOK
  BY PipeTypes DEF DeviceInv, PipeInv
<1> QED  BY <1>1, PipeCorrect, PTL

\* A callback is called as NULL, or a thread joined that was never created, only while
\* the worker stops or pauses the player.
THEOREM CrashesInStopsCorrect ==
  ASSUME OneWorker
  PROVE  Spec => []CrashesOnlyInStops
BY PipeCorrect, PTL DEF PipeInv

\* A session leaves nothing to the next one, and starts the device with what its own
\* decoder has found.
THEOREM NothingLeftCorrect ==
  ASSUME OneWorker
  PROVE  Spec => []NothingLeftOver
<1>1. DeviceInv /\ PipeInv => InfoKnown
  BY DEF PipeInv, UserInv, SessionInv, Sounding, PipeTypeOK, WorkerTypeOK, WorkerPcs,
         Teardown, InfoKnown
<1>2. DeviceInv /\ PipeInv => SessionIsClean
  <2> SUFFICES ASSUME DeviceInv, PipeInv, worker = "idle"
               PROVE  task = "none" /\ dpc = "none" /\ ring = 0 /\ com_event = {}
    BY DEF SessionIsClean
  <2>1. ~crashed /\ pc[Player] = "idle"
    BY DEF PipeInv, CrashesOnlyInStops, Teardown, UserInv
  <2> QED  BY <2>1, IdleDevice DEF PipeInv, DecoderInv, SessionInv
<1> QED  BY <1>1, <1>2, PipeCorrect, PTL DEF NothingLeftOver

\* The end is reported by the callback, and only it and the clearing of the ring take
\* from it.
LEMMA OnlyTheCallback ==
  ASSUME DeviceInv, PipeInv, [Next]_vars, ~CbGive
  PROVE  ~EndReported /\ (worker' = worker => ring' >= ring)
<1> USE DEF EndReported, PipeInv, PipeTypeOK, BufferTypeOK, DeviceInv, PcmTypeOK
<1>1. ring \in Nat
  BY Sizes
<1>2. CASE UNCHANGED <<ring, pcm_trans_tx_no_data>>
  BY <1>1, <1>2
<1>3. CASE Begin \/ Command \/ Resume \/ WorkerStep
  <2>1. CASE Clear
    BY <2>1 DEF Clear, WorkerGoto, pcmVars
  <2>2. CASE ~Clear
    BY <1>2, <1>3, <2>2
       DEF Begin, Command, Resume, WorkerStep, DecoderInit, RegisterCallbacks,
           DecoderStart, WaitDecoder, Started, Monitor, AutoResume, ResumeTx, Halt,
           DecoderPause, DecoderPauseSet, Unregister, DecoderStop, DecoderStopped,
           DecoderExit, DecoderJoin, DecoderJoinNothing, pcmVars, pcmRest, bufVars
  <2> QED  BY <2>1, <2>2
<1>4. CASE DecoderStep
  <2>1. CASE DecOutput
    <3>1. mem.output \in Nat /\ Size - ring \in Nat
      BY Sizes DEF DecoderTypeOK, Mems
    <3>2. PICK n \in Nat : ring' = ring + n
      BY <2>1, <3>1, LeastType DEF DecOutput
    <3>3. pcm_trans_tx_no_data' = pcm_trans_tx_no_data
      BY <2>1 DEF DecOutput
    <3> QED  BY <1>1, <3>2, <3>3
  <2>2. CASE ~DecOutput
    BY <1>2, <1>4, <2>2
       DEF DecoderStep, DecTop, DecWait, DecSetState, DecAnswer, DecNotify, ResumeTx,
           DecPushed, DecGiveUp, DecInput, DecFinish, DecRead, DecReadNothing, DecDecode,
           decRest, pcmVars, bufVars
  <2> QED  BY <2>1, <2>2
<1>5. CASE CallbackStep
  BY <1>2, <1>5 DEF CallbackStep, CbCount, CbFreeCount, CbOutputDone, CbDecide, CbResume, cbRest
<1>6. CASE PlayerDeviceStep \/ DeviceStep \/ \E t \in Users \cup Feeders : ResumeStep(t)
  <2>1. ring' = ring
    BY <1>6 DEF PlayerDeviceStep, DeviceStep, ResumeStep, pipeRest, bufVars
  <2>2. pcm_trans_tx_no_data' = pcm_trans_tx_no_data \/ ~pcm_trans_tx_no_data'
    BY <1>6 DEF PlayerDeviceStep, DeviceStep, ResumeStep, ResumeSet, UserStep, Attach,
                StartState, StartClear, StartCreate, StartResume, ResumeTx, Detach,
                StopCheck, StopSet, StopWait, Join, TaskStep, TaskOpen, TaskWait,
                TaskStopping, TaskAnswer, TaskResumed, TaskAsk, TaskCall, TaskWrite,
                TaskWriteFails, TaskEmpty
  <2> QED  BY <1>1, <2>1, <2>2
<1> QED  BY <1>2, <1>3, <1>4, <1>5, <1>6 DEF Next, Quiescent, vars, pcmVars, bufVars

\* When the end is reported to the device, all that the ring still holds was pushed
\* since the callback counted it.
THEOREM SoundCorrect ==
  ASSUME OneWorker
  PROVE  Spec => SoundIsHeard
<1>1. DeviceInv /\ PipeInv /\ [Next]_vars => [EndReported => ring <= fresh]_vars
  <2> SUFFICES ASSUME DeviceInv, PipeInv, [Next]_vars, EndReported PROVE ring <= fresh
    OBVIOUS
  <2>1. CbGive
    BY OnlyTheCallback
  <2>2. done /\ count = 0
    BY <2>1, Zenon DEF CbGive, EndReported
  <2>3. cpc # "count"
    BY <2>1 DEF CbGive, CbGoto
  <2> QED  BY <2>2, <2>3, Sizes DEF PipeInv, HeardInv, PipeTypeOK, BufferTypeOK
<1> QED  BY <1>1, PipeCorrect, PTL DEF Spec, SoundIsHeard

\* While the player stays paused no sound is taken out of the ring: the task of the
\* device is gone when com_player_pause returns.
THEOREM PausedCorrect ==
  ASSUME OneWorker
  PROVE  Spec => PausedHolds
<1>1. DeviceInv /\ PipeInv /\ [Next]_vars
        => [worker = "paused" /\ worker' = "paused" => ring' >= ring]_vars
  <2> SUFFICES ASSUME DeviceInv, PipeInv, [Next]_vars, worker = "paused", worker' = "paused"
               PROVE  ring' >= ring
    OBVIOUS
  <2>1. ~crashed /\ pc[Player] = "idle"
    BY DEF PipeInv, CrashesOnlyInStops, Teardown, UserInv
  <2>2. ~CbGive
    BY <2>1, IdleDevice DEF CbGive, CbGoto
  <2> QED  BY <2>2, OnlyTheCallback
<1> QED  BY <1>1, PipeCorrect, PTL DEF Spec, PausedHolds
=============================================================================
