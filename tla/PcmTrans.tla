------------------------------ MODULE PcmTrans ------------------------------
(***************************************************************************)
(* The PCM output, src/src/media/pcm_trans.c: its task, which asks a       *)
(* callback for data and writes it to ALSA, and the calls that start, stop *)
(* and resume it.  A user is the worker of a player: it attaches its data  *)
(* and starts the device (com_player_start, _resume), and detaches and     *)
(* stops it (com_player_stop, _pause), also after a session that never     *)
(* started it.  A feeder is a decoder task: it only resumes.               *)
(*                                                                         *)
(* The callback is abstract here; PlayPipeline extends this module and has *)
(* the real one.  The event group is atomic, all else interleaves.         *)
(* PCM_TRANS_EVENT_TX_PAUSE is left out: nothing calls pcm_trans_pause_tx. *)
(*                                                                         *)
(* An operator marked MUTATION is a faulty variant of the one after it.    *)
(***************************************************************************)
EXTENDS Naturals, FiniteSets

CONSTANTS Users,        \* the workers
          Feeders,      \* the decoder tasks
          NONE,         \* NULL
          CanFail       \* snd_pcm_writei may fail beyond recovery

ASSUME UsersAssumption == NONE \notin Users /\ Users \cap Feeders = {}
ASSUME FailAssumption  == CanFail \in BOOLEAN

VARIABLES
  pcm_trans_cur_state,
  pcm_event,                    \* the bits set in event_handle
  pcm_trans_tx_no_data,
  pcm_trans_data_request_param, \* whose callback is registered, or NONE
  task,                         \* where pcm_trans_task is; "none" when there is none
  pc,                           \* pc[u]: the call worker u is in, or the last it made
  resuming,                     \* who has found the device not running and resumes it
  failed,                       \* history: a write has failed
  contended,                    \* history: one worker started it while another had it,
                                \* or was starting or stopping it
  rivals,                       \* history: two workers stopped it at the same time
  overlapped,                   \* a second task was created: beyond this model
  crashed                       \* NULL was called or dereferenced

pcmVars == <<pcm_trans_cur_state, pcm_event, pcm_trans_tx_no_data,
             pcm_trans_data_request_param, task, pc, resuming, failed, contended,
             rivals, overlapped, crashed>>

\* What few actions change.
endVars == <<failed, contended, rivals, overlapped, crashed>>

PcmStates == {"EXIT", "IDLE", "TX_PAUSE", "TX_RUN", "TX_DONE"}
PcmEvents == {"TX_RESUME", "TX_STOP", "TX_STOP_DONE"}
TaskPcs   == {"none", "open", "wait", "stopping", "answer", "resumed", "ask", "call",
              "look", "write", "empty"}
UserPcs   == {"idle", "playing", "attach", "start_state", "start_clear", "start_create",
              "start_resume", "detach", "stop_check", "stop_set", "stop_wait", "join"}

\* pcm_trans_init
PcmInit ==
  /\ pcm_trans_cur_state = "EXIT"
  /\ pcm_event = {}
  /\ pcm_trans_tx_no_data = FALSE
  /\ pcm_trans_data_request_param = NONE
  /\ task = "none"
  /\ pc = [u \in Users |-> "idle"]
  /\ resuming = {}
  /\ failed = FALSE
  /\ contended = FALSE
  /\ rivals = FALSE
  /\ overlapped = FALSE
  /\ crashed = FALSE

-----------------------------------------------------------------------------
(* The calls of worker u *)

UserGoto(u, from, to) == pc[u] = from /\ u \notin resuming /\ pc' = [pc EXCEPT ![u] = to]

\* pcm_trans_register_data_request_callback(callback, param)
Attach(u) ==
  /\ UserGoto(u, "attach", "start_state")
  /\ pcm_trans_data_request_param' = u
  /\ UNCHANGED <<pcm_trans_cur_state, pcm_event, pcm_trans_tx_no_data, task, resuming,
                 endVars>>

\* pcm_trans_start_tx
StartState(u) ==
  /\ UserGoto(u, "start_state", "start_clear")
  /\ pcm_trans_cur_state' = "IDLE"
  /\ pcm_trans_tx_no_data' = FALSE
  /\ UNCHANGED <<pcm_event, pcm_trans_data_request_param, task, resuming, endVars>>

StartClear(u) ==
  /\ UserGoto(u, "start_clear", "start_create")
  /\ pcm_event' = {}
  /\ UNCHANGED <<pcm_trans_cur_state, pcm_trans_tx_no_data, pcm_trans_data_request_param,
                 task, resuming, endVars>>

\* Another player, or a session of one that is just ending, may still have its task.
StartCreate(u) ==
  /\ UserGoto(u, "start_create", "start_resume")
  /\ task' = "open"
  /\ overlapped' = (task # "none")
  /\ UNCHANGED <<pcm_trans_cur_state, pcm_event, pcm_trans_tx_no_data,
                 pcm_trans_data_request_param, resuming, failed, contended, rivals,
                 crashed>>

\* pcm_trans_resume_tx by thread t: the state is tested, then the bit is set.
ResumeTx(t) ==
  /\ t \notin resuming
  /\ resuming' = IF pcm_trans_cur_state = "TX_RUN" THEN resuming ELSE resuming \cup {t}
  /\ UNCHANGED <<pcm_trans_cur_state, pcm_event, pcm_trans_tx_no_data,
                 pcm_trans_data_request_param, task, endVars>>

ResumeSet(t) ==
  /\ t \in resuming
  /\ resuming' = resuming \ {t}
  /\ pcm_event' = pcm_event \cup {"TX_RESUME"}
  /\ UNCHANGED <<pcm_trans_cur_state, pcm_trans_tx_no_data, pcm_trans_data_request_param,
                 task, pc, endVars>>

StartResume(u) == UserGoto(u, "start_resume", "playing") /\ ResumeTx(u)

\* pcm_trans_register_data_request_callback(NULL, NULL)
Detach(u) ==
  /\ UserGoto(u, "detach", "stop_check")
  /\ pcm_trans_data_request_param' = NONE
  /\ UNCHANGED <<pcm_trans_cur_state, pcm_event, pcm_trans_tx_no_data, task, resuming,
                 endVars>>

\* MUTATION (EndIsQuiet): only a running device is stopped.
StopCheckRunning(u) ==
  /\ UserGoto(u, "stop_check",
              IF pcm_trans_cur_state # "TX_RUN" THEN "idle" ELSE "stop_set")
  /\ UNCHANGED <<pcm_trans_cur_state, pcm_event, pcm_trans_tx_no_data,
                 pcm_trans_data_request_param, task, resuming, endVars>>

\* pcm_trans_stop_tx
StopCheck(u) ==
  /\ UserGoto(u, "stop_check", IF pcm_trans_cur_state = "EXIT" THEN "idle" ELSE "stop_set")
  /\ UNCHANGED <<pcm_trans_cur_state, pcm_event, pcm_trans_tx_no_data,
                 pcm_trans_data_request_param, task, resuming, endVars>>

\* MUTATION (OneTask, CrashesOnlyDetaching): TX_STOP_DONE is not waited for.
StopSetOnly(u) ==
  /\ UserGoto(u, "stop_set", "idle")
  /\ pcm_event' = pcm_event \cup {"TX_STOP"}
  /\ UNCHANGED <<pcm_trans_cur_state, pcm_trans_tx_no_data, pcm_trans_data_request_param,
                 task, resuming, endVars>>

StopSet(u) ==
  /\ UserGoto(u, "stop_set", "stop_wait")
  /\ pcm_event' = pcm_event \cup {"TX_STOP"}
  /\ UNCHANGED <<pcm_trans_cur_state, pcm_trans_tx_no_data, pcm_trans_data_request_param,
                 task, resuming, endVars>>

StopWait(u) ==
  /\ UserGoto(u, "stop_wait", "join")
  /\ "TX_STOP_DONE" \in pcm_event
  /\ pcm_event' = pcm_event \ {"TX_STOP_DONE"}
  /\ UNCHANGED <<pcm_trans_cur_state, pcm_trans_tx_no_data, pcm_trans_data_request_param,
                 task, resuming, endVars>>

\* pthread_join
Join(u) ==
  /\ UserGoto(u, "join", "idle")
  /\ task = "none"
  /\ UNCHANGED <<pcm_trans_cur_state, pcm_event, pcm_trans_tx_no_data,
                 pcm_trans_data_request_param, task, resuming, endVars>>

UserStep(u) ==
  \/ Attach(u) \/ StartState(u) \/ StartClear(u) \/ StartCreate(u) \/ StartResume(u)
  \/ Detach(u) \/ StopCheck(u) \/ StopSet(u) \/ StopWait(u) \/ Join(u)

-----------------------------------------------------------------------------
(* pcm_trans_task *)

TaskGoto(from, to) == task = from /\ task' = to

TaskOpen ==
  /\ TaskGoto("open", "wait")
  /\ pcm_trans_cur_state' = "TX_PAUSE"
  /\ UNCHANGED <<pcm_event, pcm_trans_tx_no_data, pcm_trans_data_request_param, pc,
                 resuming, endVars>>

\* MUTATION (StopAnswered): TX_RESUME is taken first.
TaskWaitResumesFirst ==
  LET bits == pcm_event \cap {"TX_STOP", "TX_RESUME"}
  IN  /\ pcm_trans_cur_state = "TX_RUN" \/ bits # {}
      /\ TaskGoto("wait", IF "TX_RESUME" \in bits THEN "resumed"
                          ELSE IF "TX_STOP" \in bits THEN "stopping" ELSE "ask")
      /\ pcm_event' = pcm_event \ bits
      /\ UNCHANGED <<pcm_trans_cur_state, pcm_trans_tx_no_data,
                     pcm_trans_data_request_param, pc, resuming, endVars>>

\* A running device polls, another waits; all bits are taken, TX_STOP wins.
TaskWait ==
  LET bits == pcm_event \cap {"TX_STOP", "TX_RESUME"}
  IN  /\ pcm_trans_cur_state = "TX_RUN" \/ bits # {}
      /\ TaskGoto("wait", IF "TX_STOP" \in bits THEN "stopping"
                          ELSE IF "TX_RESUME" \in bits THEN "resumed" ELSE "ask")
      /\ pcm_event' = pcm_event \ bits
      /\ UNCHANGED <<pcm_trans_cur_state, pcm_trans_tx_no_data,
                     pcm_trans_data_request_param, pc, resuming, endVars>>

TaskStopping ==
  /\ TaskGoto("stopping", "answer")
  /\ pcm_trans_cur_state' = "EXIT"
  /\ UNCHANGED <<pcm_event, pcm_trans_tx_no_data, pcm_trans_data_request_param, pc,
                 resuming, endVars>>

\* TX_STOP_DONE; then the handle is closed and the task ends.
TaskAnswer ==
  /\ TaskGoto("answer", "none")
  /\ pcm_event' = pcm_event \cup {"TX_STOP_DONE"}
  /\ UNCHANGED <<pcm_trans_cur_state, pcm_trans_tx_no_data, pcm_trans_data_request_param,
                 pc, resuming, endVars>>

TaskResumed ==
  /\ TaskGoto("resumed", "ask")
  /\ pcm_trans_cur_state' = "TX_RUN"
  /\ UNCHANGED <<pcm_event, pcm_trans_tx_no_data, pcm_trans_data_request_param, pc,
                 resuming, endVars>>

\* Lines 202-204: the callback is tested, and loaded again with its parameter to
\* be called (the build does not optimise).  Between the two it may be detached.
TaskAsk ==
  /\ TaskGoto("ask", IF pcm_trans_data_request_param = NONE THEN "empty" ELSE "call")
  /\ UNCHANGED <<pcm_trans_cur_state, pcm_event, pcm_trans_tx_no_data,
                 pcm_trans_data_request_param, pc, resuming, endVars>>

TaskCall ==
  /\ TaskGoto("call", "look")
  /\ crashed' = (pcm_trans_data_request_param = NONE)
  /\ UNCHANGED <<pcm_trans_cur_state, pcm_event, pcm_trans_tx_no_data,
                 pcm_trans_data_request_param, pc, resuming, failed, contended, rivals,
                 overlapped>>

TaskWrite ==
  /\ TaskGoto("write", "wait")
  /\ UNCHANGED <<pcm_trans_cur_state, pcm_event, pcm_trans_tx_no_data,
                 pcm_trans_data_request_param, pc, resuming, endVars>>

\* Line 218: the task leaves with its state as it was, and answers no stop.
TaskWriteFails ==
  /\ CanFail
  /\ TaskGoto("write", "none")
  /\ failed' = TRUE
  /\ UNCHANGED <<pcm_trans_cur_state, pcm_event, pcm_trans_tx_no_data,
                 pcm_trans_data_request_param, pc, resuming, contended, rivals, overlapped,
                 crashed>>

TaskEmpty ==
  /\ TaskGoto("empty", "wait")
  /\ pcm_trans_cur_state' = IF pcm_trans_tx_no_data THEN "TX_DONE" ELSE "TX_PAUSE"
  /\ UNCHANGED <<pcm_event, pcm_trans_tx_no_data, pcm_trans_data_request_param, pc,
                 resuming, endVars>>

\* All of the task but the callback.
TaskStep ==
  \/ TaskOpen \/ TaskWait \/ TaskStopping \/ TaskAnswer \/ TaskResumed
  \/ TaskAsk \/ TaskCall \/ TaskWrite \/ TaskWriteFails \/ TaskEmpty

-----------------------------------------------------------------------------
(* The surroundings, when this module is checked by itself *)

Starting(u) == pc[u] \in {"attach", "start_state", "start_clear", "start_create",
                         "start_resume"}
Stopping(u) == pc[u] \in {"detach", "stop_check", "stop_set", "stop_wait", "join"}

\* com_player_start or com_player_resume, of a player that is at rest or paused.
\* Neither looks at the other players.  That a start finds nobody playing is the
\* doing of __audio_player_before_start, whose scan a resume may overtake and whose
\* wait may be given up; a resume has no such scan (AudioPlayerProcess has both).
CallStart(u) ==
  /\ UserGoto(u, "idle", "attach")
  /\ contended' = (contended \/ \E v \in Users \ {u} : pc[v] # "idle")
  /\ UNCHANGED <<pcm_trans_cur_state, pcm_event, pcm_trans_tx_no_data,
                 pcm_trans_data_request_param, task, resuming, failed, rivals,
                 overlapped, crashed>>

\* com_player_stop, also for a session that has not started the device.
CallStop(u) ==
  /\ UserGoto(u, "playing", "detach") \/ UserGoto(u, "idle", "detach")
  /\ contended' = (contended \/ \E v \in Users : Starting(v))
  /\ rivals' = (rivals \/ \E v \in Users : Stopping(v))
  /\ UNCHANGED <<pcm_trans_cur_state, pcm_event, pcm_trans_tx_no_data,
                 pcm_trans_data_request_param, task, resuming, failed, overlapped, crashed>>

Feed(f) ==
  /\ ResumeTx(f)
  /\ UNCHANGED pc

\* The callback: it gives data, has none, or reports the end (no_data).
Callback ==
  /\ \/ TaskGoto("look", "write") /\ UNCHANGED pcm_trans_tx_no_data
     \/ TaskGoto("look", "empty") /\ UNCHANGED pcm_trans_tx_no_data
     \/ TaskGoto("look", "empty") /\ pcm_trans_tx_no_data' = TRUE
  /\ UNCHANGED <<pcm_trans_cur_state, pcm_event, pcm_trans_data_request_param, pc,
                 resuming, endVars>>

\* The stop of u is not answered any more: the bit it waits for is not set, and
\* neither the task nor a pending TX_STOP will set it.
Hung(u) == /\ pc[u] = "stop_wait"
           /\ "TX_STOP_DONE" \notin pcm_event
           /\ task \notin {"stopping", "answer"}
           /\ "TX_STOP" \notin pcm_event \/ task = "none"

\* Everyone waits in pcm_trans_stop_tx (portMAX_DELAY), nobody answers.
AllHung == (\A u \in Users : Hung(u)) /\ UNCHANGED pcmVars

PcmNext ==
  \/ /\ ~(crashed \/ overlapped)
     /\ \/ \E u \in Users : CallStart(u) \/ CallStop(u) \/ UserStep(u)
        \/ \E f \in Feeders : Feed(f)
        \/ \E t \in Users \cup Feeders : ResumeSet(t)
        \/ TaskStep
        \/ Callback
        \/ AllHung
  \/ (crashed \/ overlapped) /\ UNCHANGED pcmVars

PcmSpec == PcmInit /\ [][PcmNext]_pcmVars

-----------------------------------------------------------------------------
(* Properties *)

PcmTypeOK ==
  /\ pcm_trans_cur_state \in PcmStates
  /\ pcm_event \subseteq PcmEvents
  /\ pcm_trans_tx_no_data \in BOOLEAN
  /\ pcm_trans_data_request_param \in Users \cup {NONE}
  /\ task \in TaskPcs
  /\ pc \in [Users -> UserPcs]
  /\ resuming \subseteq Users \cup Feeders
  /\ failed \in BOOLEAN
  /\ contended \in BOOLEAN
  /\ rivals \in BOOLEAN
  /\ overlapped \in BOOLEAN
  /\ crashed \in BOOLEAN

\* As long as nobody starts the device while another player uses, starts or stops
\* it, a second task is never created beside the first, with which it would share
\* state and events: no stop that has returned, and no failed write, leaves a task
\* (lines 64-91).  A resume beside a player that plays does create one.
OneTask == overlapped => contended

\* When all who stopped the device have returned and nobody has started it since,
\* its task is gone: no callback runs that com_player_stop could pull the
\* buffer away from (lines 83-91).  Not so when two players have wanted it at once.
EndIsQuiet == ~contended /\ (\A u \in Users : pc[u] = "idle") => task = "none"

\* pcm_trans_stop_tx, which waits for ever, is always answered, unless two workers
\* stop the device at once (a single TX_STOP_DONE is set), one starts it while another
\* has it or stops it (the start clears TX_STOP), or a write has failed
\* (lines 71, 85-90, 218-221).
StopAnswered == \A u \in Users : Hung(u) => rivals \/ contended \/ failed

\* As long as there is one task, the callback is called as NULL only if a worker
\* detaches it at that moment: a call that has returned never leaves the task on its
\* way into it, and a start or resume of one player never takes away the callback
\* of another (lines 202-204).  The model ends when a second task is created: what two
\* of them may do is beyond it.
CrashesOnlyDetaching == crashed => \E u \in Users : Stopping(u)
=============================================================================
