------------------------- MODULE AudioPlayerProcess -------------------------
(***************************************************************************)
(* The player process of src/src/media/audio_player_process.c: one worker  *)
(* task per player (audio_player_task), the six API calls that command it  *)
(* from other threads through an event group, and the three pieces of      *)
(* state the players share: the registry g_registers, the lock that        *)
(* serialises audio_player_start and the single PCM device (pcm_trans.c).  *)
(*                                                                         *)
(* A thread is a caller or the worker of a player: a worker calls the API  *)
(* of the other players when it starts (break) and when it stops (resume). *)
(* The event group is atomic here (xEventGroupSetBits/WaitBits/ClearBits   *)
(* each run under the mutex of common_event.c).  audio_player_deinit and   *)
(* the EXIT event are not part of this module.                             *)
(*                                                                         *)
(* An operator marked MUTATION is a faulty variant of the one after it: no *)
(* action uses it, and the property it names fails when it does.           *)
(***************************************************************************)
EXTENDS Naturals, FiniteSets

CONSTANTS Players,      \* the audio_player_proc_t objects (and their workers)
          Callers,      \* the other threads that use the API
          NONE,         \* NULL
          NumSlots,     \* AUDIO_PLAYER_MAX_REGISTER_SIZE
          Ops,          \* the operations the callers use
          AutoChoices,  \* the values of player_info.auto_resume_prev they pass
          MaxCalls,     \* bound: calls the callers make
          MaxTimeouts   \* bound: waits that give up after 30 s

StartOps == {"start", "start_wait"}      \* wait_finish = false, true
AllOps   == StartOps \cup {"stop", "pause", "resume", "break"}

ASSUME PlayersAssumption == IsFiniteSet(Players)
ASSUME ThreadsAssumption == Players \cap Callers = {} /\ NONE \notin Players \cup Callers
ASSUME SlotsAssumption   == NumSlots \in Nat \ {0}
ASSUME OpsAssumption     == Ops \subseteq AllOps /\ AutoChoices \subseteq BOOLEAN
ASSUME BoundsAssumption  == MaxCalls \in Nat /\ MaxTimeouts \in Nat

Threads == Players \cup Callers
Slots   == 1..NumSlots

VARIABLES
  cur_state,            \* cur_state[p]: audio_player->cur_state
  event,                \* event[p]: the bits set in its event group
  mutex_handle,         \* mutex_handle[p]: the thread that holds it, or NONE
  player_handle,        \* player_handle[p]: the number of its last session
  auto_resume_prev,     \* auto_resume_prev[p]: player_info.auto_resume_prev
  last_error,           \* last_error[p]: SUCCESS, ALL_END or (any other) ERR
  g_registers,          \* the registry: Slots -> player or NONE
  g_last_alloc_handle,
  g_common_mutex,       \* the thread that holds it, or NONE
  wpc,                  \* wpc[p]: where the worker of p is
  slot,                 \* slot[p]: its loop variable i (from 1)
  events,               \* events[p]: its local `events', the bits it took
  ret,                  \* ret[p]: its local `ret' in STA_START
  call,                 \* call[t]: the API call thread t is in
  pcm_state,            \* pcm_trans_cur_state
  pcm_owner,            \* pcm_trans_data_request_param: whose data is played
  decoder,              \* decoder[p]: its decoder task exists
  calls,                \* the calls the callers have made
  timeouts,             \* waits that have given up
  resumed,              \* history: RESUME has been posted
  crashed               \* NULL was dereferenced: the process is gone

\* Groups for UNCHANGED: what a worker keeps for itself, what only the API
\* writes, and the device.
loopVars    == <<slot, events, ret>>
sessionVars == <<player_handle, auto_resume_prev, g_last_alloc_handle>>
lockVars    == <<mutex_handle, g_common_mutex>>
countVars   == <<calls, timeouts, resumed>>
audioVars   == <<pcm_state, pcm_owner, decoder>>
workerVars  == <<cur_state, wpc, loopVars, g_registers, audioVars, crashed>>
vars == <<workerVars, event, last_error, call, sessionVars, lockVars, countVars>>

States    == {"IDLE", "START", "PLAY", "BREAK", "PAUSE", "STOP"}
Commands  == {"START", "STOP", "PAUSE", "RESUME", "BREAK"}
Acks      == {"START_DONE", "STOP_DONE", "PAUSE_DONE", "BREAK_DONE"}
Errors    == {"SUCCESS", "ALL_END", "ERR"}
PcmStates == {"EXIT", "TX_RUN", "TX_DONE"}

WorkerPcs == {"idle_ack", "idle_wait", "idle_left", "idle_go",
              "open", "scan_look", "scan_deref", "scan_call", "scan_wait",
              "register", "register_write", "com_start", "com_wait",
              "start_state", "start_ack", "play_wait", "pause_com",
              "pause_state", "pause_ack", "monitor", "pause_wait",
              "resume_com", "resume_state", "stop_com", "unregister",
              "stop_idle"}
ApiPcs == {"none", "common", "lock", "check", "post", "wait", "clear",
           "unlock", "relock", "setup", "post_start", "wait_start",
           "unlock_start", "uncommon", "poll"}

\* A call: its operation, the player it is made on, where it is, the handle
\* audio_player_start allocated, whether its wait began without an answer (only
\* then can it time out although one is set), and whether it was answered.
Frames == [op : AllOps \cup {"none"}, player : Players \cup {NONE}, pc : ApiPcs,
           handle : Nat, blocked : BOOLEAN, acked : BOOLEAN]
NoCall == [op |-> "none", player |-> NONE, pc |-> "none",
           handle |-> 0, blocked |-> FALSE, acked |-> FALSE]
Enter(op, p) == [op |-> op, player |-> p, pc |-> IF op \in StartOps THEN "common" ELSE "lock",
                 handle |-> 0, blocked |-> FALSE, acked |-> FALSE]

Init ==
  /\ cur_state = [p \in Players |-> "IDLE"]
  /\ event = [p \in Players |-> {}]
  /\ mutex_handle = [p \in Players |-> NONE]
  /\ player_handle = [p \in Players |-> 0]
  /\ auto_resume_prev = [p \in Players |-> FALSE]
  /\ last_error = [p \in Players |-> "SUCCESS"]
  /\ g_registers = [i \in Slots |-> NONE]
  /\ g_last_alloc_handle = 0
  /\ g_common_mutex = NONE
  /\ wpc = [p \in Players |-> "idle_ack"]
  /\ slot = [p \in Players |-> 1]
  /\ events = [p \in Players |-> {}]
  /\ ret = [p \in Players |-> "SUCCESS"]
  /\ call = [t \in Threads |-> NoCall]
  /\ pcm_state = "EXIT"
  /\ pcm_owner = NONE
  /\ decoder = [p \in Players |-> FALSE]
  /\ calls = 0
  /\ timeouts = 0
  /\ resumed = FALSE
  /\ crashed = FALSE

-----------------------------------------------------------------------------
(* The worker of player p: audio_player_task.  A local variable is reset   *)
(* where its life ends, so that its last value tells no states apart.      *)

\* The worker moves from one place to the next; Goto when the place depends.
Goto(p, to)       == wpc' = [wpc EXCEPT ![p] = to]
Step(p, from, to) == wpc[p] = from /\ Goto(p, to)
SetState(p, s)    == cur_state' = [cur_state EXCEPT ![p] = s]
SetEvent(p, bs)   == event' = [event EXCEPT ![p] = @ \cup bs]
TakeEvent(p, bs)  == event' = [event EXCEPT ![p] = @ \ bs]

\* Where the loop of the task continues in a state.
Entry(s) == IF s = "STOP" THEN "stop_com"
            ELSE IF s = "PLAY" THEN "play_wait"
            ELSE IF s = "IDLE" THEN "idle_ack" ELSE "pause_wait"

\* STA_IDLE: set STOP_DONE, clear a stale START_DONE (two calls on distinct
\* bits), wait for START.
IdleAck(p) ==
  /\ Step(p, "idle_ack", "idle_wait")
  /\ event' = [event EXCEPT ![p] = (@ \cup {"STOP_DONE"}) \ {"START_DONE"}]
  /\ UNCHANGED <<cur_state, last_error, loopVars, g_registers, call, audioVars, crashed>>

IdleWait(p) ==
  /\ Step(p, "idle_wait", "idle_left")
  /\ "START" \in event[p]
  /\ TakeEvent(p, {"START"})
  /\ UNCHANGED <<cur_state, last_error, loopVars, g_registers, call, audioVars, crashed>>

\* MUTATION (StopDoneMeansIdle): line 722 is missing.
IdleLeftKeepsStopDone(p) ==
  /\ Step(p, "idle_left", "idle_go")
  /\ UNCHANGED <<cur_state, event, last_error, loopVars, g_registers, call, audioVars, crashed>>

IdleLeft(p) ==
  /\ Step(p, "idle_left", "idle_go")
  /\ TakeEvent(p, {"STOP_DONE"})
  /\ UNCHANGED <<cur_state, last_error, loopVars, g_registers, call, audioVars, crashed>>

IdleGo(p) ==
  /\ Step(p, "idle_go", "open")
  /\ SetState(p, "START")
  /\ UNCHANGED <<event, last_error, loopVars, g_registers, call, audioVars, crashed>>

\* MUTATION (DeviceKept): __audio_player_before_start is not called.
OpenFileSkipsScan(p) ==
  /\ \/ Step(p, "open", "register")    /\ ret' = [ret EXCEPT ![p] = "SUCCESS"]
     \/ Step(p, "open", "start_state") /\ ret' = [ret EXCEPT ![p] = "ERR"]
  /\ slot' = [slot EXCEPT ![p] = 1]
  /\ UNCHANGED <<cur_state, event, last_error, events, g_registers, call, audioVars, crashed>>

\* STA_START, audio_player_proc_start: open the source; a failure skips the rest.
OpenFile(p) ==
  /\ \/ Step(p, "open", "scan_look")   /\ ret' = [ret EXCEPT ![p] = "SUCCESS"]
     \/ Step(p, "open", "start_state") /\ ret' = [ret EXCEPT ![p] = "ERR"]
  /\ slot' = [slot EXCEPT ![p] = 1]
  /\ UNCHANGED <<cur_state, event, last_error, events, g_registers, call, audioVars, crashed>>

\* __audio_player_before_start (in STA_START) breaks every other registered
\* player that plays; __audio_player_after_stop (in STA_STOP) resumes the first
\* that is broken, if auto_resume_prev.  Both read g_registers[i] anew each time
\* they use it and take no lock.
ScanDone(p) == /\ Goto(p, IF cur_state[p] = "START" THEN "register" ELSE "stop_idle")
               /\ slot' = [slot EXCEPT ![p] = 1]
\* MUTATION (TypeOK): the loop runs once too often.
ScanNextPastEnd(p) == IF slot[p] <= NumSlots
                      THEN Goto(p, "scan_look") /\ slot' = [slot EXCEPT ![p] = @ + 1]
                      ELSE ScanDone(p)
ScanNext(p) == IF slot[p] < NumSlots
               THEN Goto(p, "scan_look") /\ slot' = [slot EXCEPT ![p] = @ + 1]
               ELSE ScanDone(p)

\* Lines 346 and 364; line 367 tests auto_resume_prev before it dereferences.
ScanLook(p) ==
  /\ wpc[p] = "scan_look"
  /\ IF \/ g_registers[slot[p]] \in {NONE, p}
        \/ cur_state[p] = "STOP" /\ ~auto_resume_prev[p]
     THEN ScanNext(p)
     ELSE Goto(p, "scan_deref") /\ UNCHANGED slot
  /\ UNCHANGED <<cur_state, event, last_error, events, ret, g_registers, call, audioVars, crashed>>

\* Lines 349 and 368: the player may have left the registry meanwhile.
ScanDeref(p) ==
  LET q == g_registers[slot[p]]
      wanted == IF cur_state[p] = "START" THEN "PLAY" ELSE "BREAK"
  IN  /\ wpc[p] = "scan_deref"
      /\ crashed' = (q = NONE)
      /\ IF q = NONE THEN UNCHANGED <<wpc, slot>>
         ELSE IF cur_state[q] = wanted THEN Goto(p, "scan_call") /\ UNCHANGED slot
         ELSE ScanNext(p)
      /\ UNCHANGED <<cur_state, event, last_error, events, ret, g_registers, call, audioVars>>

\* Lines 351 and 370: audio_player_break and audio_player_resume refuse NULL.
ScanCall(p) ==
  LET q == g_registers[slot[p]]
      op == IF cur_state[p] = "START" THEN "break" ELSE "resume"
  IN  /\ Step(p, "scan_call", "scan_wait")
      /\ call' = IF q = NONE THEN call ELSE [call EXCEPT ![p] = Enter(op, q)]
      /\ UNCHANGED <<cur_state, event, last_error, loopVars, g_registers, audioVars, crashed>>

ScanReturn(p) ==
  /\ wpc[p] = "scan_wait"
  /\ call[p].pc = "none"
  /\ IF cur_state[p] = "START" THEN ScanNext(p) ELSE ScanDone(p)
  /\ UNCHANGED <<cur_state, event, last_error, events, ret, g_registers, call, audioVars, crashed>>

\* __audio_player_register: taskENTER_CRITICAL is empty on Linux, so the slot
\* found free is written in a step of its own; an overflow is ignored.
Register(p) ==
  /\ wpc[p] = "register"
  /\ IF g_registers[slot[p]] \in {NONE, p} THEN Goto(p, "register_write") /\ UNCHANGED slot
     ELSE IF slot[p] < NumSlots THEN slot' = [slot EXCEPT ![p] = @ + 1] /\ UNCHANGED wpc
     ELSE Goto(p, "com_start") /\ UNCHANGED slot
  /\ UNCHANGED <<cur_state, event, last_error, events, ret, g_registers, call, audioVars, crashed>>

RegisterWrite(p) ==
  /\ Step(p, "register_write", "com_start")
  /\ g_registers' = [g_registers EXCEPT ![slot[p]] = p]
  /\ UNCHANGED <<cur_state, event, last_error, loopVars, call, audioVars, crashed>>

\* com_player_start: the decoder task is created; the device is started once it
\* has decoded a frame, and not at all if it reports an error or is silent.
ComStart(p) ==
  /\ Step(p, "com_start", "com_wait")
  /\ decoder' = [decoder EXCEPT ![p] = TRUE]
  /\ slot' = [slot EXCEPT ![p] = 1]
  /\ UNCHANGED <<cur_state, event, last_error, events, ret, g_registers, call, pcm_state,
                 pcm_owner, crashed>>

ComWait(p) ==
  /\ Step(p, "com_wait", "start_state")
  /\ \/ pcm_owner' = p /\ pcm_state' = "TX_RUN" /\ UNCHANGED ret
     \/ ret' = [ret EXCEPT ![p] = "ERR"] /\ UNCHANGED <<pcm_owner, pcm_state>>
  /\ UNCHANGED <<cur_state, event, last_error, slot, events, g_registers, call, decoder, crashed>>

StartState(p) ==
  /\ Step(p, "start_state", "start_ack")
  /\ SetState(p, IF ret[p] = "SUCCESS" THEN "PLAY" ELSE "STOP")
  /\ UNCHANGED <<event, last_error, loopVars, g_registers, call, audioVars, crashed>>

StartAck(p) ==
  /\ Step(p, "start_ack", Entry(cur_state[p]))
  /\ SetEvent(p, {"START_DONE"})
  /\ last_error' = [last_error EXCEPT ![p] = IF @ = "SUCCESS" THEN ret[p] ELSE @]
  /\ ret' = [ret EXCEPT ![p] = "SUCCESS"]
  /\ UNCHANGED <<cur_state, slot, events, g_registers, call, audioVars, crashed>>

\* STA_PLAY: take whatever commands are pending, or none after 300 ms.
PlayWait(p) ==
  LET bits == event[p] \cap {"STOP", "RESUME", "PAUSE", "BREAK"}
      halt == "STOP" \notin bits /\ bits \cap {"PAUSE", "BREAK"} # {}
  IN  /\ Step(p, "play_wait", IF halt THEN "pause_com" ELSE "monitor")
      /\ TakeEvent(p, bits)
      /\ events' = [events EXCEPT ![p] = bits]
      /\ SetState(p, IF "STOP" \in bits THEN "STOP" ELSE cur_state[p])
      /\ UNCHANGED <<last_error, slot, ret, g_registers, call, audioVars, crashed>>

\* The state the command asks for; PAUSE wins when both are pending.
Halted(p) == IF "PAUSE" \in events[p] THEN "PAUSE" ELSE "BREAK"

\* audio_player_proc_pause -> com_player_pause: detach from the device, stop it.
PauseCom(p) ==
  /\ Step(p, "pause_com", "pause_state")
  /\ pcm_owner' = NONE /\ pcm_state' = "EXIT"
  /\ UNCHANGED <<cur_state, event, last_error, loopVars, g_registers, call, decoder, crashed>>

PauseState(p) ==
  /\ Step(p, "pause_state", "pause_ack")
  /\ SetState(p, Halted(p))
  /\ UNCHANGED <<event, last_error, loopVars, g_registers, call, audioVars, crashed>>

PauseAck(p) ==
  /\ Step(p, "pause_ack", "monitor")
  /\ SetEvent(p, {IF Halted(p) = "PAUSE" THEN "PAUSE_DONE" ELSE "BREAK_DONE"})
  /\ UNCHANGED <<cur_state, last_error, loopVars, g_registers, call, audioVars, crashed>>

\* audio_player_proc_play_monitor and lines 842-848: a session whose data is
\* played out, or that has an error, goes to STA_STOP (also from PAUSE or BREAK).
Monitor(p) ==
  LET err == IF last_error[p] = "SUCCESS" /\ pcm_state = "TX_DONE"
             THEN "ALL_END" ELSE last_error[p]
      state == IF err # "SUCCESS" THEN "STOP" ELSE cur_state[p]
  IN  /\ Step(p, "monitor", Entry(state))
      /\ last_error' = [last_error EXCEPT ![p] = err]
      /\ SetState(p, state)
      /\ events' = [events EXCEPT ![p] = {}]
      /\ UNCHANGED <<event, slot, ret, g_registers, call, audioVars, crashed>>

\* STA_PAUSE and STA_BREAK: wait for STOP or RESUME; STOP wins.
PauseWait(p) ==
  LET bits == event[p] \cap {"STOP", "RESUME"}
  IN  /\ Step(p, "pause_wait", IF "STOP" \in bits THEN "stop_com" ELSE "resume_com")
      /\ bits # {}
      /\ TakeEvent(p, bits)
      /\ SetState(p, IF "STOP" \in bits THEN "STOP" ELSE cur_state[p])
      /\ UNCHANGED <<last_error, loopVars, g_registers, call, audioVars, crashed>>

\* audio_player_proc_resume -> com_player_resume: take the device back.
ResumeCom(p) ==
  /\ Step(p, "resume_com", "resume_state")
  /\ pcm_owner' = p /\ pcm_state' = "TX_RUN"
  /\ UNCHANGED <<cur_state, event, last_error, loopVars, g_registers, call, decoder, crashed>>

ResumeState(p) ==
  /\ Step(p, "resume_state", "play_wait")
  /\ SetState(p, "PLAY")
  /\ UNCHANGED <<event, last_error, loopVars, g_registers, call, audioVars, crashed>>

\* STA_STOP, audio_player_proc_stop: com_player_stop stops the device, whoever
\* is using it, and ends the decoder; then the player leaves the registry.
StopCom(p) ==
  /\ Step(p, "stop_com", "unregister")
  /\ pcm_owner' = NONE /\ pcm_state' = "EXIT"
  /\ decoder' = [decoder EXCEPT ![p] = FALSE]
  /\ UNCHANGED <<cur_state, event, last_error, loopVars, g_registers, call, crashed>>

FirstSlotOf(p, i) == g_registers[i] = p /\ \A j \in Slots : j < i => g_registers[j] # p

\* MUTATION (CrossCallerHidden): the player stays in the registry.
UnregisterForgets(p) ==
  /\ Step(p, "unregister", "scan_look")
  /\ slot' = [slot EXCEPT ![p] = 1]
  /\ UNCHANGED <<cur_state, event, last_error, events, ret, g_registers, call, audioVars, crashed>>

Unregister(p) ==
  /\ Step(p, "unregister", "scan_look")
  /\ g_registers' = [i \in Slots |-> IF FirstSlotOf(p, i) THEN NONE ELSE g_registers[i]]
  /\ slot' = [slot EXCEPT ![p] = 1]
  /\ UNCHANGED <<cur_state, event, last_error, events, ret, call, audioVars, crashed>>

StopIdle(p) ==
  /\ Step(p, "stop_idle", "idle_ack")
  /\ SetState(p, "IDLE")
  /\ UNCHANGED <<event, last_error, loopVars, g_registers, call, audioVars, crashed>>

WorkerStep(p) ==
  /\ \/ IdleAck(p) \/ IdleWait(p) \/ IdleLeft(p) \/ IdleGo(p)
     \/ OpenFile(p)
     \/ ScanLook(p) \/ ScanDeref(p) \/ ScanCall(p) \/ ScanReturn(p)
     \/ Register(p) \/ RegisterWrite(p) \/ ComStart(p) \/ ComWait(p)
     \/ StartState(p) \/ StartAck(p)
     \/ PlayWait(p) \/ PauseCom(p) \/ PauseState(p) \/ PauseAck(p) \/ Monitor(p)
     \/ PauseWait(p) \/ ResumeCom(p) \/ ResumeState(p)
     \/ StopCom(p) \/ Unregister(p) \/ StopIdle(p)
  /\ UNCHANGED <<sessionVars, lockVars, countVars>>

-----------------------------------------------------------------------------
(* The API, run by thread t on the player of its call *)

Player(t)   == call[t].player
At(t, pc)   == t \in Threads /\ call[t].pc = pc
Move(t, pc) == call' = [call EXCEPT ![t].pc = pc]
Return(t)   == call' = [call EXCEPT ![t] = NoCall]
Stops(t)    == call[t].op \in StartOps \cup {"stop"}   \* runs audio_player_stop

Begin(c, op, p) ==
  /\ call[c].pc = "none"
  /\ calls < MaxCalls
  /\ calls' = calls + 1
  /\ call' = [call EXCEPT ![c] = Enter(op, p)]
  /\ UNCHANGED <<event, last_error, sessionVars, lockVars, workerVars, timeouts, resumed>>

\* MUTATION (Visible): audio_player_start takes no common lock.
CommonLockIgnored(t) ==
  /\ At(t, "common")
  /\ g_common_mutex' = t
  /\ Move(t, "lock")
  /\ UNCHANGED <<event, last_error, sessionVars, mutex_handle, countVars>>

\* audio_player_start: audio_player_common_lock
CommonLock(t) ==
  /\ At(t, "common")
  /\ g_common_mutex = NONE
  /\ g_common_mutex' = t
  /\ Move(t, "lock")
  /\ UNCHANGED <<event, last_error, sessionVars, mutex_handle, countVars>>

\* audio_player_lock; audio_player_start takes it again after audio_player_stop.
Lock(t) ==
  /\ At(t, "lock") \/ At(t, "relock")
  /\ mutex_handle[Player(t)] = NONE
  /\ mutex_handle' = [mutex_handle EXCEPT ![Player(t)] = t]
  /\ Move(t, IF call[t].pc = "lock" THEN "check" ELSE "setup")
  /\ UNCHANGED <<event, last_error, sessionVars, g_common_mutex, countVars>>

\* Lines 162-164, 190, 219-220, 243: the state that decides whether to command.
Commandable(t) ==
  LET state == cur_state[Player(t)]
  IN  IF Stops(t) THEN state # "IDLE"
      ELSE IF call[t].op = "resume" THEN state \in {"PAUSE", "BREAK"}
      ELSE state = "PLAY"

\* MUTATION (CallsReturn): the error return of audio_player_pause keeps the lock.
CheckReturnsLocked(t) ==
  /\ At(t, "check")
  /\ auto_resume_prev' = IF Stops(t) THEN [auto_resume_prev EXCEPT ![Player(t)] = FALSE]
                         ELSE auto_resume_prev
  /\ IF Commandable(t) THEN Move(t, "post")
     ELSE IF Stops(t) THEN Move(t, "clear") ELSE Return(t)
  /\ UNCHANGED <<event, last_error, player_handle, g_last_alloc_handle, lockVars, countVars>>

Check(t) ==
  /\ At(t, "check")
  /\ auto_resume_prev' = IF Stops(t) THEN [auto_resume_prev EXCEPT ![Player(t)] = FALSE]
                         ELSE auto_resume_prev
  /\ Move(t, IF Commandable(t) THEN "post" ELSE IF Stops(t) THEN "clear" ELSE "unlock")
  /\ UNCHANGED <<event, last_error, player_handle, g_last_alloc_handle, lockVars, countVars>>

CommandOf(t) ==
  IF At(t, "post_start") THEN "START"
  ELSE IF Stops(t) THEN "STOP"
  ELSE IF call[t].op = "pause" THEN "PAUSE"
  ELSE IF call[t].op = "break" THEN "BREAK" ELSE "RESUME"

\* MUTATION (OnlyEndedStartsStarve): pause does not accept STOP_DONE.
AcksOfWithoutStop(t) ==
  IF At(t, "post_start") \/ At(t, "wait_start") THEN {"START_DONE"}
  ELSE IF Stops(t) THEN {"STOP_DONE"}
  ELSE IF call[t].op = "pause" THEN {"PAUSE_DONE"} ELSE {"BREAK_DONE"}

\* The bits the call waits for after its command.
AcksOf(t) ==
  IF At(t, "post_start") \/ At(t, "wait_start") THEN {"START_DONE"}
  ELSE IF Stops(t) THEN {"STOP_DONE"}
  ELSE IF call[t].op = "pause" THEN {"PAUSE_DONE", "STOP_DONE"}
  ELSE {"BREAK_DONE", "STOP_DONE"}

\* Set the command bit; audio_player_resume does not wait for an answer.
Post(t) ==
  /\ At(t, "post") \/ At(t, "post_start")
  /\ SetEvent(Player(t), {CommandOf(t)})
  /\ call' = [call EXCEPT ![t].pc = IF At(t, "post_start") THEN "wait_start"
                                    ELSE IF call[t].op = "resume" THEN "unlock" ELSE "wait",
                          ![t].acked = FALSE,
                          ![t].blocked = (event[Player(t)] \cap AcksOf(t) = {})]
  /\ resumed' = (resumed \/ CommandOf(t) = "RESUME")
  /\ UNCHANGED <<last_error, sessionVars, lockVars, calls, timeouts>>

AfterWait(t) == IF At(t, "wait_start") THEN "unlock_start"
                ELSE IF Stops(t) THEN "clear" ELSE "unlock"

Wait(t) ==
  /\ At(t, "wait") \/ At(t, "wait_start")
  /\ event[Player(t)] \cap AcksOf(t) # {}
  /\ TakeEvent(Player(t), AcksOf(t))
  /\ call' = [call EXCEPT ![t].pc = AfterWait(t), ![t].acked = TRUE, ![t].blocked = FALSE]
  /\ UNCHANGED <<last_error, sessionVars, lockVars, countVars>>

\* The wait cannot be answered any more: no answer is set and the worker has
\* come to rest with nothing to take.  Its 30 s do pass.
AtRest(p) == \/ wpc[p] = "idle_wait"  /\ "START" \notin event[p]
             \/ wpc[p] = "pause_wait" /\ event[p] \cap {"STOP", "RESUME"} = {}
Starved(t) == /\ At(t, "wait") \/ At(t, "wait_start")
              /\ event[Player(t)] \cap AcksOf(t) = {}
              /\ AtRest(Player(t))

\* 30 s without an answer: logged, and the call goes on as if it had one.  The
\* wait of a slow worker may expire too (MaxTimeouts times), also as the answer
\* is being set: common_wait_event does not look again and the bit stays set.
Timeout(t) ==
  /\ At(t, "wait") \/ At(t, "wait_start")
  /\ call[t].blocked \/ event[Player(t)] \cap AcksOf(t) = {}
  /\ \/ Starved(t) /\ UNCHANGED timeouts
     \/ ~Starved(t) /\ timeouts < MaxTimeouts /\ timeouts' = timeouts + 1
  /\ call' = [call EXCEPT ![t].pc = AfterWait(t), ![t].acked = FALSE, ![t].blocked = FALSE]
  /\ UNCHANGED <<event, last_error, sessionVars, lockVars, workerVars, calls, resumed>>

\* MUTATION (AnswersKept): only the answers are cleared.
ClearAcks(t) ==
  /\ At(t, "clear")
  /\ TakeEvent(Player(t), Acks)
  /\ Move(t, "unlock")
  /\ UNCHANGED <<last_error, sessionVars, lockVars, countVars>>

\* audio_player_stop: clear AUDIO_PLAYER_EVENT_ALL
Clear(t) ==
  /\ At(t, "clear")
  /\ event' = [event EXCEPT ![Player(t)] = {}]
  /\ Move(t, "unlock")
  /\ UNCHANGED <<last_error, sessionVars, lockVars, countVars>>

\* audio_player_unlock: the end of every call but audio_player_start.
Unlock(t) ==
  /\ At(t, "unlock")
  /\ mutex_handle' = [mutex_handle EXCEPT ![Player(t)] = NONE]
  /\ IF call[t].op \in StartOps THEN call' = [call EXCEPT ![t].pc = "relock", ![t].acked = FALSE]
     ELSE Return(t)
  /\ UNCHANGED <<event, last_error, sessionVars, g_common_mutex, countVars>>

\* audio_player_start: the new session's info, number and error.
Setup(t) ==
  /\ At(t, "setup")
  /\ g_last_alloc_handle' = g_last_alloc_handle + 1
  /\ player_handle' = [player_handle EXCEPT ![Player(t)] = g_last_alloc_handle + 1]
  /\ last_error' = [last_error EXCEPT ![Player(t)] = "SUCCESS"]
  /\ \E auto \in AutoChoices :
       auto_resume_prev' = [auto_resume_prev EXCEPT ![Player(t)] = auto]
  /\ call' = [call EXCEPT ![t].pc = "post_start", ![t].handle = g_last_alloc_handle + 1]
  /\ UNCHANGED <<event, lockVars, countVars>>

UnlockStart(t) ==
  /\ At(t, "unlock_start")
  /\ mutex_handle' = [mutex_handle EXCEPT ![Player(t)] = NONE]
  /\ Move(t, "uncommon")
  /\ UNCHANGED <<event, last_error, sessionVars, g_common_mutex, countVars>>

CommonUnlock(t) ==
  /\ At(t, "uncommon")
  /\ g_common_mutex' = NONE
  /\ IF call[t].op = "start_wait" THEN Move(t, "poll") ELSE Return(t)
  /\ UNCHANGED <<event, last_error, sessionVars, mutex_handle, countVars>>

\* MUTATION (FinishSeen): the handle is not compared.
SessionOverIfIdle(t) == cur_state[Player(t)] = "IDLE"

\* wait_finish: the poll that finds another session, or the player idle.
SessionOver(t) == \/ call[t].handle # player_handle[Player(t)]
                  \/ cur_state[Player(t)] = "IDLE"

Poll(t) ==
  /\ At(t, "poll")
  /\ SessionOver(t)
  /\ Return(t)
  /\ UNCHANGED <<event, last_error, sessionVars, lockVars, countVars>>

ApiStep(t) ==
  /\ \/ CommonLock(t) \/ Lock(t) \/ Check(t) \/ Post(t) \/ Wait(t) \/ Clear(t)
     \/ Unlock(t) \/ Setup(t) \/ UnlockStart(t) \/ CommonUnlock(t) \/ Poll(t)
  /\ UNCHANGED workerVars

-----------------------------------------------------------------------------
(* The decoder tasks and the PCM task, as far as this file sees them *)

\* The PCM task has played all the data of the player that owns the device.
Drain ==
  /\ pcm_state = "TX_RUN"
  /\ pcm_owner # NONE
  /\ decoder[pcm_owner]
  /\ pcm_state' = "TX_DONE"
  /\ UNCHANGED <<cur_state, event, last_error, wpc, loopVars, g_registers, call, pcm_owner,
                 decoder, sessionVars, lockVars, countVars, crashed>>

\* __player_input_callback and __player_error_callback report a failure.
DecoderError(p) ==
  /\ decoder[p]
  /\ last_error' = [last_error EXCEPT ![p] = "ERR"]
  /\ UNCHANGED <<event, call, workerVars, sessionVars, lockVars, countVars>>

\* __player_input_callback, line 417: interrupted by http_download_pause.
DownloadPaused(p) ==
  /\ decoder[p]
  /\ wpc[p] = "pause_state" \/ cur_state[p] \in {"PAUSE", "BREAK"}
  /\ last_error' = [last_error EXCEPT ![p] = "SUCCESS"]
  /\ UNCHANGED <<event, call, workerVars, sessionVars, lockVars, countVars>>

\* Every caller has made its calls and every worker waits for a command.
Quiescent ==
  /\ calls = MaxCalls
  /\ \A c \in Callers : call[c].pc \in {"none", "poll"}
  /\ \A p \in Players : wpc[p] \in {"idle_wait", "pause_wait"}
  /\ UNCHANGED vars

Dead == crashed /\ UNCHANGED vars

Next ==
  \/ /\ ~crashed
     /\ \/ \E p \in Players : WorkerStep(p)
        \/ \E c \in Callers, op \in Ops, p \in Players : Begin(c, op, p)
        \/ \E t \in Threads : ApiStep(t) \/ Timeout(t)
        \/ Drain
        \/ \E p \in Players : DecoderError(p) \/ DownloadPaused(p)
        \/ Quiescent
  \/ Dead

\* Threads are scheduled fairly and a wait nobody can answer expires; other
\* waits need not, nor need the music end.
Fairness ==
  /\ \A p \in Players : WF_vars(~crashed /\ WorkerStep(p))
  /\ \A t \in Threads : WF_vars(~crashed /\ (ApiStep(t) \/ (Starved(t) /\ Timeout(t))))

Spec     == Init /\ [][Next]_vars
FairSpec == Spec /\ Fairness

-----------------------------------------------------------------------------
(* Properties *)

TypeOK ==
  /\ cur_state \in [Players -> States]
  /\ event \in [Players -> SUBSET (Commands \cup Acks)]
  /\ mutex_handle \in [Players -> Threads \cup {NONE}]
  /\ player_handle \in [Players -> Nat]
  /\ auto_resume_prev \in [Players -> BOOLEAN]
  /\ last_error \in [Players -> Errors]
  /\ g_registers \in [Slots -> Players \cup {NONE}]
  /\ g_last_alloc_handle \in Nat
  /\ g_common_mutex \in Threads \cup {NONE}
  /\ wpc \in [Players -> WorkerPcs]
  /\ slot \in [Players -> Slots]
  /\ events \in [Players -> SUBSET Commands]
  /\ ret \in [Players -> Errors]
  /\ call \in [Threads -> Frames]
  /\ pcm_state \in PcmStates
  /\ pcm_owner \in Players \cup {NONE}
  /\ decoder \in [Players -> BOOLEAN]
  /\ calls \in Nat
  /\ timeouts \in Nat
  /\ resumed \in BOOLEAN
  /\ crashed \in BOOLEAN

InCall(t)  == call[t].pc # "none"
Scanning(p) == wpc[p] \in {"scan_look", "scan_deref", "scan_call", "scan_wait"}

\* STOP_DONE is the answer audio_player_pause and audio_player_break also accept:
\* it is only ever set while the player is idle, whatever waits have timed out,
\* so neither can take the end of an earlier session for the end of this one
\* (lines 717, 722, 195 and 248).
StopDoneMeansIdle ==
  \A p \in Players : "STOP_DONE" \in event[p] => cur_state[p] = "IDLE"

\* A worker that is inside the API of another player is not in the registry
\* itself, so no third worker can be sent to wait for it: break and resume
\* between workers cannot form a ring (lines 607-608 and 637-638).
CrossCallerHidden ==
  \A p \in Players : InCall(p) => \A i \in Slots : g_registers[i] # p

\* No set of workers waits in a ring, each inside the API of a player of the set.
NoWaitRing ==
  \A S \in SUBSET Players :
    S # {} => \E p \in S : ~(InCall(p) /\ call[p].player \in S)

\* After an answered wait audio_player_stop leaves the player idle, and no
\* command it had not yet taken survives into the next session: when START is
\* posted it is the only command pending (lines 164-174 and 113-125).
CleanStart ==
  \A t \in Threads : At(t, "post_start") =>
    cur_state[Player(t)] = "IDLE" /\ event[Player(t)] \cap Commands = {}

\* audio_player_pause and audio_player_break return only once the player has
\* stopped feeding the device: it is out of STA_PLAY and does not own it.
HaltAcked ==
  \A t \in Threads :
    At(t, "unlock") /\ call[t].op \in {"pause", "break"} /\ call[t].acked =>
      cur_state[Player(t)] # "PLAY" /\ pcm_owner # Player(t)

\* audio_player_start returns once its session has been decided: the worker has
\* taken START, has broken the others and registered itself, and the player
\* plays or is on its way through STA_STOP back to idle.
StartAcked ==
  \A t \in Threads : At(t, "unlock_start") =>
    "START" \notin event[Player(t)] /\ cur_state[Player(t)] # "START"

\* The three promises an answer makes.  A wait that gives up breaks them: its late
\* answer stays set for a later call, and two starts overlap.
AnswersKept == timeouts = 0 => CleanStart /\ HaltAcked /\ StartAcked

\* A player that plays or can be resumed is in the registry, where the others
\* find it: no registration is lost to a concurrent one.
Visible ==
  timeouts = 0 => \A p \in Players : cur_state[p] \in {"PLAY", "PAUSE", "BREAK"} =>
    \E i \in Slots : g_registers[i] = p

\* The worker of p has started the device, for a session not yet on its way out.
Drives(p) == \/ wpc[p] \in {"start_state", "start_ack"} /\ ret[p] = "SUCCESS"
             \/ wpc[p] = "resume_state"
             \/ cur_state[p] = "PLAY" /\ wpc[p] # "pause_state"

\* Only a resume, or a wait that gives up on a slow worker, can make two players
\* play at once: a start breaks whoever plays, while STA_PAUSE goes back to
\* STA_PLAY without looking at the other player (lines 345-353 and 771).
OneDriver ==
  resumed \/ timeouts > 0 \/ \A p, q \in Players : p # q => ~(Drives(p) /\ Drives(q))

\* While no other player has been started, no sequence of pause, break, resume and
\* stop calls, late or timed out, leaves a player playing without the device
\* attached to it.
PlaysItsOwn ==
  \A p \in Players :
    (\A q \in Players \ {p} : player_handle[q] = 0) =>
      (cur_state[p] = "PLAY" /\ wpc[p] # "pause_state" => pcm_owner = p)

\* The device belongs to one player, and a player on its own keeps it.
DeviceKept == OneDriver /\ PlaysItsOwn

\* Only the start of a session that is already over can be left waiting for its
\* full 30 s (line 718 clears the START_DONE the starter has not taken yet): no
\* stop, pause or break ever waits for an answer that cannot come.
OnlyEndedStartsStarve ==
  timeouts = 0 => \A t \in Threads : Starved(t) =>
    At(t, "wait_start") /\ wpc[Player(t)] = "idle_wait"

\* Every API call returns, except that audio_player_start with wait_finish goes
\* on to wait for the end of its session.
CallsReturn ==
  \A t \in Threads :
    InCall(t) ~> (call[t].pc \in {"none", "poll"} \/ crashed)

\* The wait for the end of a session sees it, also when the player is started
\* again between two polls (line 141 compares the handles).
FinishSeen ==
  \A t \in Threads :
    (At(t, "poll") /\ cur_state[Player(t)] = "IDLE") ~> (call[t].pc = "none" \/ crashed)
=============================================================================
