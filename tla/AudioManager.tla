---------------------------- MODULE AudioManager ----------------------------
(***************************************************************************)
(* src/src/media/audio_manager.c: the requests of the rest of the program, *)
(* the task that carries them out, and the callbacks by which the workers  *)
(* of its two players report the end of a session and ask for the next     *)
(* one.                                                                    *)
(*                                                                         *)
(* What a thread still has to do is the list `todo' of the calls it makes, *)
(* in the order of the source; each call is an action, and those that wait *)
(* for a worker are two.  The message queue is the mailbox that            *)
(* AudioMsgQueue implements.  The players are those of AudioPlayerProcess, *)
(* with coarser steps: a player's lock is taken and the state looked at at *)
(* once, and STOP_DONE is set with IDLE.                                   *)
(*                                                                         *)
(* An operator marked MUTATION is a faulty variant of the one after it: no *)
(* action uses it, and the property it names fails when it does.           *)
(***************************************************************************)
EXTENDS Integers, Sequences, FiniteSets

CONSTANTS Users,      \* threads that call audio_mgr_player_*
          NONE,
          NumFiles,   \* files on the card
          MaxCalls,   \* bound: calls of the users
          MaxTimeouts \* bound: waits of 30 s that give up on a slow worker

\* audio_src_flag_t: the source and the type of what is played
Flags   == {"LOCAL", "PROMPT", "HTTP", "TTS"}
Players == {"prompt", "resource"}
Threads == Users \cup Players \cup {"mgr"}

ASSUME UsersAssumption ==
  /\ IsFiniteSet(Users)
  /\ Users \cap (Players \cup {"mgr"}) = {}
  /\ NONE \notin Threads
ASSUME BoundsAssumption == NumFiles \in Nat /\ MaxCalls \in Nat /\ MaxTimeouts \in Nat

VARIABLES
  g_audio_auto_next, g_auto_resume_prev, g_audio_local_index, g_audio_local_max,
  box,          \* the message in the queue
  taken,        \* the message the manager works on, until it frees it
  todo,         \* what each thread has still to do
  waiting,      \* the threads that wait for an answer of a worker
  cur_state, event, last_error, auto_resume_prev,   \* fields of the players
  flag,         \* player_info.source and .type of a player
  starter,      \* the thread that has begun the session of a player
  overrun,      \* history: players started over the head of a session not yet ended
  phase,        \* where a worker is in the handler of its state
  mutex,        \* the threads that hold the players' locks
  g_common_mutex,
  stopping,     \* history: "cleared" by audio_mgr_player_stop, then "taken" by the manager
  calls, timeouts

mgrVars    == <<g_audio_auto_next, g_auto_resume_prev, g_audio_local_index, g_audio_local_max>>
queueVars  == <<box, taken>>
infoVars   == <<auto_resume_prev, flag, starter, overrun>>
playerVars == <<cur_state, event, last_error, phase>>
lockVars   == <<mutex, g_common_mutex, waiting>>
countVars  == <<stopping, calls, timeouts>>
vars == <<mgrVars, queueVars, infoVars, playerVars, lockVars, countVars, todo>>

States == {"IDLE", "START", "PLAY", "PAUSE", "BREAK", "STOP"}
Commands == {"STOP", "RESUME", "PAUSE", "BREAK"}
Events == Commands \cup {"START", "START_DONE", "STOP_DONE", "PAUSE_DONE", "BREAK_DONE"}
Other(p) == CHOOSE q \in Players : q # p

-----------------------------------------------------------------------------
(* What the functions of audio_manager.c and the players' API do *)

\* A call: what it does, with what, and the player_info it passes on.
Do(op, arg)         == [op |-> op, arg |-> arg, info |-> NONE]
With(op, arg, info) == [op |-> op, arg |-> arg, info |-> info]
Stop(p)             == Do("stop", p)

\* The player that audio_mgr_new_player's type stands for.
PlayerOf(f) == IF f \in {"PROMPT", "TTS"} THEN "prompt" ELSE "resource"
Info(f)     == [flag |-> f, auto_resume_prev |-> g_auto_resume_prev]
Message(event_, info) == [event |-> event_, info |-> info]

\* audio_player_start
AudioPlayerStart(info) ==
  <<Do("common_lock", NONE), Stop(PlayerOf(info.flag)),
    With("start", PlayerOf(info.flag), info), Do("common_unlock", NONE)>>

StartLocalInner == <<Do("local_update", NONE), Do("local_path", NONE)>>

\* The functions of audio_manager.h that change something, as called with what.
PlayerStart(f)      == <<Do("player_start", f)>>
StartWaitFinish(f)  == <<Do("player_start_wait_finish", f)>>
PlayerStop          == <<Do("set_audio_next", FALSE), Do("send", Message("STOP", NONE))>>
PlayerBreak         == <<Stop("prompt"), Do("break", "resource")>>
StopPrompt          == <<Stop("prompt")>>
PlayerPause         == <<Do("send", Message("PAUSE", NONE))>>
PlayerResume        == <<Do("send", Message("RESUME", NONE))>>
PlayerToggle        == IF cur_state["resource"] = "PLAY" THEN PlayerPause
                       ELSE IF cur_state["resource"] = "PAUSE" THEN PlayerResume ELSE <<>>
StartLocal          == <<Do("set_audio_next", TRUE), Do("local_max", NONE)>> \o StartLocalInner
StartNext           == <<Do("start_next", 1)>>
StartPrev           == <<Do("start_next", -1)>>
SetAutoResumePrev(b) == <<Do("set_auto_resume_prev", b)>>

\* Those that may begin a session of the resource player.
Starts == {PlayerStart(f) : f \in Flags} \cup {StartWaitFinish(f) : f \in Flags}
            \cup {StartLocal, StartNext, StartPrev}
Api == Starts \cup {PlayerStop, PlayerBreak, StopPrompt, PlayerPause, PlayerResume, PlayerToggle}
         \cup {SetAutoResumePrev(b) : b \in BOOLEAN}

\* audio_mgr_task: what a message is answered with, until it is freed.
Handle(msg) ==
  (CASE msg.event = "START"  -> AudioPlayerStart(msg.info)
     [] msg.event = "STOP"   -> <<Stop("prompt"), Stop("resource")>>
     [] msg.event = "PAUSE"  -> <<Stop("prompt"), Do("pause", "resource")>>
     [] msg.event = "RESUME" -> <<Stop("prompt"), Do("resume", "resource")>>)
  \o <<Do("free", NONE)>>

\* audio_mgr_player_error_handler
Reported(p) == IF last_error[p] = "ERR" THEN PlayerStart("PROMPT") ELSE <<>>

\* audio_prompt_player_callback and audio_resource_player_callback, on STOP
Callback(p) ==
  IF p = "prompt" THEN IF flag[p] # "PROMPT" THEN Reported(p) ELSE <<>>
  ELSE IF last_error[p] # "ALL_END" THEN Reported(p)
  ELSE IF g_audio_auto_next THEN StartNext ELSE <<>>

-----------------------------------------------------------------------------
\* Threads that may have moved g_audio_local_index and not yet looked at it.
Movers == Cardinality(Users) + 1

TypeOK ==
  /\ g_audio_auto_next \in BOOLEAN /\ g_auto_resume_prev \in BOOLEAN
  /\ g_audio_local_index \in -1 - Movers..NumFiles + Movers /\ g_audio_local_max \in {0, NumFiles}
  /\ \A t \in Threads : \A i \in DOMAIN todo[t] : DOMAIN todo[t][i] = {"op", "arg", "info"}
  /\ waiting \subseteq Threads
  /\ cur_state \in [Players -> States]
  /\ event \in [Players -> SUBSET Events]
  /\ last_error \in [Players -> {"SUCCESS", "ALL_END", "ERR"}]
  /\ auto_resume_prev \in [Players -> BOOLEAN]
  /\ flag \in [Players -> Flags] /\ starter \in [Players -> Threads \cup {NONE}]
  /\ overrun \subseteq Players
  /\ phase \in [Players -> {"loop", "scan", "open", "after", "callback", "leave"}]
  /\ mutex \in [Players -> Threads \cup {NONE}]
  /\ g_common_mutex \in Threads \cup {NONE}
  /\ stopping \in {"no", "cleared", "taken"}
  /\ calls \in 0..MaxCalls /\ timeouts \in 0..MaxTimeouts

Queue == INSTANCE Mailbox WITH Messages <- {}, Empty <- NONE

\* audio_mgr_init; player_info is zero, which stands for a web resource.
Init ==
  /\ g_audio_auto_next = FALSE /\ g_auto_resume_prev = TRUE
  /\ g_audio_local_index = 0 /\ g_audio_local_max = 0
  /\ Queue!Init
  /\ todo = [t \in Threads |-> <<>>]
  /\ waiting = {}
  /\ cur_state = [p \in Players |-> "IDLE"]
  /\ event = [p \in Players |-> {"STOP_DONE"}]
  /\ last_error = [p \in Players |-> "SUCCESS"]
  /\ auto_resume_prev = [p \in Players |-> FALSE]
  /\ flag = [p \in Players |-> "HTTP"]
  /\ starter = [p \in Players |-> NONE] /\ overrun = {}
  /\ phase = [p \in Players |-> "loop"]
  /\ mutex = [p \in Players |-> NONE] /\ g_common_mutex = NONE
  /\ stopping = "no" /\ calls = 0 /\ timeouts = 0

-----------------------------------------------------------------------------
(* The calls, by the thread t that makes them *)

Call(t) == Head(todo[t])
At(t, op) == todo[t] # <<>> /\ Call(t).op = op
\* The call becomes what it does first.
Becomes(t, steps) == todo' = [todo EXCEPT ![t] = steps \o Tail(@)]
Done(t) == Becomes(t, <<>>)

\* What may begin a session of the resource player is under way in t.
Starting(t) == \E i \in DOMAIN todo[t] :
  LET c == todo[t][i]
  IN  \/ c.op \in {"local_max", "local_update", "local_path", "start_next"}
      \/ c.op \in {"player_start", "player_start_wait_finish"} /\ PlayerOf(c.arg) = "resource"
      \/ c.op = "start" /\ c.arg = "resource"
      \/ c.op = "send" /\ c.arg.event = "START" /\ PlayerOf(c.arg.info.flag) = "resource"

\* MUTATION (StopHolds): a request to stop leaves g_audio_auto_next set.
SetAudioNextOnly(t) ==
  /\ At(t, "set_audio_next")
  /\ g_audio_auto_next' = (g_audio_auto_next \/ Call(t).arg)
  /\ stopping' = IF ~Call(t).arg /\ \A s \in Threads \ {t, "mgr"} : ~Starting(s)
                 THEN "cleared" ELSE stopping
  /\ Done(t)
  /\ UNCHANGED <<g_auto_resume_prev, g_audio_local_index, g_audio_local_max, queueVars, infoVars,
                 playerVars, lockVars, calls, timeouts>>
SetAudioNext(t) ==
  /\ At(t, "set_audio_next")
  /\ g_audio_auto_next' = Call(t).arg
  /\ stopping' = IF ~Call(t).arg /\ \A s \in Threads \ {t, "mgr"} : ~Starting(s)
                 THEN "cleared" ELSE stopping
  /\ Done(t)
  /\ UNCHANGED <<g_auto_resume_prev, g_audio_local_index, g_audio_local_max, queueVars, infoVars,
                 playerVars, lockVars, calls, timeouts>>

SetAutoResume(t) ==
  /\ At(t, "set_auto_resume_prev")
  /\ g_auto_resume_prev' = Call(t).arg
  /\ Done(t)
  /\ UNCHANGED <<g_audio_auto_next, g_audio_local_index, g_audio_local_max, queueVars, infoVars,
                 playerVars, lockVars, countVars>>

\* audio_mgr_new_player, then the rest of audio_mgr_player_start
NewPlayer(t) ==
  /\ At(t, "player_start")
  /\ LET f == Call(t).arg
     IN  /\ g_audio_auto_next' = (g_audio_auto_next \/ PlayerOf(f) = "resource")
         /\ Becomes(t, <<Do("prompt_wait", f), Do("send", Message("START", Info(f)))>>)
  /\ UNCHANGED <<g_auto_resume_prev, g_audio_local_index, g_audio_local_max, queueVars, infoVars,
                 playerVars, lockVars, countVars>>

\* audio_mgr_player_start_wait_finish
NewPlayerWaitFinish(t) ==
  /\ At(t, "player_start_wait_finish")
  /\ LET f == Call(t).arg
     IN  Becomes(t, (IF PlayerOf(f) = "prompt" THEN <<Do("prompt_wait", f)>> ELSE <<>>)
                      \o AudioPlayerStart(Info(f)) \o <<Do("finish", PlayerOf(f))>>)
  /\ UNCHANGED <<mgrVars, queueVars, infoVars, playerVars, lockVars, countVars>>

\* MUTATION (OnlyReportsDeadlock): the source of the prompt that plays is not looked at.
PromptBusyWhatever(f) == cur_state["prompt"] # "IDLE" /\ f = "PROMPT"
\* The condition of audio_mgr_player_prompt_wait: prompts out of the flash queue up.
PromptBusy(f) == cur_state["prompt"] # "IDLE" /\ flag["prompt"] = "PROMPT" /\ f = "PROMPT"

PromptWait(t) ==
  /\ At(t, "prompt_wait")
  /\ ~PromptBusy(Call(t).arg)
  /\ Done(t)
  /\ UNCHANGED <<mgrVars, queueVars, infoVars, playerVars, lockVars, countVars>>

Send(t) ==
  /\ At(t, "send")
  /\ Queue!Put(Call(t).arg)
  /\ Done(t)
  /\ UNCHANGED <<mgrVars, infoVars, playerVars, lockVars, countVars>>

\* audio_mgr_player_start_next and _prev: unless it plays from the card, the server
\* is asked for the next one; what it sends is another call.
StartNextLocal(t) ==
  /\ At(t, "start_next")
  /\ g_audio_local_index' = g_audio_local_index + Call(t).arg
  /\ Becomes(t, StartLocalInner)
  /\ UNCHANGED <<g_audio_auto_next, g_auto_resume_prev, g_audio_local_max, queueVars, infoVars,
                 playerVars, lockVars, countVars>>
StartNextWeb(t) ==
  /\ At(t, "start_next")
  /\ flag["resource"] # "LOCAL"
  /\ Done(t)
  /\ UNCHANGED <<mgrVars, queueVars, infoVars, playerVars, lockVars, countVars>>

LocalMax(t) ==
  /\ At(t, "local_max")
  /\ g_audio_local_max' = NumFiles
  /\ Done(t)
  /\ UNCHANGED <<g_audio_auto_next, g_auto_resume_prev, g_audio_local_index, queueVars, infoVars,
                 playerVars, lockVars, countVars>>

\* MUTATION (IndexInRange): an index of g_audio_local_max is not turned to 0.
WrappedAlmost(i, max) == IF i < 0 THEN max - 1 ELSE IF i > max THEN 0 ELSE i
\* AUDIO_MGR_LOCAL_VAR_UPDATE
Wrapped(i, max) == IF i < 0 THEN max - 1 ELSE IF i >= max THEN 0 ELSE i
LocalUpdate(t) ==
  /\ At(t, "local_update")
  /\ g_audio_local_max' = IF g_audio_local_max <= 0 THEN NumFiles ELSE g_audio_local_max
  /\ g_audio_local_index' = Wrapped(g_audio_local_index, g_audio_local_max')
  /\ Done(t)
  /\ UNCHANGED <<g_audio_auto_next, g_auto_resume_prev, queueVars, infoVars, playerVars,
                 lockVars, countVars>>

\* tf_card_file_path_get; the start fails when the card has no such file, or cannot say.
LocalPath(t) ==
  /\ At(t, "local_path")
  /\ \/ g_audio_local_index \in 0..NumFiles - 1 /\ Becomes(t, PlayerStart("LOCAL"))
     \/ Done(t)
  /\ UNCHANGED <<mgrVars, queueVars, infoVars, playerVars, lockVars, countVars>>

CommonLock(t) ==
  /\ At(t, "common_lock")
  /\ g_common_mutex = NONE
  /\ g_common_mutex' = t
  /\ Done(t)
  /\ UNCHANGED <<mgrVars, queueVars, infoVars, playerVars, mutex, waiting, countVars>>

CommonUnlock(t) ==
  /\ At(t, "common_unlock")
  /\ g_common_mutex' = NONE
  /\ Done(t)
  /\ UNCHANGED <<mgrVars, queueVars, infoVars, playerVars, mutex, waiting, countVars>>

FreeMessage(t) ==
  /\ At(t, "free")
  /\ taken' = NONE
  /\ Done(t)
  /\ UNCHANGED <<mgrVars, box, infoVars, playerVars, lockVars, countVars>>

\* The loop of wait_finish: another session, or none.
Finish(t) ==
  /\ At(t, "finish")
  /\ cur_state[Call(t).arg] = "IDLE" \/ starter[Call(t).arg] # t
  /\ Done(t)
  /\ UNCHANGED <<mgrVars, queueVars, infoVars, playerVars, lockVars, countVars>>

-----------------------------------------------------------------------------
(* audio_player_stop, the second half of _start, _pause, _break and _resume *)

Ops == {"stop", "start", "pause", "break", "resume"}
\* The states in which an operation sets its event, and the answers it waits for.
Wanted(op) == CASE op = "stop"   -> States \ {"IDLE"}
                [] op = "start"  -> States
                [] op = "resume" -> {"PAUSE", "BREAK"}
                [] OTHER         -> {"PLAY"}
CommandOf(op) == CASE op = "stop"   -> "STOP"   [] op = "start" -> "START"
                   [] op = "resume" -> "RESUME" [] op = "pause" -> "PAUSE"
                   [] op = "break"  -> "BREAK"
Acks(op) == CASE op = "stop"  -> {"STOP_DONE"}
              [] op = "start" -> {"START_DONE"}
              [] op = "pause" -> {"PAUSE_DONE", "STOP_DONE"}
              [] op = "break" -> {"BREAK_DONE", "STOP_DONE"}

\* t makes a player's call that it has not begun, and the lock is free.
Locks(t) == /\ todo[t] # <<>> /\ Call(t).op \in Ops
            /\ mutex[Call(t).arg] = NONE

\* The lock is taken and the state is found to be the one for the call.
Check(t) ==
  /\ Locks(t)
  /\ LET p == Call(t).arg  op == Call(t).op
     IN  /\ cur_state[p] \in Wanted(op)
         /\ mutex' = [mutex EXCEPT ![p] = t]
         /\ auto_resume_prev' = [auto_resume_prev EXCEPT ![p] =
              IF op = "start" THEN Call(t).info.auto_resume_prev ELSE @ /\ op # "stop"]
         /\ IF op = "start"
            THEN /\ flag' = [flag EXCEPT ![p] = Call(t).info.flag]
                 /\ last_error' = [last_error EXCEPT ![p] = "SUCCESS"]
                 /\ starter' = [starter EXCEPT ![p] = t]
                 /\ overrun' = IF cur_state[p] = "IDLE" THEN overrun ELSE overrun \cup {p}
            ELSE UNCHANGED <<flag, last_error, starter, overrun>>
  /\ UNCHANGED <<mgrVars, queueVars, cur_state, event, phase, todo, waiting, g_common_mutex,
                 countVars>>

\* The event is set, whatever the state is by now; all but a resume wait for an
\* answer with the lock held.
Post(t) ==
  /\ todo[t] # <<>> /\ Call(t).op \in Ops
  /\ mutex[Call(t).arg] = t /\ t \notin waiting
  /\ LET p == Call(t).arg  op == Call(t).op
     IN  /\ event' = [event EXCEPT ![p] = @ \cup {CommandOf(op)}]
         /\ IF op = "resume"
            THEN /\ mutex' = [mutex EXCEPT ![p] = NONE]
                 /\ Done(t) /\ UNCHANGED waiting
            ELSE waiting' = waiting \cup {t} /\ UNCHANGED <<todo, mutex>>
  /\ UNCHANGED <<mgrVars, queueVars, infoVars, cur_state, last_error, phase, g_common_mutex,
                 countVars>>

\* MUTATION (ManagerReturns): the error return of audio_player_pause and audio_player_break
\* keeps the lock.
RefusedLocked(t) ==
  /\ Locks(t)
  /\ LET p == Call(t).arg  op == Call(t).op
     IN  /\ cur_state[p] \notin Wanted(op)
         /\ event' = [event EXCEPT ![p] = IF op = "stop" THEN {} ELSE @]
         /\ auto_resume_prev' = [auto_resume_prev EXCEPT ![p] = @ /\ op # "stop"]
         /\ mutex' = [mutex EXCEPT ![p] = IF op \in {"pause", "break"} THEN t ELSE @]
  /\ Done(t)
  /\ UNCHANGED <<mgrVars, queueVars, flag, starter, overrun, cur_state, last_error, phase,
                 waiting, g_common_mutex, countVars>>
\* There is nothing to stop, or the state is not the one for the call.
Refused(t) ==
  /\ Locks(t)
  /\ LET p == Call(t).arg  op == Call(t).op
     IN  /\ cur_state[p] \notin Wanted(op)
         /\ event' = [event EXCEPT ![p] = IF op = "stop" THEN {} ELSE @]
         /\ auto_resume_prev' = [auto_resume_prev EXCEPT ![p] = @ /\ op # "stop"]
  /\ Done(t)
  /\ UNCHANGED <<mgrVars, queueVars, flag, starter, overrun, cur_state, last_error, phase,
                 lockVars, countVars>>

Answered(t) == event[Call(t).arg] \cap Acks(Call(t).op)

\* The wait ends with an answer or after 30 s without one; audio_player_stop then
\* clears all events.
Return(t) ==
  /\ t \in waiting
  /\ LET p == Call(t).arg
     IN  /\ event' = [event EXCEPT ![p] = IF Call(t).op = "stop" THEN {} ELSE @ \ Answered(t)]
         /\ mutex' = [mutex EXCEPT ![p] = NONE]
  /\ waiting' = waiting \ {t}
  /\ Done(t)
  /\ UNCHANGED <<mgrVars, queueVars, infoVars, cur_state, last_error, phase, g_common_mutex,
                 stopping, calls>>
Answer(t) == t \in waiting /\ Answered(t) # {} /\ Return(t) /\ UNCHANGED timeouts

\* What the thread t cannot go on before, or NONE.
WaitsFor(t) ==
  IF todo[t] = <<>> THEN NONE
  ELSE IF t \in waiting /\ Answered(t) = {} THEN Call(t).arg
  ELSE IF Call(t).op \in Ops /\ t \notin waiting /\ mutex[Call(t).arg] # t THEN mutex[Call(t).arg]
  ELSE IF Call(t).op = "common_lock" THEN g_common_mutex
  ELSE IF Call(t).op = "prompt_wait" /\ PromptBusy(Call(t).arg) THEN "prompt"
  ELSE NONE
\* Each of S waits for one of S.
Circle(S) == S # {} /\ \A t \in S : WaitsFor(t) \in S

\* A worker that waits for an event nobody has set, or plays on.
WorkerRests(p) ==
  /\ phase[p] = "loop" /\ todo[p] = <<>>
  /\ \/ cur_state[p] = "IDLE" /\ "START" \notin event[p]
     \/ cur_state[p] \in {"PAUSE", "BREAK"} /\ event[p] \cap {"STOP", "RESUME"} = {}
     \/ cur_state[p] = "PLAY" /\ event[p] \cap Commands = {}

\* No answer will come but by giving up, here or elsewhere.
Starved(t) == WorkerRests(Call(t).arg) \/ \E S \in SUBSET Threads : t \in S /\ Circle(S)

Timeout(t) ==
  /\ t \in waiting /\ Answered(t) = {}
  /\ Return(t)
  /\ IF Starved(t) THEN UNCHANGED timeouts
     ELSE timeouts < MaxTimeouts /\ timeouts' = timeouts + 1

CallStep(t) ==
  \/ SetAudioNext(t) \/ SetAutoResume(t) \/ NewPlayer(t) \/ NewPlayerWaitFinish(t)
  \/ PromptWait(t) \/ Send(t) \/ StartNextLocal(t) \/ StartNextWeb(t)
  \/ LocalMax(t) \/ LocalUpdate(t) \/ LocalPath(t)
  \/ CommonLock(t) \/ CommonUnlock(t) \/ FreeMessage(t) \/ Finish(t)
  \/ Check(t) \/ Post(t) \/ Refused(t) \/ Answer(t) \/ Timeout(t)

-----------------------------------------------------------------------------
(* audio_player_task, the worker of the player p *)

Worker(p, from, to) == phase[p] = from /\ todo[p] = <<>> /\ phase' = [phase EXCEPT ![p] = to]
Enter(p, s)  == cur_state' = [cur_state EXCEPT ![p] = s]
SetError(p, e) == last_error' = [last_error EXCEPT ![p] = IF @ = "SUCCESS" THEN e ELSE @]
workRest == <<mgrVars, queueVars, infoVars, lockVars, countVars>>

WorkerStart(p) ==
  /\ Worker(p, "loop", "scan")
  /\ cur_state[p] = "IDLE" /\ "START" \in event[p]
  /\ event' = [event EXCEPT ![p] = @ \ {"START", "STOP_DONE"}]
  /\ Enter(p, "START")
  /\ UNCHANGED <<workRest, last_error, todo>>

\* audio_player_proc_start: no file, or the other player is broken off first.
WorkerScan(p) ==
  /\ Worker(p, "scan", "open")
  /\ todo' = [todo EXCEPT ![p] = IF cur_state[Other(p)] = "PLAY"
                                 THEN <<Do("break", Other(p))>> ELSE <<>>]
  /\ UNCHANGED <<workRest, cur_state, event, last_error>>
WorkerNoFile(p) ==
  /\ Worker(p, "scan", "loop")
  /\ flag[p] # "PROMPT"
  /\ Enter(p, "STOP")
  /\ SetError(p, "ERR")
  /\ event' = [event EXCEPT ![p] = @ \cup {"START_DONE"}]
  /\ UNCHANGED <<workRest, todo>>

\* com_player_start: a prompt out of the flash gives no data and never plays.
WorkerOpen(p) ==
  /\ Worker(p, "open", "loop")
  /\ \/ flag[p] # "PROMPT" /\ Enter(p, "PLAY") /\ UNCHANGED last_error
     \/ Enter(p, "STOP") /\ SetError(p, "ERR")
  /\ event' = [event EXCEPT ![p] = @ \cup {"START_DONE"}]
  /\ UNCHANGED <<workRest, todo>>

\* The session ends by itself.
WorkerEnd(p) ==
  /\ Worker(p, "loop", "loop")
  /\ cur_state[p] = "PLAY" /\ event[p] \cap Commands = {}
  /\ Enter(p, "STOP")
  /\ \E e \in {"ALL_END", "ERR"} : SetError(p, e)
  /\ UNCHANGED <<workRest, event, todo>>

WorkerStop(p) ==
  /\ Worker(p, "loop", "loop")
  /\ cur_state[p] \in {"PLAY", "PAUSE", "BREAK"} /\ "STOP" \in event[p]
  /\ event' = [event EXCEPT ![p] = @ \ (IF cur_state[p] = "PLAY" THEN Commands
                                        ELSE {"STOP", "RESUME"})]
  /\ Enter(p, "STOP")
  /\ \/ UNCHANGED last_error
     \/ cur_state[p] = "PLAY" /\ \E e \in {"ALL_END", "ERR"} : SetError(p, e)
  /\ UNCHANGED <<workRest, todo>>

\* STA_PLAY takes PAUSE before BREAK; the session may still turn out to have ended.
WorkerHalt(p) ==
  /\ Worker(p, "loop", "loop")
  /\ cur_state[p] = "PLAY" /\ "STOP" \notin event[p]
  /\ \E c \in {"PAUSE", "BREAK"} \cap event[p] :
       /\ c = "BREAK" => "PAUSE" \notin event[p]
       /\ event' = [event EXCEPT ![p] = (@ \ Commands)
                      \cup {IF c = "PAUSE" THEN "PAUSE_DONE" ELSE "BREAK_DONE"}]
       /\ \/ Enter(p, c) /\ UNCHANGED last_error
          \/ Enter(p, "STOP") /\ \E e \in {"ALL_END", "ERR"} : SetError(p, e)
  /\ UNCHANGED <<workRest, todo>>

\* A resume in STA_PLAY is taken and nothing else.
WorkerResume(p) ==
  /\ Worker(p, "loop", "loop")
  /\ cur_state[p] \in {"PLAY", "PAUSE", "BREAK"} /\ "RESUME" \in event[p]
  /\ "STOP" \notin event[p]
  /\ cur_state[p] = "PLAY" => event[p] \cap {"PAUSE", "BREAK"} = {}
  /\ event' = [event EXCEPT ![p] = @ \ {"RESUME"}]
  /\ \/ Enter(p, "PLAY") /\ UNCHANGED last_error
     \/ Enter(p, "STOP") /\ SetError(p, "ERR")
  /\ UNCHANGED <<workRest, todo>>

\* audio_player_proc_stop: __audio_player_after_stop, the callback, then STA_IDLE.
WorkerAfterStop(p) ==
  /\ Worker(p, "loop", "callback")
  /\ cur_state[p] = "STOP"
  /\ todo' = [todo EXCEPT ![p] = IF auto_resume_prev[p] /\ cur_state[Other(p)] = "BREAK"
                                 THEN <<Do("resume", Other(p))>> ELSE <<>>]
  /\ UNCHANGED <<workRest, cur_state, event, last_error>>

WorkerCallback(p) ==
  /\ Worker(p, "callback", "leave")
  /\ todo' = [todo EXCEPT ![p] = Callback(p)]
  /\ UNCHANGED <<workRest, cur_state, event, last_error>>

WorkerIdle(p) ==
  /\ Worker(p, "leave", "loop")
  /\ Enter(p, "IDLE")
  /\ event' = [event EXCEPT ![p] = (@ \cup {"STOP_DONE"}) \ {"START_DONE"}]
  /\ UNCHANGED <<workRest, last_error, todo>>

WorkerStep(p) ==
  \/ WorkerStart(p) \/ WorkerScan(p) \/ WorkerNoFile(p) \/ WorkerOpen(p)
  \/ WorkerStop(p) \/ WorkerHalt(p) \/ WorkerResume(p)
  \/ WorkerAfterStop(p) \/ WorkerCallback(p) \/ WorkerIdle(p)

-----------------------------------------------------------------------------
\* audio_mgr_task, audio_msg_queue_recv
Take ==
  /\ todo["mgr"] = <<>>
  /\ Queue!Take
  /\ todo' = [todo EXCEPT !["mgr"] = Handle(box)]
  /\ stopping' = IF stopping = "cleared" /\ box.event = "STOP" THEN "taken" ELSE stopping
  /\ UNCHANGED <<mgrVars, infoVars, playerVars, lockVars, calls, timeouts>>

Begin(t) ==
  /\ todo[t] = <<>> /\ calls < MaxCalls
  /\ calls' = calls + 1
  /\ \E f \in Api :
       /\ todo' = [todo EXCEPT ![t] = f]
       /\ stopping' = IF f \in Starts THEN "no" ELSE stopping
  /\ UNCHANGED <<mgrVars, queueVars, infoVars, playerVars, lockVars, timeouts>>

\* The users have made their calls, or wait, and nothing goes on: what has been paused is not
\* finished for wait_finish, and a worker that reports an error after its player
\* has been started over its head waits for itself.
AtRest ==
  /\ box = NONE
  /\ calls = MaxCalls \/ \A t \in Users : todo[t] # <<>>
  /\ \A t \in Threads : \/ todo[t] = <<>> \/ At(t, "finish")
                        \/ At(t, "prompt_wait") /\ "prompt" \in overrun
  /\ \A p \in Players : phase[p] # "loop" => At(p, "prompt_wait")
  /\ UNCHANGED vars

Next ==
  \/ AtRest
  \/ Take
  \/ \E t \in Users : Begin(t)
  \/ \E t \in Threads : CallStep(t)
  \/ \E p \in Players : WorkerStep(p) \/ WorkerEnd(p)

Spec == Init /\ [][Next]_vars

\* Every thread runs; a session that plays may go on for ever.
FairSpec ==
  /\ Spec /\ WF_vars(Take)
  /\ \A t \in Threads : WF_vars(CallStep(t))
  /\ \A p \in Players : WF_vars(WorkerStep(p))

-----------------------------------------------------------------------------
\* tf_card_file_path_get is asked for a file of the card, though
\* g_audio_local_index is moved first and brought back into range later (lines 28,
\* 29, 391 and 426): when it is out of range, a thread has still to do that.
IndexInRange ==
  /\ TypeOK
  /\ NumFiles > 0 /\ g_audio_local_index \notin 0..NumFiles - 1 =>
       \E t \in Threads : At(t, "local_update")

\* Once the manager has carried out a STOP the resource player stays idle until
\* somebody asks for a start: the end of the session that races with the STOP
\* does not start the next one, unless it had read g_audio_auto_next before
\* audio_mgr_player_stop cleared it (lines 335 and 625).  A worker that is slow or
\* that waits for itself may outlast the 30 s the manager waits for it.
StopHolds ==
  stopping = "taken" /\ todo["mgr"] = <<>> /\ timeouts = 0 /\ "prompt" \notin overrun =>
    cur_state["resource"] \in {"IDLE", "STOP"} /\ "START" \notin event["resource"]

\* Threads wait for each other in a circle, until a wait of 30 s gives up, only
\* when the worker of the resource player reports an error from its callback and
\* waits there for a prompt that is being started (lines 229, 592 and 631); or once
\* such a wait for the prompt player has given up, and audio_player_start has gone
\* on all the same.
OnlyReportsDeadlock ==
  "prompt" \notin overrun =>
    \A S \in SUBSET (Threads \ {t \in {"resource"} : At(t, "prompt_wait")}) : ~Circle(S)

\* Whatever the workers wait for, the manager gets back to its queue.
ManagerReturns == todo["mgr"] # <<>> ~> todo["mgr"] = <<>>
=============================================================================
