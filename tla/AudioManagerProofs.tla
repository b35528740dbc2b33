------------------------- MODULE AudioManagerProofs -------------------------
(***************************************************************************)
(* Theorems about AudioManager, for any number of users, calls, given-up   *)
(* waits and files: IndexInRange (with the type invariant), StopHolds and  *)
(* OnlyReportsDeadlock.                                                    *)
(*                                                                         *)
(* What a thread has still to do, todo[t], is a sequence of calls.  Most   *)
(* parts of the invariant say which sequences there can be: which calls a  *)
(* thread makes (TodoInv), where in audio_player_start it is when it holds *)
(* g_common_mutex (CommonInv), and that after audio_mgr_player_stop none   *)
(* begins a session of the resource player (OrderInv, QuietInv).  The      *)
(* others relate them to the players: LockInv, WorkerInv, HeldInv.         *)
(*                                                                         *)
(* A circle of threads would need a worker that waits (NoCircle): in open  *)
(* or callback it calls the other player, whose worker then does not call  *)
(* back; when it leaves with an error it waits for the prompt, which is    *)
(* the one circle OnlyReportsDeadlock admits.  StopDone shows from it that *)
(* a stop that gives up has found the resource player at rest, or in its   *)
(* callback, on its way there.                                             *)
(***************************************************************************)
EXTENDS AudioManager, FiniteSetTheorems, SequenceTheorems, TLAPS

-----------------------------------------------------------------------------
(* The invariant *)

\* What the threads may have to do: the calls the code makes, and of which player.
Infos(F)    == [flag : F, auto_resume_prev : BOOLEAN]
Requests(F) == [event : {"START"}, info : Infos(F)]
Messages    == Requests(Flags) \cup [event : {"STOP", "PAUSE", "RESUME"}, info : {NONE}]
FlagsOf(p)  == {f \in Flags : PlayerOf(f) = p}

Calls(ops, args) == [op : ops, arg : args, info : {NONE}]
StartCalls(p) == [op : {"start"}, arg : {p}, info : Infos(FlagsOf(p))]
SessionCalls  == Calls({"common_lock", "common_unlock"}, {NONE}) \cup Calls({"stop"}, Players)
                   \cup StartCalls("prompt") \cup StartCalls("resource")
ReportCalls   == Calls({"player_start", "prompt_wait"}, {"PROMPT"})
                   \cup Calls({"send"}, Requests({"PROMPT"}))
LocalCalls    == Calls({"start_next"}, {1}) \cup Calls({"local_update", "local_path"}, {NONE})
                   \cup Calls({"player_start", "prompt_wait"}, {"LOCAL"})
                   \cup Calls({"send"}, Requests({"LOCAL"}))
MgrCalls      == SessionCalls \cup Calls({"pause", "resume"}, Players) \cup Calls({"free"}, {NONE})
ApiCalls      == Calls({"stop", "break", "finish"}, Players)
                   \cup Calls({"local_max", "local_update", "local_path"}, {NONE})
                   \cup Calls({"start_next"}, {1, -1})
                   \cup Calls({"set_audio_next", "set_auto_resume_prev"}, BOOLEAN)
                   \cup Calls({"player_start", "player_start_wait_finish", "prompt_wait"}, Flags)
                   \cup Calls({"send"}, Messages)
UserCalls     == SessionCalls \cup ApiCalls
CallsAt(t) ==
  IF t = "mgr" THEN MgrCalls
  ELSE IF t \in Users THEN UserCalls
  ELSE IF phase[t] = "open" THEN Calls({"break"}, {Other(t)})
  ELSE IF phase[t] = "callback" THEN Calls({"resume"}, {Other(t)})
  ELSE IF phase[t] = "leave" THEN ReportCalls \cup (IF t = "resource" THEN LocalCalls ELSE {})
  ELSE {}
AllCalls == MgrCalls \cup UserCalls

TodoInv == /\ todo \in [Threads -> Seq(AllCalls)]
           /\ \A t \in Threads : todo[t] \in Seq(CallsAt(t))
           /\ box \in Messages \cup {NONE}

MgrTypes ==
  /\ g_audio_auto_next \in BOOLEAN /\ g_auto_resume_prev \in BOOLEAN
  /\ g_audio_local_index \in Int /\ g_audio_local_max \in {0, NumFiles}
InfoTypes ==
  /\ auto_resume_prev \in [Players -> BOOLEAN]
  /\ flag \in [Players -> Flags] /\ starter \in [Players -> Threads \cup {NONE}]
  /\ overrun \subseteq Players
PlayerTypes ==
  /\ cur_state \in [Players -> States]
  /\ event \in [Players -> SUBSET Events]
  /\ last_error \in [Players -> {"SUCCESS", "ALL_END", "ERR"}]
  /\ phase \in [Players -> {"loop", "scan", "open", "after", "callback", "leave"}]
LockTypes ==
  /\ waiting \subseteq Threads
  /\ mutex \in [Players -> Threads \cup {NONE}]
  /\ g_common_mutex \in Threads \cup {NONE}
CountTypes ==
  /\ stopping \in {"no", "cleared", "taken"}
  /\ calls \in 0..MaxCalls /\ timeouts \in 0..MaxTimeouts
TypeInv == MgrTypes /\ InfoTypes /\ PlayerTypes /\ LockTypes /\ CountTypes

\* Who holds a player's lock makes a call of that player, and who waits holds it.
LockInv ==
  /\ \A p \in Players, t \in Threads : mutex[p] = t =>
       todo[t] # <<>> /\ Call(t).op \in Ops /\ Call(t).arg = p
  /\ \A t \in waiting : /\ todo[t] # <<>> /\ Call(t).op \in Ops \ {"resume"}
                         /\ mutex[Call(t).arg] = t

\* A session is started with g_common_mutex held, from the lock to the unlock.
Plain      == {c \in AllCalls : c.op \notin {"common_lock", "common_unlock", "start"}}
Unlocks(s) == s # <<>> /\ Head(s) = Do("common_unlock", NONE) /\ Tail(s) \in Seq(Plain)
Begins(s)  == /\ s # <<>> /\ Head(s) \in StartCalls("prompt") \cup StartCalls("resource")
              /\ Unlocks(Tail(s))
Ends(s)    == s # <<>> /\ Begins(Tail(s)) /\ Head(s) = Stop(Head(Tail(s)).arg)
Locked(s)  == s # <<>> /\ Head(s) = Do("common_lock", NONE) /\ Ends(Tail(s))
Queued(s)  == s # <<>> /\ Head(s).op = "prompt_wait" /\ Locked(Tail(s))
Inside(s)  == Unlocks(s) \/ Begins(s) \/ Ends(s)
Outside(s) == s \in Seq(Plain) \/ Locked(s) \/ Queued(s)
CommonInv ==
  \A t \in Threads : IF g_common_mutex = t THEN Inside(todo[t]) ELSE Outside(todo[t])

\* The state of a player, by where its worker is.  The workers do not both call the
\* other's player; a prompt out of the flash reports no error.
Calling(p) == phase[p] \in {"open", "callback"} /\ todo[p] # <<>>
WorkerInv ==
  /\ \A p \in Players :
       /\ phase[p] = "loop" => cur_state[p] # "START"
       /\ phase[p] \in {"scan", "open"} => cur_state[p] = "START"
       /\ phase[p] \in {"callback", "leave"} => cur_state[p] = "STOP"
       /\ "STOP_DONE" \in event[p] => cur_state[p] = "IDLE"
  /\ \E p \in Players : ~Calling(p)
  /\ phase["prompt"] = "leave" /\ todo["prompt"] # <<>> =>
       flag["prompt"] # "PROMPT" \/ "prompt" \in overrun

\* The index is out of range by no more than the threads that have moved it and not
\* yet looked at it; a card without files has the index -1 or 0.
Lo == IF NumFiles = 0 THEN -1 ELSE 0
Hi == IF NumFiles = 0 THEN 0 ELSE NumFiles - 1
Updaters == {t \in Threads : At(t, "local_update")}
IndexInv == /\ Lo - Cardinality(Updaters) <= g_audio_local_index
            /\ g_audio_local_index <= Hi + Cardinality(Updaters)

\* Once audio_mgr_player_stop has cleared g_audio_auto_next nothing that a thread has
\* still to do begins a session of the resource player, nor does it set
\* g_audio_auto_next again: only audio_mgr_player_start_local does, and looks for the
\* files after that.
StartsResource(c) ==
  \/ c.op \in {"local_max", "local_update", "local_path", "start_next"}
  \/ c.op \in {"player_start", "player_start_wait_finish"} /\ PlayerOf(c.arg) = "resource"
  \/ c.op = "start" /\ c.arg = "resource"
  \/ c.op = "send" /\ c.arg.event = "START" /\ PlayerOf(c.arg.info.flag) = "resource"
Unset == {c \in AllCalls : c.op # "set_audio_next"}
Quiet == {c \in AllCalls : ~StartsResource(c) /\ ~(c.op = "set_audio_next" /\ c.arg)}
SetOrder(s) ==
  \/ s \in Seq(Unset)
  \/ s # <<>> /\ Head(s) = Do("set_audio_next", FALSE) /\ Tail(s) \in Seq(Unset \cap Quiet)
  \/ /\ s # <<>> /\ Head(s) = Do("set_audio_next", TRUE) /\ Tail(s) \in Seq(Unset)
     /\ \E i \in DOMAIN s : StartsResource(s[i])
OrderInv == \A t \in Threads : SetOrder(todo[t])
QuietInv ==
  /\ stopping # "no" => ~g_audio_auto_next /\ \A t \in Threads \ {"mgr"} : todo[t] \in Seq(Quiet)
  /\ stopping = "taken" =>
       /\ todo["mgr"] \in Seq(Quiet)
       /\ box # NONE => ~(box.event = "START" /\ PlayerOf(box.info.flag) = "resource")

\* Between the stop of audio_player_start and its start, and once the manager has
\* carried out a STOP, the resource player is held: it is idle or about to be, and is
\* not told to start.
Held   == cur_state["resource"] \in {"IDLE", "STOP"} /\ "START" \notin event["resource"]
Intact == timeouts = 0 /\ "prompt" \notin overrun
NotStop == {c \in AllCalls : ~(c.op = "stop" /\ c.arg = "resource")}
OnResource(t, op) == At(t, op) /\ Call(t).arg = "resource"
HeldInv ==
  Intact =>
    /\ "START" \in event["resource"] => cur_state["resource"] \in {"IDLE", "STOP"}
    /\ \A t \in Threads \ waiting : OnResource(t, "start") => Held
    /\ \A t \in waiting : OnResource(t, "stop") => "STOP" \in event["resource"] \/ Held
    /\ stopping = "taken" /\ todo["mgr"] \in Seq(NotStop) => Held

-----------------------------------------------------------------------------
(* The calls *)

\* The users, the manager and the two workers are different threads.
LEMMA PlayersDistinct ==
  /\ Players = {"prompt", "resource"}
  /\ Other("prompt") = "resource" /\ Other("resource") = "prompt"
  /\ \A p \in Players : Other(p) \in Players /\ Other(p) # p
  /\ "mgr" \notin Users /\ "prompt" \notin Users /\ "resource" \notin Users
  /\ Users \subseteq Threads /\ Players \subseteq Threads /\ "mgr" \in Threads
  /\ \A t \in Threads : t \in Users \/ t \in Players \/ t = "mgr"
  /\ \A f \in Flags : PlayerOf(f) \in Players
  /\ NONE \notin Threads
<1>1. Other("prompt") = "resource" /\ Other("resource") = "prompt"
  BY DEF Other, Players
<1> QED
  BY <1>1, UsersAssumption DEF Players, Threads, PlayerOf

\* Every call of a worker may be made by some thread, so it is in AllCalls.
LEMMA CallSets ==
  /\ ReportCalls \cup LocalCalls \cup UserCalls \cup MgrCalls \subseteq AllCalls
  /\ \A p \in Players : Calls({"break"}, {p}) \cup Calls({"resume"}, {p}) \subseteq AllCalls
<1>1. ReportCalls \cup LocalCalls \subseteq UserCalls
  BY DEF ReportCalls, LocalCalls, UserCalls, ApiCalls, Requests, Messages, Flags, Infos, Calls
<1> QED
  BY <1>1 DEF AllCalls, MgrCalls, UserCalls, ApiCalls, Calls

\* Whatever a thread may call is in AllCalls, and is a record of three fields.
LEMMA CallsSound ==
  ASSUME NEW t \in Threads
  PROVE  /\ CallsAt(t) \subseteq AllCalls
         /\ \A c \in CallsAt(t) : DOMAIN c = {"op", "arg", "info"}
<1> USE PlayersDistinct DEF Calls, StartCalls, Infos
<1>1. \A c \in AllCalls : DOMAIN c = {"op", "arg", "info"}
  BY DEF AllCalls, MgrCalls, UserCalls, ApiCalls, SessionCalls
<1>2. CallsAt(t) \subseteq AllCalls
  BY CallSets DEF CallsAt
<1> QED
  BY <1>1, <1>2

\* What a thread does next is a call it may make, and so is what follows.
LEMMA HeadSound ==
  ASSUME TodoInv, NEW t \in Threads, todo[t] # <<>>
  PROVE  /\ Call(t) \in CallsAt(t) /\ Tail(todo[t]) \in Seq(CallsAt(t))
         /\ Call(t) \in AllCalls /\ Tail(todo[t]) \in Seq(AllCalls)
<1>1. todo[t] \in Seq(CallsAt(t))
  BY DEF TodoInv
<1>2. Call(t) \in CallsAt(t) /\ Tail(todo[t]) \in Seq(CallsAt(t))
  BY <1>1 DEF Call
<1>3. CallsAt(t) \subseteq AllCalls
  BY CallsSound
<1> QED
  BY <1>2, <1>3

\* A request becomes calls that its thread may make.
LEMMA BecomesSound ==
  ASSUME TodoInv, TypeInv, NEW t \in Threads, todo[t] # <<>>, NEW S, NEW s \in Seq(S),
         S \subseteq CallsAt(t), Becomes(t, s), phase' = phase, box' \in Messages \cup {NONE}
  PROVE  /\ TodoInv'
         /\ todo'[t] = s \o Tail(todo[t])
         /\ \A u \in Threads \ {t} : todo'[u] = todo[u]
<1>1. Tail(todo[t]) \in Seq(CallsAt(t)) /\ CallsAt(t) \subseteq AllCalls
  BY HeadSound, CallsSound
<1>2. s \in Seq(CallsAt(t))
  OBVIOUS
<1>3. s \o Tail(todo[t]) \in Seq(CallsAt(t)) /\ s \o Tail(todo[t]) \in Seq(AllCalls)
  BY <1>1, <1>2
<1>4. /\ todo' \in [Threads -> Seq(AllCalls)] /\ todo'[t] = s \o Tail(todo[t])
      /\ \A u \in Threads \ {t} : todo'[u] = todo[u]
  BY <1>3 DEF TodoInv, Becomes
<1>5. \A u \in Threads : CallsAt(u)' = CallsAt(u)
  BY DEF CallsAt
<1> QED
  BY <1>3, <1>4, <1>5 DEF TodoInv

\* A call that is done is taken off what its thread has to do.
LEMMA DoneSound ==
  ASSUME TodoInv, TypeInv, NEW t \in Threads, todo[t] # <<>>, Done(t), phase' = phase,
         box' \in Messages \cup {NONE}
  PROVE  /\ TodoInv'
         /\ todo'[t] = Tail(todo[t])
         /\ \A u \in Threads \ {t} : todo'[u] = todo[u]
<1>1. Tail(todo[t]) \in Seq(CallsAt(t)) /\ Tail(todo[t]) \in Seq(AllCalls)
  BY HeadSound
<1>2. <<>> \o Tail(todo[t]) = Tail(todo[t])
  BY <1>1
<1>3. /\ todo' \in [Threads -> Seq(AllCalls)] /\ todo'[t] = Tail(todo[t])
      /\ \A u \in Threads \ {t} : todo'[u] = todo[u]
  BY <1>1, <1>2 DEF TodoInv, Becomes, Done
<1>4. \A u \in Threads : CallsAt(u)' = CallsAt(u)
  BY DEF CallsAt
<1> QED
  BY <1>1, <1>3, <1>4 DEF TodoInv

-----------------------------------------------------------------------------
(* What becomes of the requests *)

\* audio_mgr_player_start: a wait for the prompt and a message to the manager.
LEMMA NewPlayerCalls ==
  ASSUME TypeInv, TodoInv, NEW t \in Threads, At(t, "player_start"), NEW f, f = Call(t).arg
  PROVE  /\ f \in Flags
         /\ {Do("prompt_wait", f), Do("send", Message("START", Info(f)))} \subseteq CallsAt(t)
<1> USE PlayersDistinct DEF Calls, Do
<1>1. Call(t) \in CallsAt(t) /\ Call(t).op = "player_start"
  BY HeadSound DEF At
<1>2. Message("START", Info(f)) \in Requests({f})
        /\ Requests({"PROMPT"}) \cup Requests({"LOCAL"}) \subseteq Messages
  BY DEF Message, Info, Requests, Infos, TypeInv, MgrTypes, Messages, Flags
<1>3. CASE t \in Users
  <2>1. Call(t) \in UserCalls
    BY <1>1, <1>3 DEF CallsAt
  <2>2. f \in Flags
    BY <2>1, <1>1 DEF UserCalls, ApiCalls, SessionCalls, StartCalls
  <2>3. Message("START", Info(f)) \in Messages
    BY <1>2, <2>2 DEF Requests, Infos, Messages
  <2> QED
    BY <1>3, <2>2, <2>3 DEF CallsAt, UserCalls, ApiCalls
<1>4. CASE t = "mgr"
  BY <1>1, <1>4 DEF CallsAt, MgrCalls, SessionCalls, StartCalls
<1>5. CASE t \in Players
  <2>1. phase[t] = "leave" /\ Call(t) \in ReportCalls \cup LocalCalls
    BY <1>1, <1>5 DEF CallsAt
  <2>2. CASE Call(t) \in ReportCalls
    BY <1>1, <1>2, <1>5, <2>1, <2>2 DEF CallsAt, ReportCalls, Flags
  <2>3. CASE Call(t) \in LocalCalls
    <3>1. t = "resource" \/ Call(t) \in ReportCalls
      BY <1>1, <1>5, <2>1 DEF CallsAt
    <3> QED
      BY <1>1, <1>2, <1>5, <2>1, <2>2, <2>3, <3>1 DEF CallsAt, LocalCalls, Flags
  <2> QED
    BY <2>1, <2>2, <2>3
<1> QED
  BY <1>3, <1>4, <1>5

\* audio_player_start makes calls of a session only.
LEMMA SessionSound ==
  ASSUME NEW info \in Infos(Flags)
  PROVE  /\ PlayerOf(info.flag) \in Players
         /\ With("start", PlayerOf(info.flag), info) \in StartCalls(PlayerOf(info.flag))
         /\ AudioPlayerStart(info) \in Seq(SessionCalls)
<1> USE PlayersDistinct
<1>1. PlayerOf(info.flag) \in Players
  BY DEF Infos
<1>2. With("start", PlayerOf(info.flag), info) \in StartCalls(PlayerOf(info.flag))
  BY <1>1 DEF With, StartCalls, Infos, FlagsOf
<1>3. {Do("common_lock", NONE), Stop(PlayerOf(info.flag)),
       With("start", PlayerOf(info.flag), info), Do("common_unlock", NONE)} \subseteq SessionCalls
  BY <1>1, <1>2 DEF SessionCalls, Do, Stop, Calls
<1> QED
  BY <1>1, <1>2, <1>3 DEF AudioPlayerStart

\* audio_mgr_player_start_wait_finish, which only users call.
LEMMA WaitFinishCalls ==
  ASSUME TypeInv, TodoInv, NEW t \in Threads, At(t, "player_start_wait_finish"),
         NEW f, f = Call(t).arg
  PROVE  /\ f \in Flags /\ t \in Users /\ Info(f) \in Infos(Flags)
         /\ (IF PlayerOf(f) = "prompt" THEN <<Do("prompt_wait", f)>> ELSE <<>>)
                \o AudioPlayerStart(Info(f)) \o <<Do("finish", PlayerOf(f))>> \in Seq(UserCalls)
<1> USE PlayersDistinct
<1>1. Call(t) \in CallsAt(t) /\ Call(t).op = "player_start_wait_finish"
  BY HeadSound DEF At
<1>2. t \in Users /\ f \in Flags
  BY <1>1
     DEF CallsAt, UserCalls, ApiCalls, MgrCalls, SessionCalls, StartCalls, ReportCalls,
         LocalCalls, Calls
<1>3. Info(f) \in Infos(Flags)
  BY <1>2 DEF Info, Infos, TypeInv, MgrTypes
<1>4. AudioPlayerStart(Info(f)) \in Seq(UserCalls)
  <2>1. SessionCalls \subseteq UserCalls
    BY DEF UserCalls, ApiCalls
  <2> QED
    BY <1>3, <2>1, SessionSound
<1>5. Do("prompt_wait", f) \in UserCalls /\ Do("finish", PlayerOf(f)) \in UserCalls
  BY <1>2 DEF Do, UserCalls, ApiCalls, Calls
<1> QED
  BY <1>2, <1>3, <1>4, <1>5

\* Users and the resource player's worker move on to another file of the card.
LEMMA LocalSound ==
  ASSUME NEW t \in Threads, NEW c \in CallsAt(t),
         c.op \in {"start_next", "local_update", "local_path"}
  PROVE  /\ {Do("local_update", NONE), Do("local_path", NONE), Do("player_start", "LOCAL")}
                \subseteq CallsAt(t)
         /\ t \in Users \cup {"resource"}
<1> USE PlayersDistinct DEF Calls, Do
<1>1. c \notin SessionCalls /\ c \notin ReportCalls
  BY DEF SessionCalls, StartCalls, ReportCalls
<1>2. t # "mgr"
  BY <1>1 DEF CallsAt, MgrCalls
<1>3. CASE t \in Users
  BY <1>3 DEF CallsAt, UserCalls, ApiCalls, Flags
<1>4. CASE t \in Players
  <2>1. phase[t] = "leave" /\ t = "resource"
    BY <1>1, <1>4 DEF CallsAt
  <2> QED
    BY <1>4, <2>1 DEF CallsAt, LocalCalls
<1> QED
  BY <1>2, <1>3, <1>4

\* A step of a call keeps every thread to the calls it may make, and changes the
\* caller's only.
LEMMA CallTodo ==
  ASSUME TypeInv, TodoInv, LockInv, NEW t \in Threads, CallStep(t)
  PROVE  TodoInv' /\ phase' = phase /\ \A u \in Threads \ {t} : todo'[u] = todo[u]
<1> USE PlayersDistinct
<1> USE DEF mgrVars, queueVars, infoVars, playerVars, lockVars, countVars, At, TodoInv
<1>1. ASSUME Done(t), todo[t] # <<>>, phase' = phase, box' \in Messages \cup {NONE}
      PROVE  TodoInv' /\ \A u \in Threads \ {t} : todo'[u] = todo[u]
  BY <1>1, DoneSound
<1>2. ASSUME UNCHANGED <<todo, phase, box>>
      PROVE  TodoInv' /\ \A u \in Threads \ {t} : todo'[u] = todo[u]
  BY <1>2 DEF CallsAt
<1>3. CASE SetAudioNext(t)
  BY <1>1, <1>3 DEF SetAudioNext
<1>4. CASE SetAutoResume(t)
  BY <1>1, <1>4 DEF SetAutoResume
<1>5. CASE NewPlayer(t)
  <2> DEFINE f == Call(t).arg
             s == <<Do("prompt_wait", f), Do("send", Message("START", Info(f)))>>
  <2>1. s \in Seq(CallsAt(t))
    BY <1>5, NewPlayerCalls DEF NewPlayer
  <2>2. Becomes(t, s) /\ phase' = phase /\ box' = box /\ todo[t] # <<>>
    BY <1>5 DEF NewPlayer
  <2> QED
    BY <2>1, <2>2, BecomesSound
<1>6. CASE NewPlayerWaitFinish(t)
  <2> DEFINE f == Call(t).arg
             s == (IF PlayerOf(f) = "prompt" THEN <<Do("prompt_wait", f)>> ELSE <<>>)
                      \o AudioPlayerStart(Info(f)) \o <<Do("finish", PlayerOf(f))>>
  <2>1. s \in Seq(UserCalls) /\ UserCalls \subseteq CallsAt(t)
    BY <1>6, WaitFinishCalls DEF NewPlayerWaitFinish, CallsAt
  <2>2. Becomes(t, s) /\ phase' = phase /\ box' = box /\ todo[t] # <<>>
    BY <1>6 DEF NewPlayerWaitFinish
  <2> QED
    BY <2>1, <2>2, BecomesSound
<1>7. CASE PromptWait(t)
  BY <1>1, <1>7 DEF PromptWait
<1>8. CASE Send(t)
  <2>1. Call(t) \in AllCalls /\ Call(t).op = "send"
    BY <1>8, HeadSound DEF Send
  <2>2. Call(t).arg \in Messages
    BY <2>1 DEF AllCalls, UserCalls, ApiCalls, MgrCalls, SessionCalls, StartCalls, Calls
  <2> QED
    BY <1>1, <1>8, <2>2 DEF Send, Queue!Put
<1>9. CASE StartNextLocal(t)
  <2>1. Call(t) \in CallsAt(t) /\ Call(t).op = "start_next"
    BY <1>9, HeadSound DEF StartNextLocal
  <2>2. StartLocalInner \in Seq(CallsAt(t))
    BY <2>1, LocalSound DEF StartLocalInner
  <2>3. Becomes(t, StartLocalInner) /\ phase' = phase /\ box' = box /\ todo[t] # <<>>
    BY <1>9 DEF StartNextLocal
  <2> QED
    BY <2>2, <2>3, BecomesSound
<1>10. CASE StartNextWeb(t)
  BY <1>1, <1>10 DEF StartNextWeb
<1>11. CASE LocalMax(t)
  BY <1>1, <1>11 DEF LocalMax
<1>12. CASE LocalUpdate(t)
  BY <1>1, <1>12 DEF LocalUpdate
<1>13. CASE LocalPath(t)
  <2>1. Call(t) \in CallsAt(t) /\ Call(t).op = "local_path"
    BY <1>13, HeadSound DEF LocalPath
  <2>2. PlayerStart("LOCAL") \in Seq(CallsAt(t))
    BY <2>1, LocalSound DEF PlayerStart
  <2>3. phase' = phase /\ box' = box /\ todo[t] # <<>>
    BY <1>13 DEF LocalPath
  <2>4. CASE Becomes(t, PlayerStart("LOCAL"))
    BY <2>2, <2>3, <2>4, BecomesSound
  <2>5. CASE Done(t)
    BY <1>1, <2>3, <2>5
  <2> QED
    BY <1>13, <2>4, <2>5, <2>3 DEF LocalPath
<1>14. CASE CommonLock(t)
  BY <1>1, <1>14 DEF CommonLock
<1>15. CASE CommonUnlock(t)
  BY <1>1, <1>15 DEF CommonUnlock
<1>16. CASE FreeMessage(t)
  BY <1>1, <1>16 DEF FreeMessage
<1>17. CASE Finish(t)
  BY <1>1, <1>17 DEF Finish
<1>18. CASE Check(t)
  BY <1>2, <1>18 DEF Check
<1>19. CASE Post(t)
  BY <1>1, <1>2, <1>19 DEF Post
<1>20. CASE Refused(t)
  BY <1>1, <1>20 DEF Refused, Locks
<1>21. CASE Return(t)
  BY <1>1, <1>21 DEF Return, LockInv
<1> QED
  BY <1>3, <1>4, <1>5, <1>6, <1>7, <1>8, <1>9, <1>10, <1>11, <1>12, <1>13, <1>14, <1>15, <1>16,
     <1>17, <1>18, <1>19, <1>20, <1>21 DEF CallStep, Answer, Timeout, SetAudioNext, SetAutoResume,
     NewPlayer, NewPlayerWaitFinish, PromptWait, Send, StartNextLocal, StartNextWeb, LocalMax,
     LocalUpdate, LocalPath, CommonLock, CommonUnlock, FreeMessage, Finish, Check, Post, Refused,
     Return

\* The manager makes only its own calls for a message.
LEMMA HandleSound ==
  ASSUME NEW m \in Messages
  PROVE  Handle(m) \in Seq(MgrCalls)
<1> USE PlayersDistinct DEF Calls, Do, Stop
<1>1. Do("free", NONE) \in MgrCalls /\ SessionCalls \subseteq MgrCalls
  BY DEF MgrCalls
<1>2. /\ {Stop("prompt"), Stop("resource"), Do("pause", "resource"), Do("resume", "resource")}
            \subseteq MgrCalls
  BY DEF MgrCalls, SessionCalls
<1>3. CASE m.event = "START"
  <2>1. m.info \in Infos(Flags)
    BY <1>3 DEF Messages, Requests
  <2>2. AudioPlayerStart(m.info) \in Seq(MgrCalls)
    BY <2>1, <1>1, SessionSound
  <2> QED
    BY <1>1, <1>3, <2>2 DEF Handle
<1>4. CASE m.event = "STOP"
  BY <1>1, <1>2, <1>4 DEF Handle
<1>5. CASE m.event = "PAUSE"
  BY <1>1, <1>2, <1>5 DEF Handle
<1>6. CASE m.event = "RESUME"
  BY <1>1, <1>2, <1>6 DEF Handle
<1> QED
  BY <1>3, <1>4, <1>5, <1>6 DEF Messages, Requests

\* The users' requests consist of the API's calls.
LEMMA ApiSound ==
  ASSUME NEW s \in Api
  PROVE  s \in Seq(ApiCalls)
<1> USE DEF Do
<1>1. ASSUME NEW f \in Flags
      PROVE PlayerStart(f) \in Seq(ApiCalls) /\ StartWaitFinish(f) \in Seq(ApiCalls)
  <2>1. Do("player_start", f) \in ApiCalls /\ Do("player_start_wait_finish", f) \in ApiCalls
    BY DEF ApiCalls, Calls
  <2> QED
    BY <2>1 DEF PlayerStart, StartWaitFinish
<1>2. StartLocal \in Seq(ApiCalls)
  <2>1. {Do("set_audio_next", TRUE), Do("local_max", NONE), Do("local_update", NONE),
         Do("local_path", NONE)} \subseteq ApiCalls
    BY DEF ApiCalls, Calls
  <2> QED
    BY <2>1 DEF StartLocal, StartLocalInner
<1>3. StartNext \in Seq(ApiCalls) /\ StartPrev \in Seq(ApiCalls)
  <2>1. Do("start_next", 1) \in ApiCalls /\ Do("start_next", -1) \in ApiCalls
    BY DEF ApiCalls, Calls
  <2> QED
    BY <2>1 DEF StartNext, StartPrev
<1>4. PlayerStop \in Seq(ApiCalls) /\ PlayerPause \in Seq(ApiCalls)
        /\ PlayerResume \in Seq(ApiCalls)
  <2>1. \A e \in {"STOP", "PAUSE", "RESUME"} : Do("send", Message(e, NONE)) \in ApiCalls
    BY DEF ApiCalls, Calls, Messages, Message
  <2>2. Do("set_audio_next", FALSE) \in ApiCalls
    BY DEF ApiCalls, Calls
  <2> QED
    BY <2>1, <2>2 DEF PlayerStop, PlayerPause, PlayerResume
<1>5. PlayerBreak \in Seq(ApiCalls) /\ StopPrompt \in Seq(ApiCalls)
  <2>1. Stop("prompt") \in ApiCalls /\ Do("break", "resource") \in ApiCalls
    BY DEF ApiCalls, Calls, Stop, Players
  <2> QED
    BY <2>1 DEF PlayerBreak, StopPrompt
<1>6. \A b \in BOOLEAN : SetAutoResumePrev(b) \in Seq(ApiCalls)
  <2>1. \A b \in BOOLEAN : Do("set_auto_resume_prev", b) \in ApiCalls
    BY DEF ApiCalls, Calls
  <2> QED
    BY <2>1 DEF SetAutoResumePrev
<1>7. PlayerToggle \in Seq(ApiCalls)
  BY <1>4 DEF PlayerToggle
<1> QED
  BY <1>1, <1>2, <1>3, <1>4, <1>5, <1>6, <1>7 DEF Api, Starts

\* What a step of the worker p does to the calls.
LEMMA WorkerTodo ==
  ASSUME TypeInv, TodoInv, NEW p \in Players, WorkerStep(p) \/ WorkerEnd(p)
  PROVE  /\ TodoInv' /\ todo[p] = <<>> /\ \A u \in Threads \ {p} : todo'[u] = todo[u]
         /\ \A q \in Players \ {p} : phase'[q] = phase[q]
<1> USE PlayersDistinct
<1>1. /\ todo[p] = <<>> /\ box' = box /\ phase' = [phase EXCEPT ![p] = phase'[p]]
      /\ todo' = todo \/ \E s : todo' = [todo EXCEPT ![p] = s]
  BY DEF WorkerStep, WorkerStart, WorkerScan, WorkerNoFile, WorkerOpen, WorkerEnd, WorkerStop,
         WorkerHalt, WorkerResume, WorkerAfterStop, WorkerCallback, WorkerIdle, Worker, workRest,
         queueVars, TypeInv, PlayerTypes
<1>2. /\ \A u \in Threads \ {p} : todo'[u] = todo[u]
      /\ \A q \in Players \ {p} : phase'[q] = phase[q]
  BY <1>1 DEF TodoInv, TypeInv, PlayerTypes
<1>3. /\ CallsAt("mgr")' = CallsAt("mgr") /\ \A u \in Users : CallsAt(u)' = CallsAt(u)
      /\ \A q \in Players \ {p} : CallsAt(q)' = CallsAt(q)
  BY <1>2 DEF CallsAt
<1>4. todo'[p] \in Seq(CallsAt(p)')
  <2>1. CASE todo' = todo
    <3>1. <<>> \in Seq(CallsAt(p)')
      OBVIOUS
    <3> QED
      BY <1>1, <2>1, <3>1
  <2>2. CASE WorkerScan(p)
    <3>1. CallsAt(p)' = Calls({"break"}, {Other(p)})
      BY <2>2 DEF WorkerScan, Worker, CallsAt, TypeInv, PlayerTypes
    <3>2. Do("break", Other(p)) \in CallsAt(p)'
      BY <3>1 DEF Do, Calls
    <3> QED
      BY <2>2, <3>2 DEF WorkerScan, TodoInv
  <2>3. CASE WorkerAfterStop(p)
    <3>1. CallsAt(p)' = Calls({"resume"}, {Other(p)})
      BY <2>3 DEF WorkerAfterStop, Worker, CallsAt, TypeInv, PlayerTypes
    <3>2. Do("resume", Other(p)) \in CallsAt(p)'
      BY <3>1 DEF Do, Calls
    <3> QED
      BY <2>3, <3>2 DEF WorkerAfterStop, TodoInv
  <2>4. CASE WorkerCallback(p)
    <3>1. CallsAt(p)' = ReportCalls \cup (IF p = "resource" THEN LocalCalls ELSE {})
      BY <2>4 DEF WorkerCallback, Worker, CallsAt, TypeInv, PlayerTypes
    <3>2. Do("player_start", "PROMPT") \in ReportCalls /\ Do("start_next", 1) \in LocalCalls
      BY DEF Do, Calls, ReportCalls, LocalCalls
    <3>3. Callback(p) \in {<<>>, <<Do("player_start", "PROMPT")>>}
            \/ (p = "resource" /\ Callback(p) = <<Do("start_next", 1)>>)
      BY DEF Callback, Reported, StartNext, PlayerStart
    <3> DEFINE C == CallsAt(p)'
    <3>4. Do("player_start", "PROMPT") \in C /\ (p = "resource" => Do("start_next", 1) \in C)
      BY <3>1, <3>2
    <3> HIDE DEF C
    <3>5. <<>> \in Seq(C) /\ <<Do("player_start", "PROMPT")>> \in Seq(C)
      BY <3>4
    <3>6. p = "resource" => <<Do("start_next", 1)>> \in Seq(C)
      BY <3>4
    <3>7. Callback(p) \in Seq(C)
      BY <3>3, <3>5, <3>6
    <3> QED
      BY <2>4, <3>7 DEF WorkerCallback, TodoInv, C
  <2>5. todo' = todo \/ WorkerScan(p) \/ WorkerAfterStop(p) \/ WorkerCallback(p)
    BY DEF WorkerStep, WorkerStart, WorkerNoFile, WorkerOpen, WorkerEnd, WorkerStop, WorkerHalt,
           WorkerResume, WorkerIdle
  <2> QED
    BY <2>1, <2>2, <2>3, <2>4, <2>5
<1>5. CallsAt(p)' \subseteq AllCalls
  BY CallSets DEF CallsAt
<1>6. todo' \in [Threads -> Seq(AllCalls)]
  <2>1. todo'[p] \in Seq(AllCalls)
    BY <1>4, <1>5
  <2> QED
    BY <1>1, <2>1 DEF TodoInv
<1> QED
  BY <1>1, <1>2, <1>3, <1>4, <1>6 DEF TodoInv

\* The manager takes a message and has then to do what is to be done for it.
LEMMA TakeTodo ==
  ASSUME TypeInv, TodoInv, Take
  PROVE  /\ TodoInv' /\ phase' = phase /\ \A u \in Threads \ {"mgr"} : todo'[u] = todo[u]
         /\ box \in Messages /\ box' = NONE /\ todo'["mgr"] = Handle(box)
<1> USE PlayersDistinct
<1>1. box \in Messages /\ box' = NONE
  BY DEF Take, Queue!Take, TodoInv
<1>2. Handle(box) \in Seq(MgrCalls) /\ Handle(box) \in Seq(AllCalls)
  BY <1>1, HandleSound, CallSets
<1>3. /\ todo' \in [Threads -> Seq(AllCalls)] /\ todo'["mgr"] = Handle(box)
      /\ \A u \in Threads \ {"mgr"} : todo'[u] = todo[u]
  BY <1>2 DEF Take, TodoInv
<1>4. phase' = phase
  BY DEF Take, playerVars
<1>5. \A u \in Threads : CallsAt(u)' = CallsAt(u) /\ CallsAt("mgr") = MgrCalls
  BY <1>4 DEF CallsAt
<1> QED
  BY <1>1, <1>2, <1>3, <1>4, <1>5 DEF TodoInv

\* A user that begins a request changes what it has to do, and nothing else here.
LEMMA BeginTodo ==
  ASSUME TypeInv, TodoInv, NEW t \in Users, Begin(t)
  PROVE  /\ TodoInv' /\ phase' = phase /\ \A u \in Threads \ {t} : todo'[u] = todo[u]
         /\ todo'[t] \in Api /\ box' = box
<1> USE PlayersDistinct
<1>1. PICK f \in Api : todo' = [todo EXCEPT ![t] = f]
  BY DEF Begin
<1>2. f \in Seq(UserCalls) /\ f \in Seq(AllCalls)
  <2>1. f \in Seq(ApiCalls) /\ ApiCalls \subseteq UserCalls /\ UserCalls \subseteq AllCalls
    BY ApiSound, CallSets DEF UserCalls
  <2> QED
    BY <2>1
<1>3. /\ todo' \in [Threads -> Seq(AllCalls)] /\ todo'[t] = f
      /\ \A u \in Threads \ {t} : todo'[u] = todo[u]
  BY <1>1, <1>2 DEF TodoInv
<1>4. phase' = phase /\ box' = box
  BY DEF Begin, playerVars, queueVars
<1>5. \A u \in Threads : CallsAt(u)' = CallsAt(u) /\ CallsAt(t) = UserCalls
  BY <1>4 DEF CallsAt
<1> QED
  BY <1>1, <1>2, <1>3, <1>4, <1>5 DEF TodoInv

\* Every step keeps every thread to the calls it may make.
LEMMA TodoStep ==
  ASSUME TypeInv, TodoInv, LockInv, [Next]_vars
  PROVE  TodoInv'
<1>1. CASE UNCHANGED vars
  <2>1. todo' = todo /\ phase' = phase /\ box' = box
    BY <1>1 DEF vars, playerVars, queueVars
  <2>2. \A u \in Threads : CallsAt(u)' = CallsAt(u)
    BY <2>1 DEF CallsAt
  <2> QED
    BY <2>1, <2>2 DEF TodoInv
<1> QED
  BY <1>1, TakeTodo, BeginTodo, CallTodo, WorkerTodo DEF Next, AtRest

-----------------------------------------------------------------------------
(* The types *)

\* A call of a player names it; a worker calls only the other one, from open or callback.
LEMMA OpSound ==
  ASSUME TodoInv, NEW t \in Threads, todo[t] # <<>>, Call(t).op \in Ops
  PROVE  /\ Call(t).arg \in Players
         /\ Call(t).op = "start" => Call(t).info \in Infos(FlagsOf(Call(t).arg))
         /\ t \in Players => Call(t).arg = Other(t) /\ phase[t] \in {"open", "callback"}
                               /\ Call(t).op \in {"break", "resume"}
<1> USE PlayersDistinct DEF Calls, Ops
<1>1. Call(t) \in AllCalls /\ Call(t) \in CallsAt(t)
  BY HeadSound
<1>2. /\ Call(t).arg \in Players
      /\ Call(t).op = "start" => Call(t).info \in Infos(FlagsOf(Call(t).arg))
  BY <1>1 DEF AllCalls, MgrCalls, UserCalls, ApiCalls, SessionCalls, StartCalls
<1>3. t \in Players => Call(t) \in Calls({"break"}, {Other(t)}) \cup Calls({"resume"}, {Other(t)})
                        /\ phase[t] \in {"open", "callback"}
  BY <1>1 DEF CallsAt, ReportCalls, LocalCalls
<1> QED
  BY <1>2, <1>3

\* Variables that do not change keep their types.
LEMMA SameTypes ==
  /\ MgrTypes /\ UNCHANGED mgrVars => MgrTypes'
  /\ InfoTypes /\ UNCHANGED infoVars => InfoTypes'
  /\ PlayerTypes /\ UNCHANGED playerVars => PlayerTypes'
  /\ LockTypes /\ UNCHANGED lockVars => LockTypes'
  /\ CountTypes /\ UNCHANGED countVars => CountTypes'
<1>1. MgrTypes /\ UNCHANGED mgrVars => MgrTypes'
  BY DEF MgrTypes, mgrVars
<1>2. InfoTypes /\ UNCHANGED infoVars => InfoTypes'
  BY DEF InfoTypes, infoVars
<1>3. PlayerTypes /\ UNCHANGED playerVars => PlayerTypes'
  BY DEF PlayerTypes, playerVars
<1>4. LockTypes /\ UNCHANGED lockVars => LockTypes'
  BY DEF LockTypes, lockVars
<1>5. CountTypes /\ UNCHANGED countVars => CountTypes'
  BY DEF CountTypes, countVars
<1> QED
  BY <1>1, <1>2, <1>3, <1>4, <1>5

\* A step of a call keeps the types.
LEMMA CallTypes ==
  ASSUME TypeInv, TodoInv, LockInv, NEW t \in Threads, CallStep(t)
  PROVE  TypeInv'
<1> USE PlayersDistinct, BoundsAssumption, SameTypes DEF TypeInv
<1>1. CASE SetAudioNext(t)
  <2>1. Call(t).arg \in BOOLEAN
    BY <1>1, HeadSound
       DEF SetAudioNext, At, AllCalls, MgrCalls, UserCalls, ApiCalls, SessionCalls, StartCalls,
           Calls
  <2>2. MgrTypes'
    BY <1>1, <2>1 DEF SetAudioNext, MgrTypes
  <2>3. CountTypes'
    BY <1>1 DEF SetAudioNext, CountTypes
  <2> QED
    BY <1>1, <2>2, <2>3 DEF SetAudioNext
<1>2. CASE SetAutoResume(t)
  <2>1. Call(t).arg \in BOOLEAN
    BY <1>2, HeadSound
       DEF SetAutoResume, At, AllCalls, MgrCalls, UserCalls, ApiCalls, SessionCalls, StartCalls,
           Calls
  <2>2. MgrTypes'
    BY <1>2, <2>1 DEF SetAutoResume, MgrTypes
  <2> QED
    BY <1>2, <2>2 DEF SetAutoResume
<1>3. CASE NewPlayer(t)
  <2>1. MgrTypes'
    BY <1>3 DEF NewPlayer, MgrTypes
  <2> QED
    BY <1>3, <2>1 DEF NewPlayer
<1>4. CASE NewPlayerWaitFinish(t) \/ PromptWait(t) \/ StartNextWeb(t) \/ LocalPath(t) \/ Finish(t)
            \/ FreeMessage(t) \/ Send(t)
  BY <1>4 DEF NewPlayerWaitFinish, PromptWait, StartNextWeb, LocalPath, Finish, FreeMessage, Send
<1>5. CASE StartNextLocal(t)
  <2>1. Call(t).arg \in Int
    BY <1>5, HeadSound
       DEF StartNextLocal, At, AllCalls, MgrCalls, UserCalls, ApiCalls, SessionCalls, StartCalls,
           Calls
  <2>2. MgrTypes'
    BY <1>5, <2>1 DEF StartNextLocal, MgrTypes
  <2> QED
    BY <1>5, <2>2 DEF StartNextLocal
<1>6. CASE LocalMax(t)
  <2>1. MgrTypes'
    BY <1>6 DEF LocalMax, MgrTypes
  <2> QED
    BY <1>6, <2>1 DEF LocalMax
<1>7. CASE LocalUpdate(t)
  <2>1. MgrTypes'
    BY <1>7 DEF LocalUpdate, Wrapped, MgrTypes
  <2> QED
    BY <1>7, <2>1 DEF LocalUpdate
<1>8. CASE CommonLock(t)
  <2>1. LockTypes'
    BY <1>8 DEF CommonLock, LockTypes
  <2> QED
    BY <1>8, <2>1 DEF CommonLock
<1>9. CASE CommonUnlock(t)
  <2>1. LockTypes'
    BY <1>9 DEF CommonUnlock, LockTypes
  <2> QED
    BY <1>9, <2>1 DEF CommonUnlock
<1>10. CASE Check(t)
  <2>1. Call(t).arg \in Players /\ (Call(t).op = "start" => Call(t).info \in Infos(Flags))
    BY <1>10, OpSound DEF Check, Locks, Infos, FlagsOf
  <2>2. LockTypes'
    BY <1>10, <2>1 DEF Check, LockTypes
  <2>3. PlayerTypes'
    BY <1>10, <2>1 DEF Check, PlayerTypes
  <2>4. (auto_resume_prev \in [Players -> BOOLEAN])'
    BY <1>10, <2>1 DEF Check, InfoTypes, Infos
  <2>5. (flag \in [Players -> Flags])'
    BY <1>10, <2>1 DEF Check, InfoTypes, Infos
  <2>6. (starter \in [Players -> Threads \cup {NONE}] /\ overrun \subseteq Players)'
    <3>1. CASE Call(t).op = "start"
      <4>1. starter' = [starter EXCEPT ![Call(t).arg] = t]
              /\ overrun' \subseteq overrun \cup Players
        BY <1>10, <2>1, <3>1 DEF Check
      <4> QED
        BY <4>1 DEF InfoTypes
    <3>2. CASE Call(t).op # "start"
      BY <1>10, <3>2 DEF Check, InfoTypes
    <3> QED
      BY <3>1, <3>2
  <2>7. InfoTypes'
    BY <2>4, <2>5, <2>6 DEF InfoTypes
  <2> QED
    BY <1>10, <2>2, <2>3, <2>7 DEF Check
<1>11. CASE Post(t)
  <2>1. Call(t).arg \in Players /\ CommandOf(Call(t).op) \in Events
    BY <1>11, OpSound DEF Post, CommandOf, Ops, Events, Commands
  <2>2. PlayerTypes'
    BY <1>11, <2>1 DEF Post, PlayerTypes
  <2>3. LockTypes'
    BY <1>11, <2>1 DEF Post, LockTypes
  <2> QED
    BY <1>11, <2>2, <2>3 DEF Post
<1>12. CASE Refused(t)
  <2>1. PlayerTypes'
    BY <1>12 DEF Refused, PlayerTypes
  <2>2. InfoTypes'
    BY <1>12 DEF Refused, InfoTypes
  <2> QED
    BY <1>12, <2>1, <2>2 DEF Refused
<1>13. CASE Answer(t) \/ Timeout(t)
  <2>1. Return(t)
    BY <1>13 DEF Answer, Timeout
  <2>2. PlayerTypes'
    BY <2>1 DEF Return, PlayerTypes
  <2>3. LockTypes'
    BY <2>1 DEF Return, LockTypes
  <2>4. timeouts' \in 0..MaxTimeouts
    BY <1>13 DEF Answer, Timeout, CountTypes
  <2>5. CountTypes'
    BY <2>1, <2>4 DEF Return, CountTypes
  <2> QED
    BY <2>1, <2>2, <2>3, <2>5 DEF Return
<1> QED
  BY <1>1, <1>2, <1>3, <1>4, <1>5, <1>6, <1>7, <1>8, <1>9, <1>10, <1>11, <1>12, <1>13 DEF CallStep

\* Every step keeps the types.
LEMMA TypeStep ==
  ASSUME TypeInv, TodoInv, LockInv, [Next]_vars
  PROVE  TypeInv'
<1> USE PlayersDistinct, BoundsAssumption, SameTypes
<1>1. CASE UNCHANGED vars
  BY <1>1 DEF vars, TypeInv
<1>2. CASE Take
  <2>1. CountTypes'
    BY <1>2 DEF Take, TypeInv, CountTypes
  <2> QED
    BY <1>2, <2>1 DEF Take, TypeInv
<1>3. ASSUME NEW t \in Users, Begin(t) PROVE TypeInv'
  <2>1. CountTypes'
    BY <1>3 DEF Begin, TypeInv, CountTypes
  <2> QED
    BY <1>3, <2>1 DEF Begin, TypeInv
<1>4. ASSUME NEW p \in Players, WorkerStep(p) \/ WorkerEnd(p) PROVE TypeInv'
  <2> USE <1>4 DEF Worker, Enter, SetError, States, Events, Commands
  <2>1. CASE WorkerStart(p)
    BY <2>1 DEF WorkerStart, TypeInv, PlayerTypes, workRest
  <2>2. CASE WorkerScan(p)
    BY <2>2 DEF WorkerScan, TypeInv, PlayerTypes, workRest
  <2>3. CASE WorkerNoFile(p)
    BY <2>3 DEF WorkerNoFile, TypeInv, PlayerTypes, workRest
  <2>4. CASE WorkerOpen(p)
    BY <2>4 DEF WorkerOpen, TypeInv, PlayerTypes, workRest
  <2>5. CASE WorkerEnd(p)
    BY <2>5 DEF WorkerEnd, TypeInv, PlayerTypes, workRest
  <2>6. CASE WorkerStop(p)
    BY <2>6 DEF WorkerStop, TypeInv, PlayerTypes, workRest
  <2>7. CASE WorkerHalt(p)
    BY <2>7 DEF WorkerHalt, TypeInv, PlayerTypes, workRest
  <2>8. CASE WorkerResume(p)
    BY <2>8 DEF WorkerResume, TypeInv, PlayerTypes, workRest
  <2>9. CASE WorkerAfterStop(p) \/ WorkerCallback(p)
    BY <2>9 DEF WorkerAfterStop, WorkerCallback, TypeInv, PlayerTypes, workRest
  <2>10. CASE WorkerIdle(p)
    BY <2>10 DEF WorkerIdle, TypeInv, PlayerTypes, workRest
  <2> QED
    BY <2>1, <2>2, <2>3, <2>4, <2>5, <2>6, <2>7, <2>8, <2>9, <2>10 DEF WorkerStep
<1> QED
  BY <1>1, <1>2, <1>3, <1>4, CallTypes DEF Next, AtRest

-----------------------------------------------------------------------------
(* The locks *)

\* A thread that makes no call of a player holds no player's lock.
LEMMA LockOther ==
  ASSUME TypeInv, LockInv, NEW t \in Threads, todo[t] # <<>> => Call(t).op \notin Ops,
         mutex' = mutex, waiting' = waiting, \A u \in Threads \ {t} : todo'[u] = todo[u]
  PROVE  LockInv'
<1>1. \A u \in Threads : u # t => Call(u)' = Call(u)
  BY DEF Call
<1>2. t \notin waiting /\ \A p \in Players : mutex[p] # t
  BY DEF LockInv
<1> QED
  BY <1>1, <1>2, PlayersDistinct DEF LockInv, TypeInv, LockTypes, Call

\* The calls that are not calls of a player.
LEMMA OtherOps ==
  ASSUME NEW t \in Threads, todo[t] # <<>>, Call(t).op \notin Ops, CallStep(t), LockInv
  PROVE  mutex' = mutex /\ waiting' = waiting
<1>1. ~Check(t) /\ ~Post(t) /\ ~Refused(t) /\ ~Answer(t) /\ ~Timeout(t)
  BY DEF Check, Post, Refused, Locks, Answer, Timeout, LockInv
<1> QED
  BY <1>1
     DEF CallStep, SetAudioNext, SetAutoResume, NewPlayer, NewPlayerWaitFinish, PromptWait, Send,
         StartNextLocal, StartNextWeb, LocalMax, LocalUpdate, LocalPath, CommonLock, CommonUnlock,
         FreeMessage, Finish, lockVars

\* Each call of a player is begun, posted, refused or answered.
LEMMA PlayerOps ==
  ASSUME NEW t \in Threads, todo[t] # <<>>, Call(t).op \in Ops, CallStep(t)
  PROVE  Check(t) \/ Post(t) \/ Refused(t) \/ Answer(t) \/ Timeout(t)
BY DEF CallStep, SetAudioNext, SetAutoResume, NewPlayer, NewPlayerWaitFinish, PromptWait, Send,
     StartNextLocal, StartNextWeb, LocalMax, LocalUpdate, LocalPath, CommonLock, CommonUnlock,
     FreeMessage, Finish, At, Ops

\* Only a thread with something to do makes a step of a call.
LEMMA CallNotEmpty ==
  ASSUME NEW t \in Threads, CallStep(t), LockInv
  PROVE  todo[t] # <<>>
BY DEF CallStep, SetAudioNext, SetAutoResume, NewPlayer, NewPlayerWaitFinish, PromptWait, Send,
     StartNextLocal, StartNextWeb, LocalMax, LocalUpdate, LocalPath, CommonLock, CommonUnlock,
     FreeMessage, Finish, At, Check, Post, Refused, Locks, Answer, Timeout, LockInv

\* Every step keeps LockInv: the lock is taken with Check and given back with the call.
LEMMA LockStep ==
  ASSUME TypeInv, TodoInv, LockInv, [Next]_vars
  PROVE  LockInv'
<1> USE PlayersDistinct
<1>1. CASE UNCHANGED vars
  BY <1>1 DEF vars, lockVars, LockInv, Call
<1>2. CASE Take
  <2>1. todo["mgr"] = <<>> /\ mutex' = mutex /\ waiting' = waiting
    BY <1>2 DEF Take, lockVars
  <2> QED
    BY <1>2, <2>1, TakeTodo, LockOther
<1>3. ASSUME NEW t \in Users, Begin(t) PROVE LockInv'
  <2>1. todo[t] = <<>> /\ mutex' = mutex /\ waiting' = waiting
    BY <1>3 DEF Begin, lockVars
  <2> QED
    BY <1>3, <2>1, BeginTodo, LockOther
<1>4. ASSUME NEW p \in Players, WorkerStep(p) \/ WorkerEnd(p) PROVE LockInv'
  <2>1. mutex' = mutex /\ waiting' = waiting
    BY <1>4
       DEF WorkerStep, WorkerStart, WorkerScan, WorkerNoFile, WorkerOpen, WorkerEnd, WorkerStop,
           WorkerHalt, WorkerResume, WorkerAfterStop, WorkerCallback, WorkerIdle, workRest,
           lockVars
  <2> QED
    BY <1>4, <2>1, WorkerTodo, LockOther
<1>5. ASSUME NEW t \in Threads, CallStep(t) PROVE LockInv'
  <2>1. TodoInv' /\ \A u \in Threads \ {t} : todo'[u] = todo[u]
    BY <1>5, CallTodo
  <2>2. \A u \in Threads : u # t => Call(u)' = Call(u)
    BY <2>1 DEF Call
  <2>3. todo[t] # <<>>
    BY <1>5, CallNotEmpty
  <2>4. CASE Call(t).op \notin Ops
    BY <1>5, <2>1, <2>3, <2>4, LockOther, OtherOps
  <2>5. ASSUME Call(t).op \in Ops PROVE Call(t).arg \in Players
    BY <2>3, <2>5, OpSound
  <2>6. CASE Check(t)
    <3>1. todo' = todo /\ waiting' = waiting /\ mutex' = [mutex EXCEPT ![Call(t).arg] = t]
          /\ mutex[Call(t).arg] = NONE /\ Call(t).op \in Ops
      BY <2>6 DEF Check, Locks
    <3>2. Call(t)' = Call(t)
      BY <3>1 DEF Call
    <3>3. ASSUME NEW q \in Players, NEW u \in Threads, mutex'[q] = u
          PROVE  todo[u] # <<>> /\ Call(u).op \in Ops /\ Call(u).arg = q
      BY <2>3, <3>1, <3>3 DEF LockInv, TypeInv, LockTypes
    <3>4. ASSUME NEW u \in waiting
          PROVE  /\ todo[u] # <<>> /\ Call(u).op \in Ops \ {"resume"}
                 /\ mutex'[Call(u).arg] = u
      <4>1. todo[u] # <<>> /\ Call(u).op \in Ops \ {"resume"} /\ mutex[Call(u).arg] = u
        BY DEF LockInv
      <4>2. u \in Threads /\ Call(u).arg # Call(t).arg
        BY <3>1, <4>1 DEF TypeInv, LockTypes
      <4> QED
        BY <3>1, <4>1, <4>2 DEF TypeInv, LockTypes
    <3>5. \A u \in Threads : Call(u)' = Call(u)
      BY <3>1 DEF Call
    <3> QED
      BY <3>1, <3>3, <3>4, <3>5 DEF LockInv, TypeInv, LockTypes
  <2>7. CASE Post(t)
    <3>1. Call(t).op \in Ops /\ mutex[Call(t).arg] = t /\ t \notin waiting
      BY <2>7 DEF Post
    <3>2. CASE Call(t).op = "resume"
      <4>1. mutex' = [mutex EXCEPT ![Call(t).arg] = NONE] /\ waiting' = waiting
        BY <2>7, <3>2 DEF Post
      <4>2. \A q \in Players : mutex'[q] # t
        BY <2>5, <3>1, <4>1 DEF LockInv, TypeInv, LockTypes, Call
      <4> QED
        BY <2>1, <2>2, <2>5, <3>1, <4>1, <4>2 DEF LockInv, TypeInv, LockTypes, Call
    <3>3. CASE Call(t).op # "resume"
      <4>1. mutex' = mutex /\ waiting' = waiting \cup {t} /\ todo' = todo
        BY <2>7, <3>3 DEF Post
      <4>2. \A u \in Threads : Call(u)' = Call(u)
        BY <4>1 DEF Call
      <4> QED
        BY <2>3, <3>1, <3>3, <4>1, <4>2 DEF LockInv, TypeInv, LockTypes, Call
    <3> QED
      BY <3>2, <3>3
  <2>8. CASE Refused(t)
    <3>1. Call(t).op \in Ops /\ mutex[Call(t).arg] = NONE /\ mutex' = mutex /\ waiting' = waiting
      BY <2>8 DEF Refused, Locks, lockVars
    <3>2. t \notin waiting /\ \A q \in Players : mutex[q] # t
      BY <3>1 DEF LockInv
    <3> QED
      BY <2>1, <2>2, <3>1, <3>2 DEF LockInv, TypeInv, LockTypes, Call
  <2>9. CASE Answer(t) \/ Timeout(t)
    <3>1. Return(t) /\ t \in waiting
      BY <2>9 DEF Answer, Timeout
    <3>2. Call(t).op \in Ops /\ mutex[Call(t).arg] = t
      BY <3>1 DEF LockInv
    <3>3. mutex' = [mutex EXCEPT ![Call(t).arg] = NONE] /\ waiting' = waiting \ {t}
      BY <3>1 DEF Return
    <3>4. \A q \in Players : mutex'[q] # t
      BY <2>5, <3>2, <3>3 DEF LockInv, TypeInv, LockTypes, Call
    <3> QED
      BY <2>1, <2>2, <2>5, <3>2, <3>3, <3>4 DEF LockInv, TypeInv, LockTypes, Call
  <2> QED
    BY <1>5, <2>3, <2>4, <2>6, <2>7, <2>8, <2>9, PlayerOps
<1> QED
  BY <1>1, <1>2, <1>3, <1>4, <1>5 DEF Next, AtRest

\* The calls that a thread makes from inside and from outside.
LEMMA Places ==
  ASSUME NEW s \in Seq(AllCalls), s # <<>>
  PROVE  /\ Outside(s) => Head(s).op \notin {"common_unlock", "start"}
         /\ Inside(s)  => Head(s).op \in {"common_unlock", "start", "stop"}
         /\ Outside(s) /\ Head(s).op # "common_lock" => Outside(Tail(s))
         /\ Outside(s) /\ Head(s).op = "common_lock" => Inside(Tail(s))
         /\ Outside(s) /\ Head(s).op \notin {"common_lock", "prompt_wait"} => Tail(s) \in Seq(Plain)
         /\ Inside(s) /\ Head(s).op # "common_unlock" => Inside(Tail(s))
         /\ Inside(s) /\ Head(s).op = "common_unlock" => Outside(Tail(s))
<1> DEFINE op == Head(s).op
<1>1. s \in Seq(Plain) => /\ op \notin {"common_lock", "common_unlock", "start"}
                          /\ Tail(s) \in Seq(Plain) /\ Outside(Tail(s))
  <2>1. s \in Seq(Plain) => Head(s) \in Plain /\ Tail(s) \in Seq(Plain)
    OBVIOUS
  <2> QED
    BY <2>1 DEF Plain, Outside
<1>2. Locked(s) => op = "common_lock" /\ Inside(Tail(s))
  BY DEF Locked, Do, Inside
<1>3. Queued(s) => op = "prompt_wait" /\ Outside(Tail(s))
  BY DEF Queued, Outside
<1>4. Unlocks(s) => op = "common_unlock" /\ Outside(Tail(s))
  BY DEF Unlocks, Do, Outside
<1>5. Begins(s) => op = "start" /\ Inside(Tail(s))
  BY DEF Begins, StartCalls, Inside
<1>6. Ends(s) => op = "stop" /\ Inside(Tail(s))
  BY DEF Ends, Stop, Do, Inside
<1> HIDE DEF op
<1>7. Outside(s) => s \in Seq(Plain) \/ Locked(s) \/ Queued(s)
  BY DEF Outside
<1>8. Inside(s) => Unlocks(s) \/ Begins(s) \/ Ends(s)
  BY DEF Inside
<1>9. /\ Outside(s) => op \notin {"common_unlock", "start"}
      /\ Inside(s)  => op \in {"common_unlock", "start", "stop"}
      /\ Outside(s) /\ op # "common_lock" => Outside(Tail(s))
      /\ Outside(s) /\ op = "common_lock" => Inside(Tail(s))
      /\ Outside(s) /\ op \notin {"common_lock", "prompt_wait"} => Tail(s) \in Seq(Plain)
      /\ Inside(s) /\ op # "common_unlock" => Inside(Tail(s))
      /\ Inside(s) /\ op = "common_unlock" => Outside(Tail(s))
  BY <1>1, <1>2, <1>3, <1>4, <1>5, <1>6, <1>7, <1>8
<1> QED
  BY <1>9 DEF op

\* audio_player_start begins by taking g_common_mutex, and gives it back once.
LEMMA SessionInside ==
  ASSUME NEW info \in Infos(Flags), NEW rest \in Seq(Plain)
  PROVE  Locked(AudioPlayerStart(info) \o rest)
<1> DEFINE l == Do("common_lock", NONE)
           s == Stop(PlayerOf(info.flag))
           b == With("start", PlayerOf(info.flag), info)
           u == Do("common_unlock", NONE)
<1>1. {l, s, b, u} \subseteq AllCalls /\ b \in StartCalls(PlayerOf(info.flag))
       /\ PlayerOf(info.flag) \in Players /\ b.arg = PlayerOf(info.flag)
  <2>1. {l, s, u} \subseteq SessionCalls
    BY SessionSound DEF SessionCalls, Calls, Do, Stop
  <2> QED
    BY <2>1, SessionSound, PlayersDistinct DEF AllCalls, MgrCalls, SessionCalls, With
<1>2. rest \in Seq(AllCalls)
  BY DEF Plain
<1>3. AudioPlayerStart(info) = <<l, s, b, u>>
  BY DEF AudioPlayerStart
<1> HIDE DEF l, s, b, u
<1>4. <<l, s, b, u>> \o rest # <<>> /\ Head(<<l, s, b, u>> \o rest) = l
       /\ Tail(<<l, s, b, u>> \o rest) = <<s, b, u>> \o rest
  BY <1>1, <1>2
<1>5. <<s, b, u>> \o rest # <<>> /\ Head(<<s, b, u>> \o rest) = s
       /\ Tail(<<s, b, u>> \o rest) = <<b, u>> \o rest
  BY <1>1, <1>2
<1>6. <<b, u>> \o rest # <<>> /\ Head(<<b, u>> \o rest) = b
        /\ Tail(<<b, u>> \o rest) = <<u>> \o rest
  BY <1>1, <1>2
<1>7. <<u>> \o rest # <<>> /\ Head(<<u>> \o rest) = u /\ Tail(<<u>> \o rest) = rest
  BY <1>1, <1>2
<1>8. Unlocks(<<u>> \o rest)
  BY <1>7 DEF Unlocks, u
<1>9. Begins(<<b, u>> \o rest)
  BY <1>1, <1>6, <1>8, PlayersDistinct DEF Begins
<1>10. Ends(<<s, b, u>> \o rest)
  BY <1>1, <1>5, <1>6, <1>9 DEF Ends, s
<1> QED
  BY <1>3, <1>4, <1>10 DEF Locked, l

\* A step of t that leaves g_common_mutex alone concerns t alone.
LEMMA CommonOther ==
  ASSUME CommonInv, NEW t \in Threads, g_common_mutex' = g_common_mutex,
         \A u \in Threads \ {t} : todo'[u] = todo[u],
         IF g_common_mutex = t THEN Inside(todo'[t]) ELSE Outside(todo'[t])
  PROVE  CommonInv'
BY DEF CommonInv

\* Every step keeps CommonInv: only common_lock goes inside, only common_unlock outside.
LEMMA CommonStep ==
  ASSUME TypeInv, TodoInv, LockInv, CommonInv, [Next]_vars
  PROVE  CommonInv'
<1> USE PlayersDistinct
<1>1. CASE UNCHANGED vars
  BY <1>1 DEF vars, lockVars, CommonInv
<1>2. CASE Take
  <2>1. g_common_mutex' = g_common_mutex /\ todo["mgr"] = <<>>
    BY <1>2 DEF Take, lockVars
  <2>2. g_common_mutex # "mgr"
    BY <2>1 DEF CommonInv, Inside, Unlocks, Begins, Ends
  <2>3. Outside(Handle(box))
    <3>1. Do("free", NONE) \in Plain
      BY DEF Do, Plain, AllCalls, MgrCalls, Calls
    <3>2. CASE box.event = "START"
      <4>1. box.info \in Infos(Flags)
              /\ Handle(box) = AudioPlayerStart(box.info) \o <<Do("free", NONE)>>
        BY <1>2, <3>2, TakeTodo DEF Messages, Requests, Handle
      <4> QED
        <5>1. <<Do("free", NONE)>> \in Seq(Plain)
          BY <3>1
        <5> QED
          BY <4>1, <5>1, SessionInside DEF Outside
    <3>3. {Stop("prompt"), Stop("resource"), Do("pause", "resource"), Do("resume", "resource")}
             \subseteq Plain
      BY DEF Do, Stop, Plain, AllCalls, MgrCalls, SessionCalls, Calls
    <3>4. CASE box.event # "START"
      <4>1. box.event \in {"STOP", "PAUSE", "RESUME"}
        BY <1>2, <3>4, TakeTodo DEF Messages, Requests
      <4>2. Handle(box) \in {<<Stop("prompt"), Stop("resource")>> \o <<Do("free", NONE)>>,
                             <<Stop("prompt"), Do("pause", "resource")>> \o <<Do("free", NONE)>>,
                             <<Stop("prompt"), Do("resume", "resource")>> \o <<Do("free", NONE)>>}
        BY <4>1 DEF Handle
      <4> QED
        <5> DEFINE f == Do("free", NONE)  a == Stop("prompt")  b == Stop("resource")
                   c == Do("pause", "resource")  d == Do("resume", "resource")
        <5>1. {a, b, c, d, f} \subseteq Plain
                /\ Handle(box) \in {<<a, b>> \o <<f>>, <<a, c>> \o <<f>>, <<a, d>> \o <<f>>}
          BY <3>1, <3>3, <4>2
        <5> HIDE DEF a, b, c, d, f
        <5>2. \A g \in Plain : <<a, g>> \o <<f>> \in Seq(Plain)
          BY <5>1
        <5>3. Handle(box) \in Seq(Plain)
          BY <5>1, <5>2
        <5> QED
          BY <5>3 DEF Outside
    <3> QED
      BY <3>2, <3>4
  <2> QED
    BY <1>2, <2>1, <2>2, <2>3, TakeTodo, CommonOther
<1>3. ASSUME NEW t \in Users, Begin(t) PROVE CommonInv'
  <2>1. g_common_mutex' = g_common_mutex /\ todo[t] = <<>>
    BY <1>3 DEF Begin, lockVars
  <2>2. g_common_mutex # t
    BY <2>1 DEF CommonInv, Inside, Unlocks, Begins, Ends
  <2>3. todo'[t] \in Seq(Plain)
    <3>1. ApiCalls \subseteq Plain
      <4>1. \A c \in ApiCalls : c.op \notin {"common_lock", "common_unlock", "start"}
        BY DEF ApiCalls, Calls
      <4> QED
        BY <4>1, CallSets DEF Plain, UserCalls
    <3>2. todo'[t] \in Seq(ApiCalls)
      BY <1>3, BeginTodo, ApiSound
    <3> QED
      BY <3>1, <3>2
  <2> QED
    BY <1>3, <2>1, <2>2, <2>3, BeginTodo, CommonOther DEF Outside
<1>4. ASSUME NEW p \in Players, WorkerStep(p) \/ WorkerEnd(p) PROVE CommonInv'
  <2>1. g_common_mutex' = g_common_mutex
    BY <1>4
       DEF WorkerStep, WorkerStart, WorkerScan, WorkerNoFile, WorkerOpen, WorkerEnd, WorkerStop,
           WorkerHalt, WorkerResume, WorkerAfterStop, WorkerCallback, WorkerIdle, workRest,
           lockVars
  <2>2. todo[p] = <<>> /\ TodoInv'
    BY <1>4, WorkerTodo
  <2>3. g_common_mutex # p
    BY <2>2 DEF CommonInv, Inside, Unlocks, Begins, Ends
  <2>4. CallsAt(p)' \subseteq Plain
    <3>1. Calls({"break"}, {Other(p)}) \cup Calls({"resume"}, {Other(p)}) \cup ReportCalls
            \cup LocalCalls
            \subseteq Plain
      <4>1. \A c \in Calls({"break"}, {Other(p)}) \cup Calls({"resume"}, {Other(p)})
              \cup ReportCalls \cup LocalCalls :
               c.op \notin {"common_lock", "common_unlock", "start"}
        BY DEF Calls, ReportCalls, LocalCalls
      <4> QED
        BY <4>1, CallSets DEF Plain
    <3> QED
      BY <3>1 DEF CallsAt
  <2>5. todo'[p] \in Seq(Plain)
    BY <2>2, <2>4 DEF TodoInv
  <2> QED
    BY <1>4, <2>1, <2>3, <2>5, WorkerTodo, CommonOther DEF Outside
<1>5. ASSUME NEW t \in Threads, CallStep(t) PROVE CommonInv'
  <2> DEFINE op == Call(t).op
  <2>1. TodoInv' /\ \A u \in Threads \ {t} : todo'[u] = todo[u]
    BY <1>5, CallTodo
  <2>2. todo[t] # <<>> /\ todo[t] \in Seq(AllCalls) /\ Tail(todo[t]) \in Seq(AllCalls)
    BY <1>5, CallNotEmpty, HeadSound DEF TodoInv
  <2>3. ASSUME Done(t) PROVE todo'[t] = Tail(todo[t])
    <3>1. <<>> \o Tail(todo[t]) = Tail(todo[t])
      BY <2>2
    <3> QED
      BY <2>3, <3>1 DEF Done, Becomes, TodoInv
  <2>4. ASSUME NEW s, Becomes(t, s) PROVE todo'[t] = s \o Tail(todo[t])
    BY <2>4 DEF Becomes, TodoInv
  <2>5. CASE todo' = todo /\ g_common_mutex' = g_common_mutex
    BY <2>5 DEF CommonInv
  <2>6. ASSUME Done(t), g_common_mutex' = g_common_mutex, op \notin {"common_lock", "common_unlock"}
        PROVE  CommonInv'
    <3>1. IF g_common_mutex = t THEN Inside(todo'[t]) ELSE Outside(todo'[t])
      BY <2>2, <2>3, <2>6, Places DEF CommonInv, Call
    <3> QED
      BY <2>1, <2>6, <3>1, CommonOther
  <2>7. ASSUME NEW s \in Seq(Plain), Becomes(t, s), g_common_mutex' = g_common_mutex,
               op \notin {"common_lock", "common_unlock", "start", "stop", "prompt_wait"}
        PROVE  CommonInv'
    <3>1. g_common_mutex # t /\ Tail(todo[t]) \in Seq(Plain)
      BY <2>2, <2>7, Places DEF CommonInv, Call
    <3>2. todo'[t] \in Seq(Plain)
      <4>1. todo'[t] = s \o Tail(todo[t])
        BY <2>4, <2>7
      <4> QED
        BY <2>7, <3>1, <4>1, ConcatProperties
    <3> QED
      BY <2>1, <2>7, <3>1, <3>2, CommonOther DEF Outside
  <2>8. CASE CommonLock(t)
    <3>1. g_common_mutex = NONE /\ g_common_mutex' = t /\ op = "common_lock" /\ Done(t)
      BY <2>8 DEF CommonLock, At
    <3>2. Inside(todo'[t])
      BY <2>2, <2>3, <3>1, Places DEF CommonInv, Call
    <3> QED
      BY <2>1, <3>1, <3>2 DEF CommonInv
  <2>9. CASE CommonUnlock(t)
    <3>1. g_common_mutex' = NONE /\ op = "common_unlock" /\ Done(t)
      BY <2>9 DEF CommonUnlock, At
    <3>2. g_common_mutex = t /\ Outside(todo'[t])
      BY <2>2, <2>3, <3>1, Places DEF CommonInv, Call
    <3> QED
      BY <2>1, <3>1, <3>2 DEF CommonInv
  <2>10. CASE NewPlayer(t)
    <3> DEFINE f == Call(t).arg
               s == <<Do("prompt_wait", f), Do("send", Message("START", Info(f)))>>
    <3>1. {Do("prompt_wait", f), Do("send", Message("START", Info(f)))} \subseteq Plain
      <4>1. CallsAt(t) \subseteq AllCalls
        BY CallsSound
      <4> QED
        BY <2>10, <4>1, NewPlayerCalls DEF NewPlayer, Plain, Do
    <3>2. s \in Seq(Plain)
      BY <3>1
    <3>3. Becomes(t, s) /\ g_common_mutex' = g_common_mutex /\ op = "player_start"
      BY <2>10 DEF NewPlayer, At, lockVars
    <3> QED
      BY <2>7, <3>2, <3>3
  <2>11. CASE NewPlayerWaitFinish(t)
    <3> DEFINE f == Call(t).arg
               e == <<Do("finish", PlayerOf(f))>>
               a == AudioPlayerStart(Info(f))
               w == Do("prompt_wait", f)
               s == (IF PlayerOf(f) = "prompt" THEN <<w>> ELSE <<>>) \o a \o e
    <3>1. Becomes(t, s) /\ g_common_mutex' = g_common_mutex /\ op = "player_start_wait_finish"
      BY <2>11 DEF NewPlayerWaitFinish, At, lockVars
    <3>2. g_common_mutex # t /\ Tail(todo[t]) \in Seq(Plain)
      BY <2>2, <3>1, Places DEF CommonInv, Call
    <3>3. f \in Flags /\ Info(f) \in Infos(Flags)
      BY <2>11, WaitFinishCalls DEF NewPlayerWaitFinish
    <3>4. e \in Seq(Plain) /\ a \in Seq(AllCalls) /\ w \in AllCalls
      <4>1. Do("finish", PlayerOf(f)) \in Plain /\ w \in AllCalls
        BY <3>3 DEF Plain, AllCalls, UserCalls, ApiCalls, Calls, Do
      <4>2. SessionCalls \subseteq AllCalls /\ a \in Seq(SessionCalls)
        BY <3>3, SessionSound DEF AllCalls, UserCalls
      <4> QED
        BY <4>1, <4>2
    <3> DEFINE rest == e \o Tail(todo[t])
    <3>5. rest \in Seq(Plain) /\ rest \in Seq(AllCalls)
      <4>1. e \in Seq(AllCalls)
        BY <3>4 DEF Plain
      <4> HIDE DEF e
      <4> QED
        BY <2>2, <3>2, <3>4, <4>1, ConcatProperties
    <3>6. Locked(a \o rest)
      BY <3>3, <3>5, SessionInside
    <3>7. s \o Tail(todo[t]) = IF PlayerOf(f) = "prompt" THEN <<w>> \o (a \o rest) ELSE a \o rest
      <4>1. a \in Seq(AllCalls) /\ e \in Seq(AllCalls) /\ Tail(todo[t]) \in Seq(AllCalls)
              /\ <<w>> \in Seq(AllCalls)
        BY <2>2, <3>4 DEF Plain
      <4> DEFINE v == <<w>>  r == Tail(todo[t])
      <4> HIDE DEF a, e, w, v, r
      <4>2. a \in Seq(AllCalls) /\ e \in Seq(AllCalls) /\ r \in Seq(AllCalls) /\ v \in Seq(AllCalls)
        BY <4>1 DEF v, r
      <4>3. /\ v \o a \in Seq(AllCalls) /\ e \o r \in Seq(AllCalls)
            /\ <<>> \o a = a /\ (a \o e) \o r = a \o (e \o r)
        BY <4>2, ConcatProperties, ConcatEmptySeq, ConcatAssociative
      <4>4. ((v \o a) \o e) \o r = (v \o a) \o (e \o r)
        BY <4>2, <4>3, ConcatAssociative
      <4>5. (v \o a) \o (e \o r) = v \o (a \o (e \o r))
        <5> DEFINE q == e \o r
        <5>1. q \in Seq(AllCalls)
          BY <4>3
        <5> HIDE DEF q
        <5>2. (v \o a) \o q = v \o (a \o q)
          BY <4>2, <5>1, ConcatAssociative
        <5> QED
          BY <5>2 DEF q
      <4>6. /\ (v \o a \o e) \o r = v \o (a \o (e \o r))
            /\ (<<>> \o a \o e) \o r = a \o (e \o r)
        BY <4>3, <4>4, <4>5
      <4> QED
        BY <4>6 DEF v, r
    <3>8. Outside(todo'[t])
      <4>1. CASE PlayerOf(f) = "prompt"
        <5> DEFINE r == a \o rest
        <5>1. todo'[t] = <<w>> \o r
          BY <2>4, <3>1, <3>7, <4>1
        <5>2. r \in Seq(AllCalls)
          BY <3>4, <3>5, ConcatProperties
        <5>3. w \in AllCalls /\ w.op = "prompt_wait"
          BY <3>4 DEF Do
        <5> HIDE DEF r, w
        <5>4. todo'[t] # <<>> /\ Head(todo'[t]) = w /\ Tail(todo'[t]) = r
          BY <5>1, <5>2, <5>3
        <5> QED
          BY <3>6, <5>3, <5>4 DEF Outside, Queued, r
      <4>2. CASE PlayerOf(f) # "prompt"
        BY <2>4, <3>1, <3>6, <3>7, <4>2 DEF Outside
      <4> QED
        BY <4>1, <4>2
    <3> QED
      BY <2>1, <3>1, <3>2, <3>8, CommonOther
  <2>12. CASE StartNextLocal(t)
    <3>1. StartLocalInner \in Seq(Plain)
      <4>1. Do("local_update", NONE) \in Plain /\ Do("local_path", NONE) \in Plain
        BY DEF Plain, AllCalls, UserCalls, ApiCalls, Calls, Do
      <4> QED
        BY <4>1 DEF StartLocalInner
    <3>2. Becomes(t, StartLocalInner) /\ g_common_mutex' = g_common_mutex /\ op = "start_next"
      BY <2>12 DEF StartNextLocal, At, lockVars
    <3> QED
      BY <2>7, <3>1, <3>2
  <2>13. CASE LocalPath(t)
    <3>1. PlayerStart("LOCAL") \in Seq(Plain)
      <4>1. Do("player_start", "LOCAL") \in Plain
        BY DEF Plain, AllCalls, UserCalls, ApiCalls, Calls, Do, Flags
      <4> QED
        BY <4>1 DEF PlayerStart
    <3>2. g_common_mutex' = g_common_mutex /\ op = "local_path"
           /\ (Done(t) \/ Becomes(t, PlayerStart("LOCAL")))
      BY <2>13 DEF LocalPath, At, lockVars
    <3> QED
      BY <2>6, <2>7, <3>1, <3>2
  <2>14. CASE SetAudioNext(t) \/ SetAutoResume(t) \/ PromptWait(t) \/ Send(t) \/ StartNextWeb(t)
               \/ LocalMax(t) \/ LocalUpdate(t) \/ FreeMessage(t) \/ Finish(t)
    <3>1. Done(t) /\ g_common_mutex' = g_common_mutex /\ op \notin {"common_lock", "common_unlock"}
      BY <2>14 DEF SetAudioNext, SetAutoResume, PromptWait, Send, StartNextWeb, LocalMax,
           LocalUpdate, FreeMessage, Finish, At, lockVars
    <3> QED
      BY <2>6, <3>1
  <2>15. CASE Check(t) \/ Post(t) \/ Refused(t)
    <3>1. g_common_mutex' = g_common_mutex /\ op \in Ops /\ (Done(t) \/ todo' = todo)
      BY <2>15 DEF Check, Post, Refused, Locks, lockVars
    <3> QED
      BY <2>5, <2>6, <3>1 DEF Ops
  <2>16. CASE Answer(t) \/ Timeout(t)
    <3>1. g_common_mutex' = g_common_mutex /\ op \in Ops /\ Done(t)
      BY <2>16 DEF Answer, Timeout, Return, LockInv
    <3> QED
      BY <2>6, <3>1 DEF Ops
  <2> QED
    BY <1>5, <2>8, <2>9, <2>10, <2>11, <2>12, <2>13, <2>14, <2>15, <2>16 DEF CallStep
<1> QED
  BY <1>1, <1>2, <1>3, <1>4, <1>5 DEF Next, AtRest

-----------------------------------------------------------------------------
(* The workers *)

\* What the calls leave alone of a worker.
LEMMA CallWorker ==
  ASSUME NEW t \in Threads, CallStep(t), LockInv, TypeInv
  PROVE  /\ cur_state' = cur_state /\ phase' = phase
         /\ \A p \in Players : "STOP_DONE" \in event'[p] => "STOP_DONE" \in event[p]
         /\ \/ flag' = flag /\ overrun' = overrun
            \/ Check(t)
<1>1. CASE Post(t)
  <2>1. event' = [event EXCEPT ![Call(t).arg] = @ \cup {CommandOf(Call(t).op)}]
          /\ Call(t).op \in Ops
        /\ cur_state' = cur_state /\ phase' = phase /\ flag' = flag /\ overrun' = overrun
    BY <1>1 DEF Post, infoVars
  <2>2. CommandOf(Call(t).op) # "STOP_DONE"
    BY <2>1 DEF CommandOf, Ops
  <2> QED
    BY <2>1, <2>2 DEF TypeInv, PlayerTypes
<1>2. CASE Answer(t) \/ Timeout(t)
  BY <1>2 DEF Answer, Timeout, Return, infoVars, TypeInv, PlayerTypes
<1>3. CASE Refused(t)
  BY <1>3 DEF Refused, TypeInv, PlayerTypes
<1>4. CASE Check(t)
  BY <1>4 DEF Check
<1> QED
  BY <1>1, <1>2, <1>3, <1>4
     DEF CallStep, SetAudioNext, SetAutoResume, NewPlayer, NewPlayerWaitFinish, PromptWait, Send,
         StartNextLocal, StartNextWeb, LocalMax, LocalUpdate, LocalPath, CommonLock, CommonUnlock,
         FreeMessage, Finish, playerVars, infoVars

\* WorkerInv does not see a step that changes no player's state and answers nothing,
\* gives no idle worker a call, and starts no prompt over its head unnoticed.
LEMMA WorkerOther ==
  ASSUME TypeInv, WorkerInv, cur_state' = cur_state, phase' = phase,
         \A p \in Players : "STOP_DONE" \in event'[p] => "STOP_DONE" \in event[p],
         \A p \in Players : todo'[p] # <<>> => todo[p] # <<>>,
         \/ phase["prompt"] # "leave" \/ "prompt" \in overrun'
         \/ flag'["prompt"] = flag["prompt"] /\ ("prompt" \in overrun => "prompt" \in overrun')
  PROVE  WorkerInv'
BY PlayersDistinct DEF WorkerInv, Calling

\* Every step keeps WorkerInv.
LEMMA WorkerInvStep ==
  ASSUME TypeInv, TodoInv, LockInv, WorkerInv, [Next]_vars
  PROVE  WorkerInv'
<1> USE PlayersDistinct
<1>1. CASE UNCHANGED vars
  BY <1>1, WorkerOther DEF vars, infoVars, playerVars
<1>2. CASE Take
  <2>1. UNCHANGED <<infoVars, playerVars>>
    BY <1>2 DEF Take
  <2> QED
    BY <1>2, <2>1, TakeTodo, WorkerOther DEF infoVars, playerVars
<1>3. ASSUME NEW t \in Users, Begin(t) PROVE WorkerInv'
  <2>1. UNCHANGED <<infoVars, playerVars>>
    BY <1>3 DEF Begin
  <2> QED
    BY <1>3, <2>1, BeginTodo, WorkerOther DEF infoVars, playerVars
<1>4. ASSUME NEW p \in Players, WorkerStep(p) \/ WorkerEnd(p) PROVE WorkerInv'
  <2>1. /\ todo[p] = <<>> /\ TodoInv' /\ \A u \in Threads \ {p} : todo'[u] = todo[u]
        /\ flag' = flag /\ overrun' = overrun /\ phase' = [phase EXCEPT ![p] = phase'[p]]
        /\ phase \in [Players -> {"loop", "scan", "open", "after", "callback", "leave"}]
    <3>1. flag' = flag /\ overrun' = overrun /\ phase' = [phase EXCEPT ![p] = phase'[p]]
      BY <1>4
         DEF WorkerStep, WorkerStart, WorkerScan, WorkerNoFile, WorkerOpen, WorkerEnd, WorkerStop,
             WorkerHalt, WorkerResume, WorkerAfterStop, WorkerCallback, WorkerIdle, workRest,
             infoVars, Worker, TypeInv, PlayerTypes
    <3> QED
      BY <1>4, <3>1, WorkerTodo DEF TypeInv, PlayerTypes
  <2>2. \A q \in Players :
          /\ phase'[q] = "loop" => cur_state'[q] # "START"
          /\ phase'[q] \in {"scan", "open"} => cur_state'[q] = "START"
          /\ phase'[q] \in {"callback", "leave"} => cur_state'[q] = "STOP"
          /\ "STOP_DONE" \in event'[q] => cur_state'[q] = "IDLE"
    <3> USE DEF Worker, Enter, WorkerInv, TypeInv, PlayerTypes
    <3>1. CASE WorkerStart(p)
      BY <3>1 DEF WorkerStart
    <3>2. CASE WorkerScan(p) \/ WorkerAfterStop(p) \/ WorkerCallback(p)
      BY <3>2 DEF WorkerScan, WorkerAfterStop, WorkerCallback
    <3>3. CASE WorkerNoFile(p) \/ WorkerOpen(p)
      BY <3>3 DEF WorkerNoFile, WorkerOpen
    <3>4. CASE WorkerEnd(p)
      BY <3>4 DEF WorkerEnd
    <3>5. CASE WorkerStop(p)
      <4>1. /\ cur_state' = [cur_state EXCEPT ![p] = "STOP"]
            /\ phase' = [phase EXCEPT ![p] = "loop"]
            /\ cur_state[p] # "IDLE"
            /\ \A q \in Players : event'[q] \subseteq event[q]
        BY <3>5 DEF WorkerStop
      <4> QED
        BY <4>1
    <3>6. CASE WorkerHalt(p)
      <4>1. PICK c \in {"PAUSE", "BREAK"} :
              /\ event' = [event EXCEPT ![p] = (@ \ Commands)
                             \cup {IF c = "PAUSE" THEN "PAUSE_DONE" ELSE "BREAK_DONE"}]
              /\ Enter(p, c) \/ Enter(p, "STOP")
              /\ cur_state[p] = "PLAY" /\ phase' = [phase EXCEPT ![p] = "loop"]
        BY <3>6 DEF WorkerHalt
      <4>2. "STOP_DONE" \notin event[p]
        BY <4>1
      <4>3. cur_state'[p] \in {"PAUSE", "BREAK", "STOP"}
              /\ \A q \in Players \ {p} : cur_state'[q] = cur_state[q]
        BY <4>1
      <4>4. "STOP_DONE" \notin event'[p] /\ \A q \in Players \ {p} : event'[q] = event[q]
        BY <4>1, <4>2
      <4>5. phase'[p] = "loop" /\ \A q \in Players \ {p} : phase'[q] = phase[q]
        BY <4>1
      <4> QED
        BY <4>3, <4>4, <4>5
    <3>7. CASE WorkerResume(p)
      BY <3>7 DEF WorkerResume
    <3>8. CASE WorkerIdle(p)
      BY <3>8 DEF WorkerIdle
    <3> QED
      BY <1>4, <3>1, <3>2, <3>3, <3>4, <3>5, <3>6, <3>7, <3>8 DEF WorkerStep
  <2>3. \E q \in Players : ~(phase'[q] \in {"open", "callback"} /\ todo'[q] # <<>>)
    <3>1. CASE todo'[p] = <<>>
      BY <3>1
    <3>2. CASE WorkerCallback(p)
      BY <3>2, <2>1 DEF WorkerCallback, Worker
    <3>3. CASE (WorkerScan(p) \/ WorkerAfterStop(p)) /\ todo'[p] # <<>>
      <4>1. cur_state[Other(p)] \in {"PLAY", "BREAK"}
        BY <3>3 DEF WorkerScan, WorkerAfterStop, TodoInv
      <4>2. phase[Other(p)] \notin {"open", "callback"}
        BY <4>1 DEF WorkerInv
      <4> QED
        BY <2>1, <4>2
    <3> QED
      BY <1>4, <2>1, <3>1, <3>2, <3>3
         DEF WorkerStep, WorkerStart, WorkerNoFile, WorkerOpen, WorkerEnd, WorkerStop, WorkerHalt,
             WorkerResume, WorkerIdle
  <2>4. phase'["prompt"] = "leave" /\ todo'["prompt"] # <<>> =>
          flag'["prompt"] # "PROMPT" \/ "prompt" \in overrun'
    <3>1. CASE p = "prompt"
      <4>1. CASE WorkerCallback(p)
        BY <2>1, <3>1, <4>1 DEF WorkerCallback, Callback, TodoInv
      <4>2. CASE ~WorkerCallback(p)
        BY <1>4, <2>1, <3>1, <4>2
           DEF WorkerStep, WorkerStart, WorkerScan, WorkerNoFile, WorkerOpen, WorkerEnd,
               WorkerStop, WorkerHalt, WorkerResume, WorkerAfterStop, WorkerIdle, Worker
      <4> QED
        BY <4>1, <4>2
    <3>2. CASE p # "prompt"
      BY <2>1, <3>2 DEF WorkerInv
    <3> QED
      BY <3>1, <3>2
  <2> QED
    BY <2>2, <2>3, <2>4 DEF WorkerInv, Calling
<1>5. ASSUME NEW t \in Threads, CallStep(t) PROVE WorkerInv'
  <2>1. \A p \in Players : todo'[p] # <<>> => todo[p] # <<>>
    BY <1>5, CallTodo, CallNotEmpty
  <2>2. /\ cur_state' = cur_state /\ phase' = phase
        /\ \A p \in Players : "STOP_DONE" \in event'[p] => "STOP_DONE" \in event[p]
    BY <1>5, CallWorker
  <2>3. \/ phase["prompt"] # "leave" \/ "prompt" \in overrun'
        \/ flag'["prompt"] = flag["prompt"] /\ ("prompt" \in overrun => "prompt" \in overrun')
    <3>1. CASE flag' = flag /\ overrun' = overrun
      BY <3>1
    <3>2. CASE Check(t) /\ phase["prompt"] = "leave"
      <4>1. cur_state["prompt"] = "STOP"
        BY <3>2 DEF WorkerInv
      <4>2. CASE Call(t).op = "start" /\ Call(t).arg = "prompt"
        BY <3>2, <4>1, <4>2 DEF Check
      <4>3. CASE Call(t).op # "start"
        BY <3>2, <4>3 DEF Check
      <4>4. CASE Call(t).op = "start" /\ Call(t).arg # "prompt"
        BY <3>2, <4>4 DEF Check, TypeInv, InfoTypes
      <4> QED
        BY <4>2, <4>3, <4>4
    <3> QED
      BY <1>5, <3>1, <3>2, CallWorker
  <2> QED
    BY <2>1, <2>2, <2>3, WorkerOther
<1> QED
  BY <1>1, <1>2, <1>3, <1>4, <1>5 DEF Next, AtRest

-----------------------------------------------------------------------------
(* Who waits for whom *)

\* What a thread waits for: an answer of a worker, a lock, or the prompt that plays.
LEMMA WaitCases ==
  ASSUME NEW t \in Threads, WaitsFor(t) \in Threads
  PROVE  /\ todo[t] # <<>>
         /\ \/ t \in waiting /\ WaitsFor(t) = Call(t).arg
            \/ Call(t).op \in Ops /\ t \notin waiting /\ mutex[Call(t).arg] # t
                 /\ WaitsFor(t) = mutex[Call(t).arg]
            \/ Call(t).op = "common_lock" /\ WaitsFor(t) = g_common_mutex
            \/ Call(t).op = "prompt_wait" /\ PromptBusy(Call(t).arg) /\ WaitsFor(t) = "prompt"
BY PlayersDistinct DEF WaitsFor

\* The holder of a player's lock waits for nothing but that player's worker.
LEMMA HolderWaits ==
  ASSUME TypeInv, TodoInv, LockInv, NEW q \in Players, NEW h \in Threads, mutex[q] = h,
         WaitsFor(h) \in Threads
  PROVE  WaitsFor(h) = q
<1>1. Call(h).op \in Ops /\ Call(h).arg = q
  BY DEF LockInv
<1> QED
  BY <1>1, WaitCases DEF Ops

\* The worker of a player waits for the prompt only when it reports an error there.
LEMMA LeaveWaits ==
  ASSUME TypeInv, TodoInv, LockInv, WorkerInv, NEW p \in Players, phase[p] = "leave",
         WaitsFor(p) \in Threads
  PROVE  /\ At(p, "prompt_wait")
         /\ p = "prompt" => "prompt" \in overrun
<1> USE PlayersDistinct
<1>1. todo[p] # <<>>
  BY WaitCases
<1>2. Call(p) \in CallsAt(p)
  BY <1>1, HeadSound
<1>3. Call(p).op \in {"player_start", "prompt_wait", "send", "start_next", "local_update",
                        "local_path"}
  BY <1>2 DEF CallsAt, ReportCalls, LocalCalls, Calls
<1>4. p \notin waiting
  BY <1>3 DEF LockInv, Ops
<1>5. Call(p).op = "prompt_wait" /\ PromptBusy(Call(p).arg)
  BY <1>3, <1>4, WaitCases DEF Ops
<1> QED
  BY <1>1, <1>5 DEF At, PromptBusy, WorkerInv

\* No threads wait for each other in a circle, but with the resource player's worker
\* at prompt_wait.  Somebody in the circle is a worker; it calls the other player,
\* or waits for the prompt, and each leads to a thread that waits for no one in it.
LEMMA NoCircle ==
  ASSUME TypeInv, TodoInv, LockInv, CommonInv, WorkerInv
  PROVE  OnlyReportsDeadlock
<1> USE PlayersDistinct
<1> SUFFICES ASSUME "prompt" \notin overrun,
                    NEW S \in SUBSET (Threads \ {t \in {"resource"} : At(t, "prompt_wait")}),
                    Circle(S)
             PROVE  FALSE
  BY DEF OnlyReportsDeadlock
<1>1. S # {} /\ S \subseteq Threads /\ \A t \in S : WaitsFor(t) \in S
  BY DEF Circle
<1>2. ASSUME NEW q \in Players, mutex[q] \in S PROVE q \in S
  <2>1. PICK h \in S : mutex[q] = h
    BY <1>2
  <2>2. WaitsFor(h) \in S /\ h \in Threads /\ WaitsFor(h) \in Threads
    BY <1>1
  <2> QED
    BY <2>1, <2>2, HolderWaits
<1>3. ASSUME NEW t \in S, Call(t).op \in Ops, todo[t] # <<>>
      PROVE Call(t).arg \in S /\ Call(t).arg \in Players
  <2>1. Call(t).arg \in Players
    BY <1>1, <1>3, OpSound
  <2> QED
    BY <1>1, <1>2, <1>3, <2>1, WaitCases DEF Ops
<1>4. \E p \in Players : p \in S
  <2>1. PICK t \in S : TRUE
    BY <1>1
  <2>2. CASE Call(t).op = "common_lock" /\ WaitsFor(t) = g_common_mutex
    <3> DEFINE h == g_common_mutex
    <3>1. h \in S /\ h \in Threads /\ Inside(todo[h])
      BY <1>1, <2>2 DEF CommonInv
    <3>2. todo[h] # <<>> /\ todo[h] \in Seq(AllCalls)
      BY <1>1, <3>1, WaitCases DEF TodoInv
    <3>3. Call(h).op \in {"common_unlock", "start", "stop"}
      BY <3>1, <3>2, Places DEF Call
    <3> HIDE DEF h
    <3>4. Call(h).op \in Ops
      BY <1>1, <3>1, <3>3, WaitCases DEF Ops, LockInv
    <3> QED
      BY <1>3, <3>1, <3>2, <3>4
  <2>3. CASE t \in waiting
    BY <1>3, <2>3 DEF LockInv
  <2>4. todo[t] # <<>>
    BY <1>1, WaitCases
  <2>5. CASE Call(t).op \in Ops
    BY <1>3, <2>4, <2>5
  <2>6. CASE WaitsFor(t) = "prompt"
    BY <1>1, <2>6
  <2> QED
    BY <1>1, <2>2, <2>3, <2>5, <2>6, WaitCases
<1>5. \A p \in Players \cap S : phase[p] # "leave"
  BY <1>1, LeaveWaits
<1>6. ASSUME NEW p \in Players \cap S
      PROVE  Calling(p) /\ Other(p) \in S
  <2>1. todo[p] # <<>>
    BY <1>1, WaitCases
  <2>2. Call(p) \in CallsAt(p)
    BY <2>1, HeadSound
  <2>3. phase[p] \in {"open", "callback"}
          /\ Call(p) \in Calls({"break"}, {Other(p)}) \cup Calls({"resume"}, {Other(p)})
    BY <1>5, <2>2 DEF CallsAt
  <2>4. Call(p).op \in Ops /\ Call(p).arg = Other(p)
    BY <2>3 DEF Calls, Ops
  <2> QED
    BY <1>3, <2>1, <2>3, <2>4 DEF Calling
<1> QED
  BY <1>4, <1>6 DEF WorkerInv

-----------------------------------------------------------------------------
(* The index *)

\* Besides the users only the resource player's worker moves the index.
LEMMA UpdatersCount ==
  ASSUME TodoInv
  PROVE  /\ IsFiniteSet(Threads) /\ IsFiniteSet(Updaters)
         /\ Cardinality(Updaters) \in 0..Movers
<1> USE PlayersDistinct
<1>1. Threads = Users \cup {"prompt", "resource", "mgr"} /\ IsFiniteSet(Users)
  BY UsersAssumption DEF Threads
<1>2. IsFiniteSet(Users \cup {"resource"})
      /\ Cardinality(Users \cup {"resource"}) = Cardinality(Users) + 1
  BY <1>1, FS_AddElement
<1>3. IsFiniteSet(Threads)
  <2>1. IsFiniteSet((Users \cup {"resource"}) \cup {"prompt"})
    BY <1>2, FS_AddElement
  <2>2. IsFiniteSet(((Users \cup {"resource"}) \cup {"prompt"}) \cup {"mgr"})
    BY <2>1, FS_AddElement
  <2>3. Threads = ((Users \cup {"resource"}) \cup {"prompt"}) \cup {"mgr"}
    BY <1>1
  <2> QED
    BY <2>2, <2>3
<1>4. Updaters \subseteq Users \cup {"resource"}
  <2> SUFFICES ASSUME NEW t \in Updaters, t \notin Users, t # "resource" PROVE FALSE
    OBVIOUS
  <2>1. Call(t) \in CallsAt(t) /\ Call(t).op = "local_update" /\ t \in {"prompt", "mgr"}
    BY HeadSound, <1>1 DEF Updaters, At
  <2> QED
    BY <2>1 DEF CallsAt, MgrCalls, SessionCalls, StartCalls, ReportCalls, Calls
<1>5. IsFiniteSet(Updaters) /\ Cardinality(Updaters) <= Cardinality(Users) + 1
  <2> HIDE DEF Updaters
  <2>1. IsFiniteSet(Updaters) /\ Cardinality(Updaters) <= Cardinality(Users \cup {"resource"})
    BY <1>2, <1>4, FS_Subset
  <2> QED
    BY <1>2, <2>1
<1> QED
  BY <1>3, <1>5, FS_CardinalityType DEF Movers

\* The index may stay while more threads are about to look at it.
LEMMA IndexKept ==
  ASSUME TodoInv, TodoInv', TypeInv, IndexInv, Updaters \subseteq Updaters',
         g_audio_local_index' = g_audio_local_index
  PROVE  IndexInv'
<1>1. IsFiniteSet(Threads)
  BY UpdatersCount
<1>2. IsFiniteSet(Updaters') /\ IsFiniteSet(Updaters)
  BY <1>1, FS_Subset DEF Updaters
<1>3. Cardinality(Updaters) <= Cardinality(Updaters') /\ Cardinality(Updaters) \in Nat
        /\ Cardinality(Updaters') \in Nat
  BY <1>2, FS_Subset, FS_CardinalityType
<1> QED
  BY <1>3, BoundsAssumption DEF IndexInv, TypeInv, MgrTypes, Lo, Hi

\* Every step keeps IndexInv: who moves the index by one is about to look at it, and
\* who has looked leaves it in range.
LEMMA IndexStep ==
  ASSUME TypeInv, TodoInv, LockInv, IndexInv, [Next]_vars
  PROVE  IndexInv'
<1> USE PlayersDistinct
<1>1. TodoInv' /\ TypeInv'
  BY TodoStep, TypeStep
<1>2. ASSUME NEW t \in Threads, todo[t] = <<>>, \A u \in Threads \ {t} : todo'[u] = todo[u]
      PROVE  Updaters \subseteq Updaters'
  BY <1>2 DEF Updaters, At, Call
<1>3. CASE UNCHANGED vars
  BY <1>3, <1>1, IndexKept DEF vars, mgrVars, Updaters, At, Call
<1>4. CASE Take
  <2>1. g_audio_local_index' = g_audio_local_index /\ todo["mgr"] = <<>>
    BY <1>4 DEF Take, mgrVars
  <2> QED
    BY <1>1, <1>2, <1>4, <2>1, TakeTodo, IndexKept
<1>5. ASSUME NEW t \in Users, Begin(t) PROVE IndexInv'
  <2>1. g_audio_local_index' = g_audio_local_index /\ todo[t] = <<>>
    BY <1>5 DEF Begin, mgrVars
  <2> QED
    BY <1>1, <1>2, <1>5, <2>1, BeginTodo, IndexKept
<1>6. ASSUME NEW p \in Players, WorkerStep(p) \/ WorkerEnd(p) PROVE IndexInv'
  <2>1. g_audio_local_index' = g_audio_local_index
    BY <1>6
       DEF WorkerStep, WorkerStart, WorkerScan, WorkerNoFile, WorkerOpen, WorkerEnd, WorkerStop,
           WorkerHalt, WorkerResume, WorkerAfterStop, WorkerCallback, WorkerIdle, workRest,
           mgrVars
  <2> QED
    BY <1>1, <1>2, <1>6, <2>1, WorkerTodo, IndexKept
<1>7. ASSUME NEW t \in Threads, CallStep(t) PROVE IndexInv'
  <2>1. todo[t] # <<>> /\ \A u \in Threads \ {t} : todo'[u] = todo[u]
    BY <1>7, CallTodo, CallNotEmpty
  <2>2. IsFiniteSet(Updaters) /\ Cardinality(Updaters) \in Nat
    BY UpdatersCount
  <2>3. CASE StartNextLocal(t)
    <3>1. t \notin Updaters /\ Call(t).arg \in {1, -1}
      <4>1. Call(t).op = "start_next" /\ Call(t) \in AllCalls
        BY <2>1, <2>3, HeadSound DEF StartNextLocal, At
      <4> QED
        BY <4>1
           DEF Updaters, At, AllCalls, MgrCalls, UserCalls, ApiCalls, LocalCalls, SessionCalls,
               StartCalls, Calls
    <3>2. At(t, "local_update")'
      <4>1. todo'[t] = StartLocalInner \o Tail(todo[t])
        BY <2>3 DEF StartNextLocal, Becomes, TodoInv
      <4>2. Tail(todo[t]) \in Seq(AllCalls)
        BY <2>1 DEF TodoInv
      <4> DEFINE a == Do("local_update", NONE)  b == Do("local_path", NONE)
      <4>3. a \in AllCalls /\ b \in AllCalls
        BY DEF AllCalls, UserCalls, ApiCalls, Calls, Do
      <4>4. todo'[t] = <<a, b>> \o Tail(todo[t]) /\ a.op = "local_update"
        BY <4>1 DEF StartLocalInner, Do
      <4> HIDE DEF a, b
      <4>5. todo'[t] # <<>> /\ Head(todo'[t]) = a
        BY <4>2, <4>3, <4>4
      <4> QED
        BY <4>4, <4>5 DEF At, Call
    <3>3. Updaters' = Updaters \cup {t}
      <4>1. \A u \in Threads : u \in Updaters' <=> u \in Updaters \/ u = t
        BY <2>1, <3>1, <3>2 DEF Updaters, At, Call
      <4>2. Updaters \subseteq Threads /\ Updaters' \subseteq Threads
        BY DEF Updaters
      <4> HIDE DEF Updaters
      <4> QED
        BY <4>1, <4>2
    <3>4. Cardinality(Updaters') = Cardinality(Updaters) + 1
      BY <2>2, <3>1, <3>3, FS_AddElement
    <3>5. g_audio_local_index' = g_audio_local_index + Call(t).arg
      BY <2>3 DEF StartNextLocal
    <3> QED
      BY <2>2, <3>1, <3>4, <3>5, BoundsAssumption DEF IndexInv, TypeInv, MgrTypes, Lo, Hi
  <2>4. CASE LocalUpdate(t)
    <3>1. g_audio_local_max' = NumFiles
      BY <2>4, BoundsAssumption DEF LocalUpdate, TypeInv, MgrTypes
    <3>2. g_audio_local_index' = Wrapped(g_audio_local_index, NumFiles)
      BY <2>4, <3>1 DEF LocalUpdate
    <3>3. Lo <= g_audio_local_index' /\ g_audio_local_index' <= Hi
      BY <3>2, BoundsAssumption DEF Wrapped, Lo, Hi, TypeInv, MgrTypes
    <3>4. Cardinality(Updaters') \in Nat
      <4>1. IsFiniteSet(Updaters')
        BY UpdatersCount, FS_Subset DEF Updaters
      <4> QED
        BY <4>1, FS_CardinalityType
    <3> QED
      BY <1>1, <3>3, <3>4, BoundsAssumption DEF IndexInv, Lo, Hi, TypeInv, MgrTypes
  <2>5. CASE ~StartNextLocal(t) /\ ~LocalUpdate(t)
    <3>1. ~At(t, "local_update")
      BY <1>7, <2>5
         DEF CallStep, SetAudioNext, SetAutoResume, NewPlayer, NewPlayerWaitFinish, PromptWait,
             Send, StartNextWeb, LocalMax, LocalPath, CommonLock, CommonUnlock, FreeMessage,
             Finish, At, Check, Post, Refused, Locks, Answer, Timeout, Ops, LockInv
    <3>2. g_audio_local_index' = g_audio_local_index
      BY <1>7, <2>5
         DEF CallStep, SetAudioNext, SetAutoResume, NewPlayer, NewPlayerWaitFinish, PromptWait,
             Send, StartNextWeb, LocalMax, LocalPath, CommonLock, CommonUnlock, FreeMessage,
             Finish, Check, Post, Refused, Answer, Timeout, Return, mgrVars
    <3> QED
      BY <1>1, <2>1, <3>1, <3>2, IndexKept DEF Updaters, At, Call
  <2> QED
    BY <2>3, <2>4, <2>5
<1> QED
  BY <1>3, <1>4, <1>5, <1>6, <1>7 DEF Next, AtRest

-----------------------------------------------------------------------------
(* A request to stop *)

\* What becomes of a request: calls that leave g_audio_auto_next alone, and that
\* start the resource player only if the request did.
LEMMA SessionOf ==
  ASSUME NEW info \in Infos(Flags), NEW D,
         {Do("common_lock", NONE), Stop(PlayerOf(info.flag)),
          With("start", PlayerOf(info.flag), info), Do("common_unlock", NONE)} \subseteq D
  PROVE  AudioPlayerStart(info) \in Seq(D)
BY DEF AudioPlayerStart

\* A call is replaced by what it consists of, which begins a session of the resource
\* player only if the call did, and never sets g_audio_auto_next.
LEMMA Steps ==
  ASSUME TypeInv, TodoInv, LockInv, NEW t \in Threads, CallStep(t)
  PROVE  \/ todo'[t] = todo[t]
         \/ \E s \in Seq(Unset) : /\ todo'[t] = s \o Tail(todo[t])
                                  /\ Call(t) \in Quiet => s \in Seq(Quiet)
<1> USE PlayersDistinct
<1> DEFINE Goal == \/ todo'[t] = todo[t]
                   \/ \E s \in Seq(Unset) : /\ todo'[t] = s \o Tail(todo[t])
                                            /\ Call(t) \in Quiet => s \in Seq(Quiet)
<1> SUFFICES Goal
  OBVIOUS
<1>1. todo[t] # <<>> /\ Call(t) \in AllCalls
  BY CallNotEmpty, HeadSound
<1>2. ASSUME NEW s, Becomes(t, s) PROVE todo'[t] = s \o Tail(todo[t])
  BY <1>2 DEF Becomes, TodoInv
<1>3. ASSUME Done(t) PROVE Goal
  <2>1. <<>> \in Seq(Unset) /\ <<>> \in Seq(Quiet)
    OBVIOUS
  <2> QED
    BY <1>2, <1>3, <2>1 DEF Done
<1>4. CASE todo' = todo
  BY <1>4
<1>5. CASE NewPlayer(t)
  <2> DEFINE f == Call(t).arg
             a == Do("prompt_wait", f)
             b == Do("send", Message("START", Info(f)))
  <2>1. f \in Flags /\ a \in AllCalls /\ b \in AllCalls /\ Call(t).op = "player_start"
    BY <1>5, NewPlayerCalls, CallsSound DEF NewPlayer, At
  <2>2. a \in Unset /\ b \in Unset
    BY <2>1 DEF Unset, Do
  <2>3. Call(t) \in Quiet => PlayerOf(f) # "resource"
    BY <2>1 DEF Quiet, StartsResource
  <2>4. PlayerOf(f) # "resource" => a \in Quiet /\ b \in Quiet
    BY <2>1 DEF Quiet, StartsResource, Do, Message, Info
  <2>5. todo'[t] = <<a, b>> \o Tail(todo[t])
    BY <1>2, <1>5 DEF NewPlayer
  <2> HIDE DEF a, b
  <2>6. <<a, b>> \in Seq(Unset)
    BY <2>2
  <2>7. Call(t) \in Quiet => <<a, b>> \in Seq(Quiet)
    BY <2>3, <2>4
  <2> QED
    BY <2>5, <2>6, <2>7
<1>6. CASE NewPlayerWaitFinish(t)
  <2> DEFINE f == Call(t).arg
             p == PlayerOf(f)
             w == Do("prompt_wait", f)
             a == AudioPlayerStart(Info(f))
             e == Do("finish", p)
             s == (IF p = "prompt" THEN <<w>> ELSE <<>>) \o a \o <<e>>
  <2>1. f \in Flags /\ Info(f) \in Infos(Flags) /\ Call(t).op = "player_start_wait_finish"
        /\ p \in Players /\ Info(f).flag = f
    BY <1>6, WaitFinishCalls DEF NewPlayerWaitFinish, At, Info
  <2>2. w \in AllCalls /\ e \in AllCalls
    BY <2>1 DEF AllCalls, UserCalls, ApiCalls, Calls, Do
  <2> DEFINE A == {Do("common_lock", NONE), Stop(p), With("start", p, Info(f)),
                     Do("common_unlock", NONE)}
  <2>3. A \subseteq AllCalls
    <3>1. {Do("common_lock", NONE), Stop(p), Do("common_unlock", NONE)} \subseteq SessionCalls
      BY <2>1 DEF SessionCalls, Calls, Do, Stop
    <3>2. With("start", p, Info(f)) \in StartCalls("prompt") \cup StartCalls("resource")
      BY <2>1, SessionSound
    <3> QED
      BY <3>1, <3>2 DEF AllCalls, MgrCalls, SessionCalls
  <2>4. A \subseteq Unset /\ w \in Unset /\ e \in Unset
    BY <2>2, <2>3 DEF Unset, Do, Stop, With
  <2>5. Call(t) \in Quiet => p = "prompt"
    BY <2>1 DEF Quiet, StartsResource
  <2>6. p = "prompt" => A \subseteq Quiet /\ w \in Quiet /\ e \in Quiet
    BY <2>2, <2>3 DEF Quiet, StartsResource, Do, Stop, With
  <2>7. ASSUME NEW D, A \subseteq D, w \in D, e \in D PROVE s \in Seq(D)
    <3>1. a \in Seq(D)
      BY <2>1, <2>7, SessionOf
    <3> HIDE DEF a, w, e, p
    <3> QED
      BY <2>7, <3>1
  <2>8. todo'[t] = s \o Tail(todo[t])
    <3>1. Becomes(t, s)
      BY <1>6 DEF NewPlayerWaitFinish
    <3> HIDE DEF s
    <3> QED
      BY <1>2, <3>1
  <2> HIDE DEF s, A, w, e, p
  <2> QED
    BY <2>4, <2>5, <2>6, <2>7, <2>8
<1>7. ASSUME Call(t).op \in {"start_next", "local_path"},
             Becomes(t, StartLocalInner) \/ Becomes(t, PlayerStart("LOCAL"))
      PROVE  Goal
  <2> DEFINE a == Do("local_update", NONE)  b == Do("local_path", NONE)
             c == Do("player_start", "LOCAL")
  <2>1. {a, b, c} \subseteq Unset
    BY DEF Unset, AllCalls, UserCalls, ApiCalls, Calls, Do, Flags
  <2>2. Call(t) \notin Quiet
    BY <1>7 DEF Quiet, StartsResource
  <2>3. StartLocalInner = <<a, b>> /\ PlayerStart("LOCAL") = <<c>>
    BY DEF StartLocalInner, PlayerStart
  <2> HIDE DEF a, b, c
  <2>4. StartLocalInner \in Seq(Unset) /\ PlayerStart("LOCAL") \in Seq(Unset)
    BY <2>1, <2>3
  <2> QED
    BY <1>2, <1>7, <2>2, <2>4
<1> HIDE DEF Goal
<1>8. CASE StartNextLocal(t)
  BY <1>7, <1>8 DEF StartNextLocal, At
<1>9. CASE LocalPath(t)
  BY <1>3, <1>7, <1>9 DEF LocalPath, At
<1> QED
  BY <1>3, <1>4, <1>5, <1>6, <1>8, <1>9
     DEF CallStep, SetAudioNext, SetAutoResume, PromptWait, Send, StartNextWeb, LocalMax,
         LocalUpdate, CommonLock, CommonUnlock, FreeMessage, Finish, Check, Post, Refused, Answer,
         Timeout, Return

\* Only the users' requests set g_audio_auto_next.
LEMMA OthersUnset ==
  ASSUME NEW t \in Threads, t \notin Users
  PROVE  CallsAt(t) \subseteq Unset
<1>1. \A c \in CallsAt(t) : c.op # "set_audio_next"
  BY DEF CallsAt, MgrCalls, SessionCalls, StartCalls, ReportCalls, LocalCalls, Calls
<1> QED
  BY <1>1, CallsSound DEF Unset

\* A sequence whose elements are all in D is a sequence over D.
LEMMA SeqOf ==
  ASSUME NEW C, NEW D, NEW s \in Seq(C), \A i \in DOMAIN s : s[i] \in D
  PROVE  s \in Seq(D)
<1>1. Len(s) \in Nat /\ s \in [1..Len(s) -> C] /\ DOMAIN s = 1..Len(s)
  OBVIOUS
<1>2. s \in [1..Len(s) -> D]
  BY <1>1
<1> QED
  BY <1>1, <1>2, SeqDef

\* The requests: those that begin no session of the resource player are quiet.
LEMMA ApiOrder ==
  ASSUME NEW s \in Api
  PROVE  SetOrder(s) /\ (s \in Starts \/ s \in Seq(Quiet))
<1> USE DEF Do
<1>1. ApiCalls \subseteq AllCalls
  BY CallSets DEF UserCalls
<1>2. ASSUME NEW f \in Flags
      PROVE  PlayerStart(f) \in Seq(Unset) /\ StartWaitFinish(f) \in Seq(Unset)
  <2>1. Do("player_start", f) \in ApiCalls /\ Do("player_start_wait_finish", f) \in ApiCalls
    BY DEF ApiCalls, Calls
  <2>2. Do("player_start", f) \in Unset /\ Do("player_start_wait_finish", f) \in Unset
    BY <1>1, <2>1 DEF Unset
  <2> QED
    BY <2>2 DEF PlayerStart, StartWaitFinish
<1>3. StartNext \in Seq(Unset) /\ StartPrev \in Seq(Unset)
  <2>1. Do("start_next", 1) \in ApiCalls /\ Do("start_next", -1) \in ApiCalls
    BY DEF ApiCalls, Calls
  <2>2. Do("start_next", 1) \in Unset /\ Do("start_next", -1) \in Unset
    BY <1>1, <2>1 DEF Unset
  <2> QED
    BY <2>2 DEF StartNext, StartPrev
<1>4. SetOrder(StartLocal)
  <2> DEFINE a == Do("set_audio_next", TRUE)  b == Do("local_max", NONE)
             c == Do("local_update", NONE)  d == Do("local_path", NONE)
  <2>1. {b, c, d} \subseteq ApiCalls /\ a \in ApiCalls
    BY DEF ApiCalls, Calls
  <2>2. {b, c, d} \subseteq Unset /\ StartsResource(b)
    BY <1>1, <2>1 DEF Unset, StartsResource
  <2>3. StartLocal = <<a, b>> \o <<c, d>>
    BY DEF StartLocal, StartLocalInner
  <2> HIDE DEF a, b, c, d
  <2> DEFINE r == <<c, d>>
  <2>4. r \in Seq(Unset) /\ r \in Seq(ApiCalls) /\ StartLocal = <<a, b>> \o r
    BY <2>1, <2>2, <2>3
  <2> HIDE DEF r
  <2>5. Head(StartLocal) = a /\ Tail(StartLocal) = <<b>> \o r /\ StartLocal # <<>>
        /\ StartLocal[2] = b /\ 2 \in DOMAIN StartLocal
    BY <2>1, <2>4
  <2>6. <<b>> \o r \in Seq(Unset)
    BY <2>2, <2>4
  <2> QED
    BY <2>2, <2>5, <2>6 DEF SetOrder, a
<1>5. SetOrder(PlayerStop) /\ PlayerStop \in Seq(Quiet)
  <2> DEFINE a == Do("set_audio_next", FALSE)  b == Do("send", Message("STOP", NONE))
  <2>1. a \in ApiCalls /\ b \in ApiCalls
    BY DEF ApiCalls, Calls, Messages, Message
  <2>2. a \in Quiet /\ b \in Quiet /\ b \in Unset
    BY <1>1, <2>1 DEF Unset, Quiet, StartsResource, Message
  <2>3. PlayerStop = <<a, b>>
    BY DEF PlayerStop
  <2> HIDE DEF a, b
  <2>4. PlayerStop # <<>> /\ Head(PlayerStop) = a /\ Tail(PlayerStop) = <<b>>
          /\ PlayerStop \in Seq(Quiet)
    BY <2>2, <2>3
  <2>5. <<b>> \in Seq(Unset \cap Quiet)
    BY <2>2
  <2> QED
    BY <2>4, <2>5 DEF SetOrder, a
<1>6. ASSUME NEW e \in {"PAUSE", "RESUME"}
      PROVE  <<Do("send", Message(e, NONE))>> \in Seq(Unset \cap Quiet)
  <2>1. Do("send", Message(e, NONE)) \in ApiCalls
    BY DEF ApiCalls, Calls, Messages, Message
  <2>2. Do("send", Message(e, NONE)) \in Unset \cap Quiet
    BY <1>1, <2>1 DEF Unset, Quiet, StartsResource, Message
  <2> QED
    BY <2>2
<1>7. PlayerBreak \in Seq(Unset \cap Quiet) /\ StopPrompt \in Seq(Unset \cap Quiet)
  <2>1. Stop("prompt") \in ApiCalls /\ Do("break", "resource") \in ApiCalls
    BY DEF ApiCalls, Calls, Stop, Players
  <2>2. Stop("prompt") \in Unset \cap Quiet /\ Do("break", "resource") \in Unset \cap Quiet
    BY <1>1, <2>1 DEF Unset, Quiet, StartsResource, Stop
  <2> QED
    BY <2>2 DEF PlayerBreak, StopPrompt
<1>8. ASSUME NEW b \in BOOLEAN PROVE SetAutoResumePrev(b) \in Seq(Unset \cap Quiet)
  <2>1. Do("set_auto_resume_prev", b) \in ApiCalls
    BY DEF ApiCalls, Calls
  <2>2. Do("set_auto_resume_prev", b) \in Unset \cap Quiet
    BY <1>1, <2>1 DEF Unset, Quiet, StartsResource
  <2> QED
    BY <2>2 DEF SetAutoResumePrev
<1>9. PlayerPause \in Seq(Unset \cap Quiet) /\ PlayerResume \in Seq(Unset \cap Quiet)
      /\ PlayerToggle \in Seq(Unset \cap Quiet)
  <2>1. PlayerPause \in Seq(Unset \cap Quiet) /\ PlayerResume \in Seq(Unset \cap Quiet)
    BY <1>6 DEF PlayerPause, PlayerResume
  <2> QED
    BY <2>1 DEF PlayerToggle
<1>10. \/ s \in Starts /\ (s \in Seq(Unset) \/ s = StartLocal)
       \/ s = PlayerStop \/ s \in Seq(Unset \cap Quiet)
  BY <1>2, <1>3, <1>7, <1>8, <1>9 DEF Api, Starts
<1>11. ASSUME s \in Seq(Unset \cap Quiet) PROVE s \in Seq(Unset) /\ s \in Seq(Quiet)
  BY <1>11
<1> QED
  BY <1>4, <1>5, <1>10, <1>11 DEF SetOrder

\* Every step keeps OrderInv: set_audio_next is the first call of a request, or none.
LEMMA OrderStep ==
  ASSUME TypeInv, TodoInv, LockInv, OrderInv, [Next]_vars
  PROVE  OrderInv'
<1> USE PlayersDistinct
<1>1. TodoInv'
  BY TodoStep
<1>2. \A u \in Threads \ Users : SetOrder(todo'[u])
  <2> SUFFICES ASSUME NEW u \in Threads \ Users PROVE todo'[u] \in Seq(Unset)
    BY DEF SetOrder
  <2>1. CallsAt(u)' \subseteq Unset
    <3>1. \A c \in CallsAt(u)' : c.op # "set_audio_next"
      BY DEF CallsAt, MgrCalls, SessionCalls, StartCalls, ReportCalls, LocalCalls, Calls
    <3>2. CallsAt(u)' \subseteq AllCalls
      BY CallSets DEF CallsAt
    <3> QED
      BY <3>1, <3>2 DEF Unset
  <2> QED
    BY <1>1, <2>1 DEF TodoInv
<1>3. ASSUME NEW u \in Users PROVE SetOrder(todo'[u])
  <2>1. CASE todo'[u] = todo[u]
    BY <2>1 DEF OrderInv
  <2>2. ASSUME CallStep(u) PROVE SetOrder(todo'[u])
    <3>1. todo[u] # <<>> /\ todo[u] \in Seq(AllCalls)
      BY <2>2, CallNotEmpty DEF TodoInv
    <3>2. Tail(todo[u]) \in Seq(Unset)
      <4>1. todo[u] \in Seq(Unset) => Tail(todo[u]) \in Seq(Unset)
        BY <3>1
      <4>2. Tail(todo[u]) \in Seq(Unset \cap Quiet) => Tail(todo[u]) \in Seq(Unset)
        OBVIOUS
      <4> QED
        BY <4>1, <4>2 DEF OrderInv, SetOrder
    <3>3. ASSUME NEW s \in Seq(Unset), todo'[u] = s \o Tail(todo[u]) PROVE todo'[u] \in Seq(Unset)
      BY <3>2, <3>3, ConcatProperties
    <3> QED
      BY <2>1, <2>2, <3>3, Steps DEF SetOrder
  <2>3. ASSUME Begin(u) PROVE SetOrder(todo'[u])
    BY <2>3, BeginTodo, ApiOrder
  <2>4. ASSUME NEW t \in Threads \ {u}, CallStep(t) PROVE todo'[u] = todo[u]
    BY <2>4, CallTodo
  <2>5. ASSUME NEW t \in Users \ {u}, Begin(t) PROVE todo'[u] = todo[u]
    BY <2>5, BeginTodo
  <2>6. ASSUME NEW p \in Players, WorkerStep(p) \/ WorkerEnd(p) PROVE todo'[u] = todo[u]
    BY <2>6, WorkerTodo
  <2>7. ASSUME Take \/ UNCHANGED vars PROVE todo'[u] = todo[u]
    BY <2>7, TakeTodo DEF vars
  <2> QED
    BY <2>1, <2>2, <2>3, <2>4, <2>5, <2>6, <2>7 DEF Next, AtRest
<1> QED
  BY <1>2, <1>3 DEF OrderInv

\* Whoever begins no session of the resource player, nor is about to, is quiet.
LEMMA StillQuiet ==
  ASSUME TodoInv, OrderInv, NEW u \in Threads, ~Starting(u)
  PROVE  todo[u] \in Seq(Quiet)
<1>1. \A i \in DOMAIN todo[u] : ~StartsResource(todo[u][i])
  BY DEF Starting, StartsResource
<1>2. todo[u] \in Seq(AllCalls) /\ SetOrder(todo[u])
  BY DEF TodoInv, OrderInv
<1>3. ASSUME todo[u] \in Seq(Unset) PROVE todo[u] \in Seq(Quiet)
  <2>1. \A i \in DOMAIN todo[u] : todo[u][i] \in Unset
    BY <1>3
  <2>2. \A i \in DOMAIN todo[u] : todo[u][i] \in Quiet
    BY <1>1, <2>1 DEF Unset, Quiet
  <2> QED
    BY <1>2, <2>2, SeqOf
<1>4. ASSUME todo[u] # <<>>, Head(todo[u]) = Do("set_audio_next", FALSE),
             Tail(todo[u]) \in Seq(Unset \cap Quiet)
      PROVE  todo[u] \in Seq(Quiet)
  <2>1. Head(todo[u]) \in AllCalls
    BY <1>2, <1>4
  <2>2. Head(todo[u]) \in Quiet
    BY <1>4, <2>1 DEF Quiet, StartsResource, Do
  <2>3. Tail(todo[u]) \in Seq(Quiet)
    BY <1>4
  <2> QED
    BY <1>2, <1>4, <2>2, <2>3
<1> QED
  BY <1>1, <1>2, <1>3, <1>4 DEF SetOrder

\* A quiet thread stays so.
LEMMA QuietKept ==
  ASSUME TypeInv, TodoInv, LockInv, NEW t \in Threads, CallStep(t), todo[t] \in Seq(Quiet)
  PROVE  Call(t) \in Quiet /\ todo'[t] \in Seq(Quiet)
<1>1. todo[t] # <<>>
  BY CallNotEmpty
<1>2. Head(todo[t]) \in Quiet /\ Tail(todo[t]) \in Seq(Quiet)
  BY <1>1
<1>3. ASSUME NEW s \in Seq(Quiet), todo'[t] = s \o Tail(todo[t]) PROVE todo'[t] \in Seq(Quiet)
  BY <1>2, <1>3, ConcatProperties
<1> QED
  BY <1>2, <1>3, Steps DEF Call

\* What the manager answers any message with but a start of the resource player.
LEMMA HandleQuiet ==
  ASSUME NEW m \in Messages, ~(m.event = "START" /\ PlayerOf(m.info.flag) = "resource")
  PROVE  Handle(m) \in Seq(Quiet)
<1> USE PlayersDistinct
<1> DEFINE e == Do("free", NONE)  a == Stop("prompt")  b == Stop("resource")
           c == Do("pause", "resource")  d == Do("resume", "resource")
<1>1. {a, b, c, d, e} \subseteq AllCalls
  BY DEF AllCalls, MgrCalls, SessionCalls, Calls, Do, Stop
<1>2. {a, b, c, d, e} \subseteq Quiet
  BY <1>1 DEF Quiet, StartsResource, Do, Stop
<1>3. CASE m.event = "START"
  <2> DEFINE p == PlayerOf(m.info.flag)
  <2>1. m.info \in Infos(Flags) /\ p = "prompt"
    BY <1>3, PlayersDistinct DEF Messages, Requests, Infos
  <2>2. {Do("common_lock", NONE), Stop(p), With("start", p, m.info), Do("common_unlock", NONE)}
          \subseteq AllCalls
    <3>1. {Do("common_lock", NONE), Stop(p), Do("common_unlock", NONE)} \subseteq SessionCalls
      BY <2>1 DEF SessionCalls, Calls, Do, Stop
    <3>2. With("start", p, m.info) \in StartCalls("prompt") \cup StartCalls("resource")
      BY <2>1, SessionSound
    <3> QED
      BY <3>1, <3>2 DEF AllCalls, MgrCalls, SessionCalls
  <2>3. {Do("common_lock", NONE), Stop(p), With("start", p, m.info), Do("common_unlock", NONE)}
          \subseteq Quiet
    BY <2>1, <2>2 DEF Quiet, StartsResource, Do, Stop, With
  <2>4. AudioPlayerStart(m.info) \in Seq(Quiet)
    BY <2>1, <2>3, SessionOf
  <2>5. Handle(m) = AudioPlayerStart(m.info) \o <<e>>
    BY <1>3 DEF Handle
  <2> HIDE DEF e
  <2> QED
    BY <1>2, <2>4, <2>5
<1>4. CASE m.event # "START"
  <2>1. m.event \in {"STOP", "PAUSE", "RESUME"}
    BY <1>4 DEF Messages, Requests
  <2>2. Handle(m) \in {<<a, b>> \o <<e>>, <<a, c>> \o <<e>>, <<a, d>> \o <<e>>}
    BY <2>1 DEF Handle
  <2> HIDE DEF a, b, c, d, e
  <2>3. \A g \in Quiet : <<a, g>> \o <<e>> \in Seq(Quiet)
    BY <1>2
  <2> QED
    BY <1>2, <2>2, <2>3
<1> QED
  BY <1>3, <1>4

\* The callbacks of the workers ask for no resource when g_audio_auto_next is clear.
LEMMA WorkerQuiet ==
  ASSUME TypeInv, TodoInv, NEW p \in Players, WorkerStep(p) \/ WorkerEnd(p), ~g_audio_auto_next
  PROVE  todo'[p] \in Seq(Quiet)
<1> USE PlayersDistinct
<1>1. todo[p] = <<>> /\ <<>> \in Seq(Quiet)
  BY WorkerTodo
<1>2. Do("break", Other(p)) \in Quiet /\ Do("resume", Other(p)) \in Quiet
        /\ Do("player_start", "PROMPT") \in Quiet
  <2>1. Do("break", Other(p)) \in AllCalls /\ Do("resume", Other(p)) \in AllCalls
        /\ Do("player_start", "PROMPT") \in AllCalls
    BY DEF AllCalls, MgrCalls, UserCalls, ApiCalls, Calls, Do, Flags
  <2> QED
    BY <2>1 DEF Quiet, StartsResource, Do, PlayerOf
<1> DEFINE b == Do("break", Other(p))  r == Do("resume", Other(p))
             e == Do("player_start", "PROMPT")
<1> HIDE DEF b, r, e
<1>3. <<b>> \in Seq(Quiet) /\ <<r>> \in Seq(Quiet) /\ <<e>> \in Seq(Quiet)
  <2>1. b \in Quiet /\ r \in Quiet /\ e \in Quiet
    BY <1>2 DEF b, r, e
  <2> QED
    BY <2>1
<1>4. CASE WorkerScan(p) \/ WorkerAfterStop(p)
  <2>1. todo'[p] \in {<<>>, <<b>>, <<r>>}
    BY <1>4 DEF WorkerScan, WorkerAfterStop, TodoInv, b, r
  <2> QED
    BY <1>1, <1>3, <2>1
<1>5. CASE WorkerCallback(p)
  <2>1. todo'[p] \in {<<>>, <<e>>}
    BY <1>5 DEF WorkerCallback, Callback, Reported, PlayerStart, TodoInv, e
  <2> QED
    BY <1>1, <1>3, <2>1
<1> QED
  BY <1>1, <1>4, <1>5 DEF WorkerStep, WorkerStart, WorkerNoFile, WorkerOpen, WorkerEnd, WorkerStop,
     WorkerHalt, WorkerResume, WorkerIdle

\* Every step keeps QuietInv.
LEMMA QuietStep ==
  ASSUME TypeInv, TodoInv, LockInv, OrderInv, QuietInv, [Next]_vars
  PROVE  QuietInv'
<1> USE PlayersDistinct
<1>1. CASE UNCHANGED vars
  BY <1>1 DEF vars, mgrVars, queueVars, countVars, QuietInv
<1>2. CASE Take
  <2>1. g_audio_auto_next' = g_audio_auto_next
        /\ stopping' = IF stopping = "cleared" /\ box.event = "STOP" THEN "taken" ELSE stopping
    BY <1>2 DEF Take, mgrVars
  <2>2. ASSUME stopping' = "taken" PROVE todo'["mgr"] \in Seq(Quiet)
    <3>1. box # NONE /\ box \in Messages /\ todo'["mgr"] = Handle(box)
      BY <1>2, TakeTodo DEF Take, Queue!Take
    <3>2. ~(box.event = "START" /\ PlayerOf(box.info.flag) = "resource")
      BY <2>1, <2>2, <3>1 DEF QuietInv
    <3> QED
      BY <3>1, <3>2, HandleQuiet
  <2>3. box' = NONE /\ \A u \in Threads \ {"mgr"} : todo'[u] = todo[u]
    BY <1>2, TakeTodo
  <2>4. stopping' # "no" => stopping # "no"
    BY <2>1
  <2> QED
    BY <2>1, <2>2, <2>3, <2>4 DEF QuietInv
<1>3. ASSUME NEW t \in Users, Begin(t) PROVE QuietInv'
  <2>1. g_audio_auto_next' = g_audio_auto_next /\ todo[t] = <<>>
        /\ \E f \in Api : /\ todo' = [todo EXCEPT ![t] = f]
                            /\ stopping' = IF f \in Starts THEN "no" ELSE stopping
    BY <1>3 DEF Begin, mgrVars
  <2>2. PICK f \in Api : /\ todo' = [todo EXCEPT ![t] = f]
                          /\ stopping' = IF f \in Starts THEN "no" ELSE stopping
    BY <2>1
  <2>3. todo'[t] = f /\ \A u \in Threads \ {t} : todo'[u] = todo[u]
    BY <2>2 DEF TodoInv
  <2>4. CASE f \in Starts
    BY <2>2, <2>4 DEF QuietInv
  <2>5. CASE f \notin Starts
    <3>1. f \in Seq(Quiet) /\ stopping' = stopping
      BY <2>2, <2>5, ApiOrder
    <3>2. box' = box
      BY <1>3, BeginTodo
    <3> QED
      BY <2>1, <2>3, <3>1, <3>2 DEF QuietInv
  <2> QED
    BY <2>4, <2>5
<1>4. ASSUME NEW p \in Players, WorkerStep(p) \/ WorkerEnd(p) PROVE QuietInv'
  <2>1. g_audio_auto_next' = g_audio_auto_next /\ stopping' = stopping /\ box' = box
    BY <1>4
       DEF WorkerStep, WorkerStart, WorkerScan, WorkerNoFile, WorkerOpen, WorkerEnd, WorkerStop,
           WorkerHalt, WorkerResume, WorkerAfterStop, WorkerCallback, WorkerIdle, workRest,
           mgrVars, queueVars, countVars
  <2>2. ASSUME stopping # "no" PROVE todo'[p] \in Seq(Quiet)
    BY <1>4, <2>2, WorkerQuiet DEF QuietInv
  <2>3. \A u \in Threads \ {p} : todo'[u] = todo[u]
    BY <1>4, WorkerTodo
  <2> QED
    BY <2>1, <2>2, <2>3 DEF QuietInv
<1>5. ASSUME NEW t \in Threads, CallStep(t) PROVE QuietInv'
  <2>1. todo[t] # <<>> /\ todo[t] \in Seq(AllCalls) /\ Call(t) \in CallsAt(t)
    BY <1>5, CallNotEmpty, HeadSound DEF TodoInv
  <2>2. \A u \in Threads \ {t} : todo'[u] = todo[u]
    BY <1>5, CallTodo
  <2>3. ASSUME todo[t] \in Seq(Quiet) PROVE Call(t) \in Quiet /\ todo'[t] \in Seq(Quiet)
    BY <1>5, <2>3, QuietKept
  <2>4. CASE SetAudioNext(t)
    <3>1. /\ Call(t).op = "set_audio_next" /\ g_audio_auto_next' = Call(t).arg /\ box' = box
          /\ stopping' = IF ~Call(t).arg /\ \A s \in Threads \ {t, "mgr"} : ~Starting(s)
                         THEN "cleared" ELSE stopping
          /\ todo'[t] = <<>> \o Tail(todo[t])
      BY <2>4 DEF SetAudioNext, At, queueVars, Done, Becomes, TodoInv
    <3>2. t # "mgr"
      BY <2>1, <3>1 DEF CallsAt, MgrCalls, SessionCalls, StartCalls, Calls
    <3>3. CASE ~Call(t).arg /\ \A s \in Threads \ {t, "mgr"} : ~Starting(s)
      <4>1. \A u \in Threads \ {t, "mgr"} : todo'[u] \in Seq(Quiet)
        BY <2>2, <3>3, StillQuiet
      <4>2. todo'[t] \in Seq(Quiet)
        <5>1. todo[t] \notin Seq(Unset) /\ Head(todo[t]) # Do("set_audio_next", TRUE)
          BY <2>1, <3>1, <3>3 DEF Unset, Do, Call
        <5>2. Tail(todo[t]) \in Seq(Unset \cap Quiet)
          BY <5>1 DEF OrderInv, SetOrder
        <5>3. Tail(todo[t]) \in Seq(Quiet)
          BY <5>2
        <5> QED
          BY <3>1, <5>3, ConcatEmptySeq
      <4> QED
        BY <3>1, <3>3, <4>1, <4>2 DEF QuietInv
    <3>4. CASE ~(~Call(t).arg /\ \A s \in Threads \ {t, "mgr"} : ~Starting(s))
      <4>1. stopping' = stopping
        BY <3>1, <3>4
      <4>2. CASE Call(t).arg
        <5>1. Call(t) \notin Quiet
          BY <3>1, <4>2 DEF Quiet
        <5> QED
          BY <2>3, <3>2, <4>1, <5>1 DEF QuietInv
      <4>3. CASE ~Call(t).arg
        BY <2>2, <2>3, <3>1, <3>2, <4>1, <4>3 DEF QuietInv
      <4> QED
        BY <4>2, <4>3
    <3> QED
      BY <3>3, <3>4
  <2>5. CASE NewPlayer(t)
    <3>1. Call(t).op = "player_start" /\ box' = box /\ stopping' = stopping
          /\ g_audio_auto_next' = (g_audio_auto_next \/ PlayerOf(Call(t).arg) = "resource")
      BY <2>5 DEF NewPlayer, At, queueVars, countVars
    <3>2. t # "mgr"
      BY <2>1, <3>1 DEF CallsAt, MgrCalls, SessionCalls, StartCalls, Calls
    <3>3. Call(t) \in Quiet => PlayerOf(Call(t).arg) # "resource"
      BY <3>1 DEF Quiet, StartsResource
    <3> QED
      BY <2>2, <2>3, <3>1, <3>2, <3>3 DEF QuietInv
  <2>6. CASE Send(t)
    <3>1. Call(t).op = "send" /\ box' = Call(t).arg /\ stopping' = stopping
          /\ g_audio_auto_next' = g_audio_auto_next
      BY <2>6 DEF Send, At, mgrVars, countVars, Queue!Put
    <3>2. Call(t) \in Quiet => ~(box'.event = "START" /\ PlayerOf(box'.info.flag) = "resource")
      BY <3>1 DEF Quiet, StartsResource
    <3> QED
      BY <2>2, <2>3, <3>1, <3>2 DEF QuietInv
  <2>7. CASE ~SetAudioNext(t) /\ ~NewPlayer(t) /\ ~Send(t)
    <3>1. box' = box /\ stopping' = stopping /\ g_audio_auto_next' = g_audio_auto_next
      BY <1>5, <2>7 DEF CallStep, SetAutoResume, NewPlayerWaitFinish,
         PromptWait, StartNextLocal, StartNextWeb, LocalMax, LocalUpdate, LocalPath, CommonLock,
         CommonUnlock, FreeMessage, Finish, Check, Post, Refused, Answer, Timeout, Return,
         mgrVars, queueVars, countVars
    <3> QED
      BY <2>2, <2>3, <3>1 DEF QuietInv
  <2> QED
    BY <2>4, <2>5, <2>6, <2>7
<1> QED
  BY <1>1, <1>2, <1>3, <1>4, <1>5 DEF Next, AtRest

-----------------------------------------------------------------------------
(* The resource player is held *)

\* What has been given up or overrun remains so.
LEMMA IntactBefore ==
  ASSUME TypeInv, [Next]_vars, Intact'
  PROVE  Intact
<1>1. timeouts' \in {timeouts, timeouts + 1} /\ overrun \subseteq overrun'
  <2>1. ASSUME NEW t \in Threads, CallStep(t)
        PROVE  timeouts' \in {timeouts, timeouts + 1} /\ overrun \subseteq overrun'
    BY <2>1
       DEF CallStep, SetAudioNext, SetAutoResume, NewPlayer, NewPlayerWaitFinish, PromptWait,
           Send, StartNextLocal, StartNextWeb, LocalMax, LocalUpdate, LocalPath, CommonLock,
           CommonUnlock, FreeMessage, Finish, Check, Post, Refused, Answer, Timeout, Return,
           infoVars, countVars
  <2>2. ASSUME NEW p \in Players, WorkerStep(p) \/ WorkerEnd(p)
        PROVE  timeouts' = timeouts /\ overrun' = overrun
    BY <2>2
       DEF WorkerStep, WorkerStart, WorkerScan, WorkerNoFile, WorkerOpen, WorkerEnd, WorkerStop,
           WorkerHalt, WorkerResume, WorkerAfterStop, WorkerCallback, WorkerIdle, workRest,
           infoVars, countVars
  <2> QED
    BY <2>1, <2>2 DEF Next, AtRest, Take, Begin, vars, infoVars, countVars
<1> QED
  BY <1>1, BoundsAssumption DEF Intact, TypeInv, CountTypes

\* A session is started by the thread that holds g_common_mutex.
LEMMA StartHolds ==
  ASSUME TodoInv, CommonInv, NEW t \in Threads, At(t, "start")
  PROVE  g_common_mutex = t
BY Places DEF CommonInv, TodoInv, At, Call

\* A thread comes to the start of a player by the end of the stop before it.
LEMMA Arrival ==
  ASSUME TypeInv, TodoInv, LockInv, CommonInv, NEW t \in Threads, CallStep(t), ~Check(t), ~Post(t),
         TodoInv', CommonInv', todo'[t] # <<>>, Head(todo'[t]).op = "start"
  PROVE  /\ Call(t).op = "stop" /\ Call(t).arg = Head(todo'[t]).arg
         /\ Refused(t) \/ Answer(t) \/ Timeout(t)
<1>1. todo[t] # <<>> /\ todo[t] \in Seq(AllCalls) /\ todo'[t] \in Seq(AllCalls)
        /\ Tail(todo[t]) \in Seq(AllCalls)
  BY CallNotEmpty DEF TodoInv
<1>2. g_common_mutex' = t
  BY <1>1, Places DEF CommonInv
<1>3. ASSUME Done(t) PROVE todo'[t] = Tail(todo[t])
  <2>1. todo'[t] = <<>> \o Tail(todo[t])
    BY <1>3 DEF Done, Becomes, TodoInv
  <2> QED
    BY <1>1, <2>1, ConcatEmptySeq
<1>4. ~CommonLock(t)
  <2> SUFFICES ASSUME CommonLock(t) PROVE FALSE
    OBVIOUS
  <2>1. Call(t).op = "common_lock" /\ todo'[t] = Tail(todo[t]) /\ g_common_mutex = NONE
    BY <1>3 DEF CommonLock, At
  <2>2. Outside(todo[t]) /\ Head(todo[t]).op = "common_lock"
    BY <2>1, PlayersDistinct DEF CommonInv, Call
  <2>3. Locked(todo[t])
    BY <1>1, <2>2 DEF Outside, Queued, Plain
  <2> QED
    BY <2>1, <2>3 DEF Locked, Ends, Stop, Do
<1>5. ~CommonUnlock(t)
  BY <1>2, PlayersDistinct DEF CommonUnlock
<1>6. g_common_mutex = t
  BY <1>2, <1>4, <1>5
     DEF CallStep, SetAudioNext, SetAutoResume, NewPlayer, NewPlayerWaitFinish, PromptWait, Send,
         StartNextLocal, StartNextWeb, LocalMax, LocalUpdate, LocalPath, FreeMessage, Finish,
         Check, Post, Refused, Answer, Timeout, Return, lockVars
<1>7. Inside(todo[t])
  BY <1>6 DEF CommonInv
<1>8. Call(t).op \in {"start", "stop"}
  <2>1. Call(t).op \in {"common_unlock", "start", "stop"}
    BY <1>1, <1>7, Places DEF Call
  <2>2. Call(t).op # "common_unlock"
    BY <1>5 DEF CallStep, SetAudioNext, SetAutoResume, NewPlayer, NewPlayerWaitFinish,
       PromptWait, Send, StartNextLocal, StartNextWeb, LocalMax, LocalUpdate, LocalPath, CommonLock,
       FreeMessage, Finish, Check, Post, Refused, Answer, Timeout, At, Locks, Ops, LockInv
  <2> QED
    BY <2>1, <2>2
<1>9. (Refused(t) \/ Answer(t) \/ Timeout(t)) /\ Done(t)
  <2>1. Refused(t) \/ Answer(t) \/ Timeout(t)
    BY <1>1, <1>8, PlayerOps DEF Ops
  <2> QED
    BY <2>1 DEF Refused, Answer, Timeout, Return
<1>10. todo'[t] = Tail(todo[t])
  BY <1>3, <1>9
<1>11. ~Unlocks(todo[t]) /\ ~Begins(todo[t])
  BY <1>8, <1>10 DEF Unlocks, Begins, Do, Call
<1>12. Ends(todo[t])
  BY <1>7, <1>11 DEF Inside
<1> QED
  BY <1>9, <1>10, <1>12 DEF Ends, Stop, Do, Call

\* The stop of the resource player returns with the player held: a wait of 30 s that
\* gives up has found its worker at rest, or in its callback.
LEMMA StopDone ==
  ASSUME TypeInv, TodoInv, LockInv, CommonInv, WorkerInv, HeldInv, [Next]_vars, Intact',
         NEW t \in Threads, CallStep(t), OnResource(t, "stop"),
         Refused(t) \/ Answer(t) \/ Timeout(t)
  PROVE  Held'
<1> USE PlayersDistinct
<1>1. Intact
  BY IntactBefore
<1>2. cur_state' = cur_state /\ Call(t).op = "stop" /\ Call(t).arg = "resource"
  BY CallWorker DEF OnResource, At
<1>3. event'["resource"] = {}
  BY <1>2 DEF Refused, Answer, Timeout, Return, TypeInv, PlayerTypes
<1>4. CASE Refused(t)
  BY <1>2, <1>3, <1>4 DEF Refused, Wanted, Held, TypeInv, PlayerTypes
<1>5. CASE Answer(t)
  BY <1>2, <1>3, <1>5 DEF Answer, Answered, Acks, Held, WorkerInv
<1>6. CASE Timeout(t)
  <2>1. t \in waiting /\ Starved(t)
    BY <1>6, <1>1 DEF Timeout, Intact
  <2>2. CASE "STOP" \notin event["resource"]
    BY <1>1, <1>2, <1>3, <2>1, <2>2 DEF HeldInv, OnResource, Held
  <2>3. CASE WorkerRests("resource") /\ "STOP" \in event["resource"]
    BY <1>2, <1>3, <2>3 DEF WorkerRests, Held, Commands
  <2>4. CASE \E S \in SUBSET Threads : t \in S /\ Circle(S)
    <3>1. PICK S \in SUBSET Threads : Circle(S)
      BY <2>4
    <3>2. At("resource", "prompt_wait")
      BY <1>1, <3>1, NoCircle DEF OnlyReportsDeadlock, Intact
    <3>3. phase["resource"] = "leave"
      <4>1. Call("resource") \in CallsAt("resource") /\ Call("resource").op = "prompt_wait"
        BY <3>2, HeadSound DEF At
      <4> QED
        BY <4>1 DEF CallsAt, Calls
    <3> QED
      BY <1>2, <1>3, <3>3 DEF WorkerInv, Held
  <2> QED
    BY <1>2, <2>1, <2>2, <2>3, <2>4 DEF Starved
<1> QED
  BY <1>4, <1>5, <1>6

\* What the worker of the resource player does to it.
LEMMA WorkerHeld ==
  ASSUME TypeInv, WorkerInv, NEW p \in Players, WorkerStep(p) \/ WorkerEnd(p),
         "START" \in event["resource"] => cur_state["resource"] \in {"IDLE", "STOP"}
  PROVE  /\ Held => Held'
         /\ "START" \in event'["resource"] => cur_state'["resource"] \in {"IDLE", "STOP"}
         /\ "STOP" \in event["resource"] => "STOP" \in event'["resource"] \/ Held'
<1> USE PlayersDistinct
<1> USE DEF Worker, Enter, WorkerInv, TypeInv, PlayerTypes, Held, Commands
<1>1. CASE p = "prompt"
  <2>1. cur_state'["resource"] = cur_state["resource"] /\ event'["resource"] = event["resource"]
    BY <1>1
       DEF WorkerStep, WorkerStart, WorkerScan, WorkerNoFile, WorkerOpen, WorkerEnd, WorkerStop,
           WorkerHalt, WorkerResume, WorkerAfterStop, WorkerCallback, WorkerIdle
  <2> QED
    BY <2>1
<1>2. CASE p = "resource"
  <2>1. CASE WorkerStart(p)
    BY <1>2, <2>1 DEF WorkerStart
  <2>2. CASE WorkerScan(p) \/ WorkerAfterStop(p) \/ WorkerCallback(p)
    BY <1>2, <2>2 DEF WorkerScan, WorkerAfterStop, WorkerCallback
  <2>3. CASE WorkerNoFile(p) \/ WorkerOpen(p)
    BY <1>2, <2>3 DEF WorkerNoFile, WorkerOpen
  <2>4. CASE WorkerEnd(p)
    BY <1>2, <2>4 DEF WorkerEnd
  <2>5. CASE WorkerStop(p)
    <3>1. cur_state'["resource"] = "STOP" /\ event'["resource"] \subseteq event["resource"]
          /\ cur_state["resource"] \in {"PLAY", "PAUSE", "BREAK"}
      BY <1>2, <2>5 DEF WorkerStop
    <3> QED
      BY <3>1
  <2>6. CASE WorkerHalt(p)
    <3>1. PICK c \in {"PAUSE", "BREAK"} :
            /\ event' = [event EXCEPT ![p] = (@ \ Commands)
                           \cup {IF c = "PAUSE" THEN "PAUSE_DONE" ELSE "BREAK_DONE"}]
            /\ cur_state["resource"] = "PLAY" /\ "STOP" \notin event["resource"]
      BY <1>2, <2>6 DEF WorkerHalt
    <3>2. event'["resource"] = (event["resource"] \ Commands)
            \cup {IF c = "PAUSE" THEN "PAUSE_DONE" ELSE "BREAK_DONE"}
      BY <1>2, <3>1
    <3>3. "START" \notin event'["resource"]
      BY <3>1, <3>2
    <3> QED
      BY <3>1, <3>3
  <2>7. CASE WorkerResume(p)
    <3>1. event'["resource"] \subseteq event["resource"] /\ "STOP" \notin event["resource"]
          /\ cur_state["resource"] \in {"PLAY", "PAUSE", "BREAK"}
      BY <1>2, <2>7 DEF WorkerResume
    <3> QED
      BY <3>1
  <2>8. CASE WorkerIdle(p)
    BY <1>2, <2>8 DEF WorkerIdle
  <2> QED
    BY <2>1, <2>2, <2>3, <2>4, <2>5, <2>6, <2>7, <2>8 DEF WorkerStep
<1> QED
  BY <1>1, <1>2

\* What a call does to the events of the resource player.
LEMMA CallHeld ==
  ASSUME TypeInv, TodoInv, LockInv, NEW t \in Threads, CallStep(t)
  PROVE  /\ cur_state' = cur_state
         /\ \/ event'["resource"] \subseteq event["resource"]
            \/ /\ Post(t) /\ t \notin waiting /\ Call(t).arg = "resource" /\ todo[t] # <<>>
               /\ Call(t).op \in Ops
               /\ event'["resource"] = event["resource"] \cup {CommandOf(Call(t).op)}
         /\ \A u \in Threads \ {t} : mutex["resource"] = u => event'["resource"] = event["resource"]
<1> USE PlayersDistinct
<1>1. cur_state' = cur_state
  BY CallWorker
<1>2. CASE Post(t)
  <2>1. /\ event' = [event EXCEPT ![Call(t).arg] = @ \cup {CommandOf(Call(t).op)}]
        /\ t \notin waiting /\ Call(t).op \in Ops /\ todo[t] # <<>> /\ mutex[Call(t).arg] = t
    BY <1>2 DEF Post
  <2> QED
    BY <1>1, <1>2, <2>1 DEF TypeInv, PlayerTypes
<1>3. CASE Refused(t)
  BY <1>1, <1>3 DEF Refused, Locks, TypeInv, PlayerTypes
<1>4. CASE Answer(t) \/ Timeout(t)
  <2>1. Return(t) /\ mutex[Call(t).arg] = t
    BY <1>4 DEF Answer, Timeout, LockInv
  <2> QED
    BY <1>1, <2>1 DEF Return, TypeInv, PlayerTypes
<1>5. CASE ~Post(t) /\ ~Refused(t) /\ ~Answer(t) /\ ~Timeout(t)
  BY <1>1, <1>5 DEF CallStep, SetAudioNext, SetAutoResume, NewPlayer, NewPlayerWaitFinish,
     PromptWait, Send, StartNextLocal, StartNextWeb, LocalMax, LocalUpdate, LocalPath, CommonLock,
     CommonUnlock, FreeMessage, Finish, Check, playerVars
<1> QED
  BY <1>2, <1>3, <1>4, <1>5

\* The waiting threads, after a call.
LEMMA CallWaits ==
  ASSUME TypeInv, TodoInv, LockInv, NEW t \in Threads, CallStep(t)
  PROVE  /\ waiting \ {t} \subseteq waiting' /\ waiting' \subseteq waiting \cup {t}
         /\ t \in waiting' => Post(t) /\ t \notin waiting /\ todo' = todo /\ Call(t).op # "resume"
         /\ Check(t) => todo' = todo /\ event' = event /\ t \notin waiting /\ waiting' = waiting
         /\ Post(t) /\ Call(t).op # "resume" => t \in waiting'
<1> USE PlayersDistinct
<1>1. todo[t] # <<>>
  BY CallNotEmpty
<1>2. CASE Call(t).op \notin Ops
  <2>1. waiting' = waiting /\ t \notin waiting
    BY <1>1, <1>2, OtherOps DEF LockInv
  <2>2. ~Check(t) /\ ~Post(t)
    BY <1>2 DEF Check, Locks, Post
  <2> QED
    BY <2>1, <2>2
<1>3. CASE Check(t)
  <2>1. t \notin waiting
    BY <1>3 DEF Check, Locks, LockInv
  <2>2. todo' = todo /\ event' = event /\ waiting' = waiting /\ mutex[Call(t).arg] = NONE
    BY <1>3 DEF Check, Locks
  <2>3. ~Post(t)
    BY <2>2 DEF Post
  <2> QED
    BY <2>1, <2>2, <2>3
<1>4. CASE Post(t)
  <2>1. t \notin waiting /\ mutex[Call(t).arg] = t
        /\ waiting' = (IF Call(t).op = "resume" THEN waiting ELSE waiting \cup {t})
        /\ (Call(t).op # "resume" => todo' = todo)
    BY <1>4 DEF Post
  <2>2. ~Check(t)
    BY <2>1 DEF Check, Locks
  <2> QED
    BY <1>4, <2>1, <2>2
<1>5. CASE Refused(t)
  <2>1. waiting' = waiting /\ mutex[Call(t).arg] = NONE /\ t \notin waiting
    BY <1>5 DEF Refused, Locks, lockVars, LockInv
  <2> QED
    BY <1>3, <2>1 DEF Post
<1>6. CASE Answer(t) \/ Timeout(t)
  <2>1. waiting' = waiting \ {t} /\ t \in waiting
    BY <1>6 DEF Answer, Timeout, Return
  <2> QED
    BY <1>3, <2>1 DEF Post
<1> QED
  BY <1>1, <1>2, <1>3, <1>4, <1>5, <1>6, PlayerOps

\* A step of a call keeps HeldInv.
LEMMA HeldCall ==
  ASSUME TypeInv, TodoInv, LockInv, CommonInv, WorkerInv, QuietInv, HeldInv, [Next]_vars,
         NEW t \in Threads, CallStep(t), Intact', TodoInv', CommonInv'
  PROVE  HeldInv'
<1> USE PlayersDistinct
<1>1. Intact
  BY IntactBefore
<1>2. /\ "START" \in event["resource"] => cur_state["resource"] \in {"IDLE", "STOP"}
      /\ \A u \in Threads \ waiting : OnResource(u, "start") => Held
      /\ \A u \in waiting : OnResource(u, "stop") => "STOP" \in event["resource"] \/ Held
      /\ stopping = "taken" /\ todo["mgr"] \in Seq(NotStop) => Held
  BY <1>1 DEF HeldInv
<1>3. /\ todo[t] # <<>> /\ Call(t) \in AllCalls
      /\ \A u \in Threads \ {t} : todo'[u] = todo[u] /\ Call(u)' = Call(u)
  <2>1. \A u \in Threads \ {t} : todo'[u] = todo[u]
    BY CallTodo
  <2> QED
    BY <2>1, CallNotEmpty, HeadSound DEF Call
<1>4. cur_state' = cur_state
  BY CallHeld
<1>5. ASSUME ~(Post(t) /\ OnResource(t, "start")) PROVE Held => Held'
  <2>1. CASE event'["resource"] \subseteq event["resource"]
    BY <1>4, <2>1 DEF Held
  <2>2. CASE /\ Post(t) /\ t \notin waiting /\ Call(t).arg = "resource" /\ todo[t] # <<>>
             /\ Call(t).op \in Ops
             /\ event'["resource"] = event["resource"] \cup {CommandOf(Call(t).op)}
    <3>1. CommandOf(Call(t).op) # "START"
      BY <1>5, <2>2 DEF OnResource, At, CommandOf, Ops
    <3> QED
      BY <1>4, <2>2, <3>1 DEF Held
  <2> QED
    BY <2>1, <2>2, CallHeld
<1>6. "START" \in event'["resource"] => cur_state'["resource"] \in {"IDLE", "STOP"}
  <2>1. CASE event'["resource"] \subseteq event["resource"]
    BY <1>2, <1>4, <2>1
  <2>2. CASE /\ Post(t) /\ t \notin waiting /\ Call(t).arg = "resource" /\ todo[t] # <<>>
             /\ Call(t).op \in Ops
             /\ event'["resource"] = event["resource"] \cup {CommandOf(Call(t).op)}
    <3>1. CASE Call(t).op = "start"
      BY <1>2, <1>4, <2>2, <3>1 DEF OnResource, At, Held
    <3>2. CASE Call(t).op # "start"
      <4>1. CommandOf(Call(t).op) # "START"
        BY <2>2, <3>2 DEF CommandOf, Ops
      <4> QED
        BY <1>2, <1>4, <2>2, <4>1
    <3> QED
      BY <3>1, <3>2
  <2> QED
    BY <2>1, <2>2, CallHeld
<1>7. ASSUME NEW u \in Threads, u \notin waiting', todo'[u] # <<>>, Head(todo'[u]).op = "start",
             Head(todo'[u]).arg = "resource"
      PROVE  Held'
  <2>1. CASE u = t
    <3>1. CASE Check(t)
      <4>1. todo' = todo /\ event' = event /\ t \notin waiting
        BY <3>1, CallWaits
      <4>2. Held
        BY <1>2, <1>7, <2>1, <4>1 DEF OnResource, At, Call
      <4> QED
        BY <1>4, <4>1, <4>2 DEF Held
    <3>2. CASE Post(t)
      <4>1. Call(t).op = "resume" /\ todo'[t] = <<>> \o Tail(todo[t])
        BY <1>7, <2>1, <3>2, CallWaits DEF Post, Done, Becomes, TodoInv
      <4>2. Call(t).op # "resume"
        <5>1. ~Inside(todo[t])
          BY <1>3, <4>1, Places DEF TodoInv, Call
        <5>2. g_common_mutex # t
          BY <5>1 DEF CommonInv
        <5>3. g_common_mutex' # t
          BY <3>2, <5>2 DEF Post
        <5> QED
          BY <1>7, <2>1, <5>3, Places DEF CommonInv, TodoInv
      <4> QED
        BY <4>1, <4>2
    <3>3. CASE ~Check(t) /\ ~Post(t)
      <4>1. /\ Call(t).op = "stop" /\ Call(t).arg = "resource"
            /\ Refused(t) \/ Answer(t) \/ Timeout(t)
        BY <1>7, <2>1, <3>3, Arrival
      <4> QED
        BY <1>3, <4>1, StopDone DEF OnResource, At
    <3> QED
      BY <3>1, <3>2, <3>3
  <2>2. CASE u # t
    <3>1. OnResource(u, "start") /\ u \notin waiting
      BY <1>3, <1>7, <2>2, CallWaits DEF OnResource, At, Call
    <3>2. ~OnResource(t, "start")
      BY <2>2, <3>1, StartHolds DEF OnResource
    <3> QED
      BY <1>2, <1>5, <3>1, <3>2
  <2> QED
    BY <2>1, <2>2
<1>8. ASSUME NEW u \in waiting', todo'[u] # <<>>, Head(todo'[u]).op = "stop",
             Head(todo'[u]).arg = "resource"
      PROVE  "STOP" \in event'["resource"] \/ Held'
  <2>1. CASE u = t
    <3>1. Post(t) /\ todo' = todo
      BY <1>8, <2>1, CallWaits
    <3>2. event' = [event EXCEPT !["resource"] = @ \cup {"STOP"}]
      BY <1>8, <2>1, <3>1 DEF Post, CommandOf, Call
    <3> QED
      BY <3>2 DEF TypeInv, PlayerTypes
  <2>2. CASE u # t
    <3>1. u \in waiting /\ u \in Threads /\ OnResource(u, "stop")
      BY <1>3, <1>8, <2>2, CallWaits DEF OnResource, At, Call, TypeInv, LockTypes
    <3>2. mutex["resource"] = u
      BY <3>1 DEF LockInv, OnResource
    <3>3. event'["resource"] = event["resource"]
      BY <2>2, <3>1, <3>2, CallHeld
    <3> QED
      BY <1>2, <1>4, <3>1, <3>3 DEF Held
  <2> QED
    BY <2>1, <2>2
<1>9. ASSUME stopping' = "taken", todo'["mgr"] \in Seq(NotStop) PROVE Held'
  <2>1. stopping = "taken"
    BY <1>9 DEF CallStep, SetAudioNext, SetAutoResume, NewPlayer, NewPlayerWaitFinish,
     PromptWait, Send, StartNextLocal, StartNextWeb, LocalMax, LocalUpdate, LocalPath, CommonLock,
     CommonUnlock, FreeMessage, Finish, Check, Post, Refused, Answer, Timeout, Return, countVars
  <2>2. ~OnResource(t, "start")
    <3>1. todo[t] \in Seq(Quiet)
      BY <2>1 DEF QuietInv
    <3>2. Call(t) \in Quiet
      BY <1>3, <3>1 DEF Call
    <3> QED
      BY <3>2 DEF OnResource, At, Quiet, StartsResource
  <2>3. CASE todo["mgr"] \in Seq(NotStop)
    BY <1>2, <1>5, <2>1, <2>2, <2>3
  <2>4. CASE todo["mgr"] \notin Seq(NotStop)
    <3>1. t = "mgr"
      BY <1>3, <1>9, <2>4
    <3>2. todo'[t] # todo[t]
      BY <1>9, <2>4, <3>1
    <3>3. Call(t).op \notin {"player_start", "player_start_wait_finish", "start_next", "local_path"}
      <4>1. Call(t) \in MgrCalls
        BY <1>3, <3>1, HeadSound DEF CallsAt
      <4> QED
        BY <4>1 DEF MgrCalls, SessionCalls, StartCalls, Calls
    <3>4. Done(t)
      BY <3>2, <3>3
         DEF CallStep, SetAudioNext, SetAutoResume, NewPlayer, NewPlayerWaitFinish, PromptWait,
             Send, StartNextLocal, StartNextWeb, LocalMax, LocalUpdate, LocalPath, CommonLock,
             CommonUnlock, FreeMessage, Finish, Check, Post, Refused, Answer, Timeout, Return, At
    <3>5. todo'[t] = Tail(todo[t])
      <4>1. todo'[t] = <<>> \o Tail(todo[t]) /\ Tail(todo[t]) \in Seq(AllCalls)
        BY <1>3, <3>4 DEF Done, Becomes, TodoInv
      <4> QED
        BY <4>1, ConcatEmptySeq
    <3>6. Call(t) \notin NotStop
      <4>1. todo[t] \in Seq(AllCalls) /\ todo[t] # <<>> /\ Tail(todo[t]) \in Seq(NotStop)
        BY <1>3, <1>9, <3>1, <3>5 DEF TodoInv
      <4>2. Head(todo[t]) \in NotStop => todo[t] \in Seq(NotStop)
        BY <4>1
      <4> QED
        BY <2>4, <3>1, <4>2 DEF Call
    <3>7. OnResource(t, "stop")
      BY <1>3, <3>6 DEF NotStop, OnResource, At
    <3>8. Refused(t) \/ Answer(t) \/ Timeout(t)
      <4>1. Call(t).op = "stop"
        BY <3>7 DEF OnResource, At
      <4>2. ~Check(t) /\ ~Post(t)
        BY <3>2, <4>1, CallWaits
      <4> QED
        BY <1>3, <4>1, <4>2, PlayerOps DEF Ops
    <3> QED
      BY <3>7, <3>8, StopDone
  <2> QED
    BY <2>3, <2>4
<1> QED
  BY <1>6, <1>7, <1>8, <1>9 DEF HeldInv, OnResource, At, Call

\* A thread with nothing to do begins with no start of a player.
LEMMA HeldOther ==
  ASSUME TypeInv, TodoInv, LockInv, CommonInv, HeldInv, NEW x \in Threads, todo[x] = <<>>,
         \A u \in Threads \ {x} : todo'[u] = todo[u], waiting' = waiting,
         g_common_mutex' = g_common_mutex, TodoInv', CommonInv', Intact,
         Held => Held',
         "START" \in event'["resource"] => cur_state'["resource"] \in {"IDLE", "STOP"},
         "STOP" \in event["resource"] => "STOP" \in event'["resource"] \/ Held',
         stopping' = "taken" /\ todo'["mgr"] \in Seq(NotStop) => Held
  PROVE  HeldInv'
<1> USE PlayersDistinct
<1>1. x \notin waiting
  BY DEF LockInv
<1>2. g_common_mutex # x
  BY DEF CommonInv, Inside, Unlocks, Begins, Ends
<1>3. ASSUME NEW u \in Threads, u \notin waiting', todo'[u] # <<>>, Head(todo'[u]).op = "start",
             Head(todo'[u]).arg = "resource"
      PROVE  Held'
  <2>1. g_common_mutex' = u
    BY <1>3, Places DEF CommonInv, TodoInv
  <2>2. todo'[u] = todo[u] /\ u \notin waiting
    BY <1>2, <1>3, <2>1
  <2> QED
    BY <1>3, <2>2 DEF HeldInv, OnResource, At, Call
<1>4. ASSUME NEW u \in waiting', todo'[u] # <<>>, Head(todo'[u]).op = "stop",
             Head(todo'[u]).arg = "resource"
      PROVE  "STOP" \in event'["resource"] \/ Held'
  <2>1. todo'[u] = todo[u] /\ u \in waiting
    BY <1>1, <1>4 DEF TypeInv, LockTypes
  <2> QED
    BY <1>4, <2>1 DEF HeldInv, OnResource, At, Call
<1> QED
  BY <1>3, <1>4 DEF HeldInv, OnResource, At, Call

\* Every step keeps HeldInv.
LEMMA HeldStep ==
  ASSUME TypeInv, TodoInv, LockInv, CommonInv, WorkerInv, QuietInv, HeldInv, [Next]_vars,
         TodoInv', CommonInv'
  PROVE  HeldInv'
<1> USE PlayersDistinct
<1> SUFFICES ASSUME Intact' PROVE HeldInv'
  BY DEF HeldInv
<1>1. Intact
  BY IntactBefore
<1>2. CASE UNCHANGED vars
  BY <1>1, <1>2 DEF vars, playerVars, lockVars, countVars, HeldInv, Held, OnResource, At, Call
<1>3. CASE Take
  <2>1. /\ todo["mgr"] = <<>> /\ waiting' = waiting /\ g_common_mutex' = g_common_mutex
        /\ event' = event /\ cur_state' = cur_state
        /\ stopping' = IF stopping = "cleared" /\ box.event = "STOP" THEN "taken" ELSE stopping
    BY <1>3 DEF Take, lockVars, playerVars
  <2>2. ASSUME box.event = "STOP" PROVE todo'["mgr"] \notin Seq(NotStop)
    <3> DEFINE a == Stop("prompt")  b == Stop("resource")  c == Do("free", NONE)
    <3>1. {a, b, c} \subseteq AllCalls /\ b \notin NotStop
      BY DEF AllCalls, MgrCalls, SessionCalls, Calls, Stop, Do, NotStop
    <3>2. todo'["mgr"] = <<a, b>> \o <<c>>
      BY <1>3, <2>2, TakeTodo DEF Handle
    <3> DEFINE r == <<c>>
    <3> HIDE DEF a, b, c
    <3>3. r \in Seq(AllCalls)
      BY <3>1
    <3> HIDE DEF r
    <3>4. (<<a, b>> \o r)[2] = b /\ Len(<<a, b>> \o r) \in Nat /\ 2 \in 1..Len(<<a, b>> \o r)
      BY <3>1, <3>3
    <3> QED
      BY <3>1, <3>2, <3>4 DEF r
  <2>3. ASSUME stopping' = "taken", todo'["mgr"] \in Seq(NotStop) PROVE Held
    <3>1. stopping = "taken" /\ todo["mgr"] \in Seq(NotStop)
      BY <2>1, <2>2, <2>3
    <3> QED
      BY <1>1, <3>1 DEF HeldInv
  <2> QED
    BY <1>1, <1>3, <2>1, <2>3, TakeTodo, HeldOther DEF HeldInv, Held
<1>4. ASSUME NEW t \in Users, Begin(t) PROVE HeldInv'
  <2>1. /\ todo[t] = <<>> /\ waiting' = waiting /\ g_common_mutex' = g_common_mutex
        /\ event' = event /\ cur_state' = cur_state
        /\ stopping' = "taken" => stopping = "taken"
    BY <1>4 DEF Begin, lockVars, playerVars
  <2>2. todo'["mgr"] = todo["mgr"]
    BY <1>4, BeginTodo
  <2>3. stopping' = "taken" /\ todo'["mgr"] \in Seq(NotStop) => Held
    BY <1>1, <2>1, <2>2 DEF HeldInv
  <2> QED
    BY <1>1, <1>4, <2>1, <2>3, BeginTodo, HeldOther DEF HeldInv, Held
<1>5. ASSUME NEW p \in Players, WorkerStep(p) \/ WorkerEnd(p) PROVE HeldInv'
  <2>1. waiting' = waiting /\ g_common_mutex' = g_common_mutex /\ stopping' = stopping
    BY <1>5
       DEF WorkerStep, WorkerStart, WorkerScan, WorkerNoFile, WorkerOpen, WorkerEnd, WorkerStop,
           WorkerHalt, WorkerResume, WorkerAfterStop, WorkerCallback, WorkerIdle, workRest,
           lockVars, countVars
  <2>2. todo[p] = <<>> /\ \A u \in Threads \ {p} : todo'[u] = todo[u]
    BY <1>5, WorkerTodo
  <2>3. /\ Held => Held'
        /\ "START" \in event'["resource"] => cur_state'["resource"] \in {"IDLE", "STOP"}
        /\ "STOP" \in event["resource"] => "STOP" \in event'["resource"] \/ Held'
    BY <1>1, <1>5, WorkerHeld DEF HeldInv
  <2>4. todo'["mgr"] = todo["mgr"]
    BY <2>2
  <2>5. stopping' = "taken" /\ todo'["mgr"] \in Seq(NotStop) => Held
    BY <1>1, <2>1, <2>4 DEF HeldInv
  <2> QED
    BY <1>1, <2>1, <2>2, <2>3, <2>5, HeldOther
<1>6. ASSUME NEW t \in Threads, CallStep(t) PROVE HeldInv'
  BY <1>6, HeldCall
<1> QED
  BY <1>2, <1>3, <1>4, <1>5, <1>6 DEF Next, AtRest

-----------------------------------------------------------------------------
(* The theorems *)

IInv ==
  /\ TypeInv /\ TodoInv /\ LockInv /\ CommonInv /\ WorkerInv /\ IndexInv
  /\ OrderInv /\ QuietInv /\ HeldInv

\* The invariant holds when audio_mgr_init has returned.
LEMMA InitInv ==
  ASSUME Init
  PROVE  IInv
<1> USE PlayersDistinct, BoundsAssumption DEF Init
<1>1. box = NONE /\ \A t \in Threads : todo[t] = <<>>
  BY DEF Queue!Init
<1>2. TypeInv
  <2>1. MgrTypes
    <3>1. /\ g_audio_auto_next = FALSE /\ g_auto_resume_prev = TRUE
          /\ g_audio_local_index = 0 /\ g_audio_local_max = 0
      OBVIOUS
    <3> HIDE DEF Init
    <3>2. 0 \in Int
      OBVIOUS
    <3> QED
      BY <3>1, <3>2, Zenon DEF MgrTypes
  <2>2. InfoTypes
    BY DEF InfoTypes, Flags
  <2>3. PlayerTypes
    BY DEF PlayerTypes, States, Events
  <2>4. LockTypes
    BY DEF LockTypes
  <2>5. CountTypes
    BY DEF CountTypes
  <2> QED
    BY <2>1, <2>2, <2>3, <2>4, <2>5 DEF TypeInv
<1>3. TodoInv
  BY <1>1 DEF TodoInv
<1>4. LockInv
  BY <1>1 DEF LockInv
<1>5. CommonInv
  <2>1. \A t \in Threads : Outside(todo[t]) /\ g_common_mutex # t
    BY <1>1 DEF Outside
  <2> QED
    BY <2>1 DEF CommonInv
<1>6. WorkerInv
  BY <1>1 DEF WorkerInv, Calling
<1>7. IndexInv
  <2>1. Updaters = {}
    BY <1>1 DEF Updaters, At
  <2>2. Cardinality(Updaters) = 0
    BY <2>1, FS_EmptySet
  <2> QED
    BY <2>2 DEF IndexInv, Lo, Hi
<1>8. OrderInv
  BY <1>1 DEF OrderInv, SetOrder
<1>9. QuietInv
  BY DEF QuietInv
<1>10. HeldInv
  BY <1>1 DEF HeldInv, Held, OnResource, At
<1> QED
  BY <1>2, <1>3, <1>4, <1>5, <1>6, <1>7, <1>8, <1>9, <1>10 DEF IInv

\* Every step keeps the invariant, each part with the help of those before it.
LEMMA StepInv ==
  ASSUME IInv, [Next]_vars
  PROVE  IInv'
<1>1. TypeInv /\ TodoInv /\ LockInv /\ CommonInv /\ WorkerInv /\ IndexInv /\ OrderInv /\ QuietInv
        /\ HeldInv
  BY DEF IInv
<1>2. TypeInv' /\ TodoInv' /\ LockInv' /\ CommonInv'
  BY <1>1, TypeStep, TodoStep, LockStep, CommonStep
<1>3. WorkerInv' /\ IndexInv' /\ OrderInv' /\ QuietInv'
  BY <1>1, WorkerInvStep, IndexStep, OrderStep, QuietStep
<1>4. HeldInv'
  BY <1>1, <1>2, HeldStep
<1> QED
  BY <1>2, <1>3, <1>4 DEF IInv

\* The inductive invariant: what the threads of the manager may have to do, and how it
\* fits the locks and the states of the players, after any steps.
THEOREM ManagerInvariant == Spec => []IInv
<1>1. Init => IInv
  BY InitInv
<1>2. IInv /\ [Next]_vars => IInv'
  BY StepInv
<1> QED
  BY <1>1, <1>2, PTL DEF Spec

\* However many threads move g_audio_local_index at once (audio_manager.c 391 and 426),
\* it is out of the range of the card's files only while one of them has still to bring
\* it back (lines 28 and 29); and every variable keeps its type.
THEOREM IndexInRangeCorrect == Spec => []IndexInRange
<1>1. ASSUME IInv PROVE IndexInRange
  <2>1. TypeInv /\ TodoInv /\ IndexInv
    BY <1>1 DEF IInv
  <2>2. IsFiniteSet(Updaters) /\ Cardinality(Updaters) \in 0..Movers /\ Movers \in Nat
    <3>1. Cardinality(Users) \in Nat
      BY UsersAssumption, FS_CardinalityType
    <3> QED
      BY <2>1, <3>1, UpdatersCount DEF Movers
  <2>3. g_audio_local_index \in -1 - Movers..NumFiles + Movers
    BY <2>1, <2>2, BoundsAssumption DEF IndexInv, Lo, Hi, TypeInv, MgrTypes
  <2>4. \A t \in Threads : \A i \in DOMAIN todo[t] : DOMAIN todo[t][i] = {"op", "arg", "info"}
    <3> SUFFICES ASSUME NEW t \in Threads, NEW i \in DOMAIN todo[t]
                 PROVE  todo[t][i] \in CallsAt(t)
      BY CallsSound
    <3> QED
      BY <2>1 DEF TodoInv
  <2>5. TypeOK
    BY <2>1, <2>3, <2>4 DEF TypeOK, TypeInv, MgrTypes, InfoTypes, PlayerTypes, LockTypes, CountTypes
  <2>6. ASSUME NumFiles > 0, g_audio_local_index \notin 0..NumFiles - 1
        PROVE  \E t \in Threads : At(t, "local_update")
    <3>1. Cardinality(Updaters) # 0
      BY <2>1, <2>2, <2>6, BoundsAssumption DEF IndexInv, Lo, Hi, TypeInv, MgrTypes
    <3>2. Updaters # {}
      BY <3>1, FS_EmptySet
    <3> QED
      BY <3>2 DEF Updaters
  <2> QED
    BY <2>5, <2>6 DEF IndexInRange
<1> QED
  BY <1>1, ManagerInvariant, PTL

\* After a STOP that the manager has carried out, no thread starts the resource player
\* or has set its START, until a user asks for one: neither the end of a title that
\* races with audio_mgr_player_stop nor a prompt that ends.
THEOREM StopHoldsCorrect == Spec => []StopHolds
<1>1. ASSUME IInv PROVE StopHolds
  <2>1. <<>> \in Seq(NotStop)
    OBVIOUS
  <2> QED
    BY <1>1, <2>1 DEF IInv, HeldInv, StopHolds, Intact, Held
<1> QED
  BY <1>1, ManagerInvariant, PTL

\* Users, manager and workers wait for each other in a circle only when the worker of
\* the resource player reports an error from its callback and waits there for the
\* prompt (lines 229, 592 and 631).
THEOREM OnlyReportsCorrect == Spec => []OnlyReportsDeadlock
<1>1. ASSUME IInv PROVE OnlyReportsDeadlock
  BY <1>1, NoCircle DEF IInv
<1> QED
  BY <1>1, ManagerInvariant, PTL
=============================================================================
