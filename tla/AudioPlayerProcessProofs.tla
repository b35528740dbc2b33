---------------------- MODULE AudioPlayerProcessProofs ----------------------
(***************************************************************************)
(* What holds of AudioPlayerProcess for every number of players, callers,  *)
(* slots, calls and timeouts, proved with TLAPS.  In this order:           *)
(*                                                                         *)
(*   TypeOK, StopDoneMeansIdle, CrossCallerHidden, NoWaitRing, from what   *)
(*                the places of a worker say of its state (WhereInv) and   *)
(*                of the registry (RegistryInv)                            *)
(*   LockInv      who is between lock and unlock holds the lock            *)
(*   Prompt       a command, and its answer, belong to the call that waits *)
(*                for it, as long as no wait has given up on a worker at   *)
(*                work: AnswersKept and OnlyEndedStartsStarve follow       *)
(*   RegisterInv  a start finds a slot, and no registration is lost:       *)
(*                Visible follows                                          *)
(*   DriveInv     a start breaks whoever drives the device before it does  *)
(*   OwnInv       a player on its own owns the device it plays on:         *)
(*                DeviceKept follows from the two                          *)
(***************************************************************************)
EXTENDS AudioPlayerProcess, FiniteSetTheorems, TLAPS

-----------------------------------------------------------------------------
(* Type correctness *)

LEMMA FrameType ==
  /\ NoCall \in Frames
  /\ \A op \in AllOps, p \in Players \cup {NONE} : Enter(op, p) \in Frames
BY DEF NoCall, Enter, Frames, ApiPcs

\* The fields of a frame that Post, Wait and Setup assign.
LEMMA FrameUpdate ==
  ASSUME NEW f \in Frames, NEW pc \in ApiPcs, NEW a \in BOOLEAN, NEW b \in BOOLEAN,
         NEW h \in Nat
  PROVE  /\ [[[f EXCEPT !.pc = pc] EXCEPT !.acked = a] EXCEPT !.blocked = b] \in Frames
         /\ [[f EXCEPT !.pc = pc] EXCEPT !.acked = a] \in Frames
         /\ [[f EXCEPT !.pc = pc] EXCEPT !.handle = h] \in Frames
BY DEF Frames

LEMMA InitType == Init => TypeOK
<1> SUFFICES ASSUME Init PROVE TypeOK
  OBVIOUS
<1>1. call \in [Threads -> Frames]
  BY FrameType DEF Init
<1>2. slot \in [Players -> Slots]
  BY SlotsAssumption DEF Init, Slots
<1>3. QED
  BY <1>1, <1>2 DEF Init, TypeOK, States, Errors, PcmStates, WorkerPcs

\* The loops over the registry stay in it.
LEMMA ScanType ==
  ASSUME TypeOK, NEW p \in Players, ScanNext(p) \/ ScanDone(p)
  PROVE  wpc' \in [Players -> WorkerPcs] /\ slot' \in [Players -> Slots]
<1>1. CASE ScanDone(p)
  BY <1>1, SlotsAssumption DEF ScanDone, Goto, TypeOK, WorkerPcs, Slots
<1>2. CASE slot[p] < NumSlots /\ ScanNext(p)
  <2>1. slot[p] + 1 \in Slots
    BY <1>2, SlotsAssumption DEF TypeOK, Slots
  <2>2. QED
    BY <1>2, <2>1 DEF ScanNext, Goto, TypeOK, WorkerPcs
<1>3. QED
  BY <1>1, <1>2 DEF ScanNext

\* The step of a worker keeps the types.
LEMMA WorkerType ==
  ASSUME TypeOK, NEW p \in Players, WorkerStep(p)
  PROVE  TypeOK'
<1> USE SlotsAssumption
    DEF TypeOK, States, Commands, Acks, Errors, PcmStates, WorkerPcs, Slots,
        Step, Goto, SetState, SetEvent, TakeEvent, Entry,
        loopVars, sessionVars, lockVars, countVars, audioVars
<1>0. UNCHANGED <<sessionVars, lockVars, countVars>>
  BY DEF WorkerStep
<1>1. CASE IdleAck(p)       BY <1>0, <1>1 DEF IdleAck
<1>2. CASE IdleWait(p)      BY <1>0, <1>2 DEF IdleWait
<1>3. CASE IdleLeft(p)      BY <1>0, <1>3 DEF IdleLeft
<1>4. CASE IdleGo(p)        BY <1>0, <1>4 DEF IdleGo
<1>5. CASE OpenFile(p)
  <2>1. slot' \in [Players -> Slots]
    BY <1>5 DEF OpenFile
  <2>2. wpc' \in [Players -> WorkerPcs] /\ ret' \in [Players -> Errors]
    BY <1>5 DEF OpenFile
  <2>3. QED
    BY <1>0, <1>5, <2>1, <2>2 DEF OpenFile
<1>6. CASE ScanLook(p)
  <2>1. CASE ScanNext(p)
    BY <1>0, <1>6, <2>1, ScanType DEF ScanLook
  <2>2. CASE Goto(p, "scan_deref") /\ UNCHANGED slot
    BY <1>0, <1>6, <2>2 DEF ScanLook
  <2>3. QED
    BY <1>6, <2>1, <2>2 DEF ScanLook
<1>7. CASE ScanDeref(p)
  <2>1. CASE ScanNext(p)
    BY <1>0, <1>7, <2>1, ScanType DEF ScanDeref
  <2>2. CASE Goto(p, "scan_call") /\ UNCHANGED slot
    BY <1>0, <1>7, <2>2 DEF ScanDeref
  <2>3. CASE UNCHANGED <<wpc, slot>>
    BY <1>0, <1>7, <2>3 DEF ScanDeref
  <2>4. QED
    BY <1>7, <2>1, <2>2, <2>3 DEF ScanDeref
<1>8. CASE ScanCall(p)
  <2>1. call' \in [Threads -> Frames]
    <3>1. g_registers[slot[p]] \in Players \cup {NONE}
      OBVIOUS
    <3>2. \A op \in {"break", "resume"} : Enter(op, g_registers[slot[p]]) \in Frames
      BY <3>1, FrameType DEF AllOps
    <3>3. QED
      BY <1>8, <3>2 DEF ScanCall
  <2>2. QED
    BY <1>0, <1>8, <2>1 DEF ScanCall
<1>9. CASE ScanReturn(p)    BY <1>0, <1>9, ScanType DEF ScanReturn
<1>10. CASE Register(p)
  <2>1. CASE Goto(p, "register_write") /\ UNCHANGED slot
    BY <1>0, <1>10, <2>1 DEF Register
  <2>2. CASE slot[p] < NumSlots /\ slot' = [slot EXCEPT ![p] = @ + 1] /\ UNCHANGED wpc
    BY <1>0, <1>10, <2>2 DEF Register
  <2>3. CASE Goto(p, "com_start") /\ UNCHANGED slot
    BY <1>0, <1>10, <2>3 DEF Register
  <2>4. QED
    BY <1>10, <2>1, <2>2, <2>3 DEF Register
<1>11. CASE RegisterWrite(p) BY <1>0, <1>11 DEF RegisterWrite
<1>12. CASE ComStart(p)     BY <1>0, <1>12 DEF ComStart
<1>13. CASE ComWait(p)      BY <1>0, <1>13 DEF ComWait
<1>14. CASE StartState(p)   BY <1>0, <1>14 DEF StartState
<1>15. CASE StartAck(p)     BY <1>0, <1>15 DEF StartAck
<1>16. CASE PlayWait(p)     BY <1>0, <1>16 DEF PlayWait
<1>17. CASE PauseCom(p)     BY <1>0, <1>17 DEF PauseCom
<1>18. CASE PauseState(p)   BY <1>0, <1>18 DEF PauseState, Halted
<1>19. CASE PauseAck(p)     BY <1>0, <1>19 DEF PauseAck, Halted
<1>20. CASE Monitor(p)      BY <1>0, <1>20 DEF Monitor
<1>21. CASE PauseWait(p)    BY <1>0, <1>21 DEF PauseWait
<1>22. CASE ResumeCom(p)    BY <1>0, <1>22 DEF ResumeCom
<1>23. CASE ResumeState(p)  BY <1>0, <1>23 DEF ResumeState
<1>24. CASE StopCom(p)      BY <1>0, <1>24 DEF StopCom
<1>25. CASE Unregister(p)   BY <1>0, <1>25 DEF Unregister, FirstSlotOf
<1>26. CASE StopIdle(p)     BY <1>0, <1>26 DEF StopIdle
<1>27. QED
  BY <1>1, <1>2, <1>3, <1>4, <1>5, <1>6, <1>7, <1>8, <1>9, <1>10, <1>11, <1>12, <1>13,
     <1>14, <1>15, <1>16, <1>17, <1>18, <1>19, <1>20, <1>21, <1>22, <1>23, <1>24, <1>25,
     <1>26 DEF WorkerStep

LEMMA MoveType ==
  ASSUME TypeOK, NEW t \in Threads, NEW pc \in ApiPcs, Move(t, pc)
  PROVE  call' \in [Threads -> Frames]
<1>1. [call[t] EXCEPT !.pc = pc] \in Frames
  BY DEF TypeOK, Frames
<1>2. QED
  BY <1>1 DEF Move, TypeOK

LEMMA ReturnType ==
  ASSUME TypeOK, NEW t \in Threads, Return(t)
  PROVE  call' \in [Threads -> Frames]
BY FrameType DEF Return, TypeOK

\* The step of a call keeps the types.
LEMMA ApiType ==
  ASSUME TypeOK, NEW t \in Threads, ApiStep(t)
  PROVE  TypeOK'
<1> USE DEF TypeOK, workerVars, loopVars, sessionVars, lockVars, countVars, audioVars
<1>0. UNCHANGED workerVars
  BY DEF ApiStep
<1>1. CASE CommonLock(t)
  BY <1>0, <1>1, MoveType DEF CommonLock, ApiPcs
<1>2. CASE Lock(t)
  BY <1>0, <1>2, MoveType DEF Lock, ApiPcs
<1>3. CASE Check(t)
  <2>1. PICK pc \in ApiPcs : Move(t, pc)
    BY <1>3 DEF Check, ApiPcs
  <2>2. QED
    BY <1>0, <1>3, <2>1, MoveType DEF Check
<1>4. CASE Post(t)
  <2>1. call' \in [Threads -> Frames]
    <3> DEFINE none == event[Player(t)] \cap AcksOf(t) = {}
               next == IF At(t, "post_start") THEN "wait_start"
                       ELSE IF call[t].op = "resume" THEN "unlock" ELSE "wait"
    <3>1. call' = [call EXCEPT ![t].pc = next, ![t].acked = FALSE, ![t].blocked = none]
      BY <1>4 DEF Post
    <3>2. next \in ApiPcs /\ none \in BOOLEAN
      BY DEF ApiPcs
    <3> HIDE DEF none, next
    <3>3. QED
      BY <3>1, <3>2, FrameUpdate
  <2>2. event' \in [Players -> SUBSET (Commands \cup Acks)]
    BY <1>4 DEF Post, SetEvent, CommandOf, Commands
  <2>3. QED
    BY <1>0, <1>4, <2>1, <2>2 DEF Post
<1>5. CASE Wait(t)
  <2>1. AfterWait(t) \in ApiPcs
    BY DEF AfterWait, ApiPcs
  <2>2. call' \in [Threads -> Frames]
    BY <1>5, <2>1, FrameUpdate DEF Wait
  <2>3. QED
    BY <1>0, <1>5, <2>2 DEF Wait, TakeEvent
<1>6. CASE Clear(t)
  BY <1>0, <1>6, MoveType DEF Clear, ApiPcs
<1>7. CASE Unlock(t)
  <2>1. call' \in [Threads -> Frames]
    <3>1. CASE call[t].op \in StartOps
      <4>1. call[t] \in Frames /\ "relock" \in ApiPcs
        BY DEF ApiPcs
      <4>2. [[call[t] EXCEPT !.pc = "relock"] EXCEPT !.acked = FALSE] \in Frames
        BY <4>1, FrameUpdate
      <4>3. QED
        BY <1>7, <3>1, <4>2 DEF Unlock
    <3>2. CASE call[t].op \notin StartOps
      BY <1>7, <3>2, ReturnType DEF Unlock
    <3>3. QED
      BY <3>1, <3>2
  <2>2. QED
    BY <1>0, <1>7, <2>1 DEF Unlock
<1>8. CASE Setup(t)
  <2>1. call' \in [Threads -> Frames]
    <3>1. g_last_alloc_handle + 1 \in Nat /\ "post_start" \in ApiPcs
      BY DEF ApiPcs
    <3>2. QED
      BY <1>8, <3>1, FrameUpdate DEF Setup
  <2>2. auto_resume_prev' \in [Players -> BOOLEAN]
    BY <1>8, OpsAssumption DEF Setup
  <2>3. QED
    BY <1>0, <1>8, <2>1, <2>2 DEF Setup, Errors
<1>9. CASE UnlockStart(t)
  BY <1>0, <1>9, MoveType DEF UnlockStart, ApiPcs
<1>10. CASE CommonUnlock(t)
  <2>1. call' \in [Threads -> Frames]
    BY <1>10, MoveType, ReturnType DEF CommonUnlock, ApiPcs
  <2>2. QED
    BY <1>0, <1>10, <2>1 DEF CommonUnlock
<1>11. CASE Poll(t)
  BY <1>0, <1>11, ReturnType DEF Poll
<1>12. QED
  BY <1>1, <1>2, <1>3, <1>4, <1>5, <1>6, <1>7, <1>8, <1>9, <1>10, <1>11 DEF ApiStep

LEMMA TimeoutType ==
  ASSUME TypeOK, NEW t \in Threads, Timeout(t)
  PROVE  TypeOK'
<1>1. AfterWait(t) \in ApiPcs
  BY DEF AfterWait, ApiPcs
<1>2. call' \in [Threads -> Frames]
  BY <1>1, FrameUpdate DEF Timeout, TypeOK
<1>3. QED
  BY <1>2 DEF Timeout, TypeOK, workerVars, loopVars, sessionVars, lockVars, audioVars

LEMMA BeginType ==
  ASSUME TypeOK, NEW c \in Callers, NEW op \in Ops, NEW p \in Players, Begin(c, op, p)
  PROVE  TypeOK'
<1>1. Enter(op, p) \in Frames
  BY FrameType, OpsAssumption
<1>2. call' \in [Threads -> Frames]
  BY <1>1 DEF Begin, TypeOK
<1>3. calls' \in Nat
  BY DEF Begin, TypeOK
<1>4. QED
  BY <1>2, <1>3 DEF Begin, TypeOK, workerVars, loopVars, sessionVars, lockVars, audioVars

LEMMA DeviceType ==
  ASSUME TypeOK, Drain \/ \E p \in Players : DecoderError(p) \/ DownloadPaused(p)
  PROVE  TypeOK'
<1> USE DEF TypeOK, Errors, PcmStates, workerVars, loopVars, sessionVars, lockVars,
            countVars, audioVars
<1>1. CASE Drain
  BY <1>1 DEF Drain
<1>2. CASE \E p \in Players : DecoderError(p) \/ DownloadPaused(p)
  BY <1>2 DEF DecoderError, DownloadPaused
<1>3. QED
  BY <1>1, <1>2

LEMMA StutterType == TypeOK /\ UNCHANGED vars => TypeOK'
BY DEF TypeOK, vars, workerVars, loopVars, sessionVars, lockVars, countVars, audioVars

\* Every variable keeps its type: audio_player_process.c never leaves the
\* registry, the states and the bits it declares.
THEOREM TypeCorrect == Spec => []TypeOK
<1>1. Init => TypeOK
  BY InitType
<1>2. TypeOK /\ [Next]_vars => TypeOK'
  BY WorkerType, ApiType, TimeoutType, BeginType, DeviceType, StutterType
  DEF Next, Quiescent, Dead
<1>3. QED
  BY <1>1, <1>2, PTL DEF Spec

-----------------------------------------------------------------------------
(* Where a worker is, and what its player's state can be there *)

IdlePcs  == {"idle_ack", "idle_wait", "idle_left", "idle_go"}
ScanPcs  == {"scan_look", "scan_deref", "scan_call", "scan_wait"}
StartPcs == {"open", "register", "register_write", "com_start", "com_wait", "start_state"}
PlayPcs  == {"play_wait", "pause_com", "pause_state"}
HaltPcs  == {"pause_ack", "pause_wait", "resume_com", "resume_state"}
StopPcs  == {"stop_com", "unregister", "stop_idle"}

WhereInv ==
  \A p \in Players :
    /\ wpc[p] \in IdlePcs     => cur_state[p] = "IDLE"
    /\ wpc[p] \in StartPcs    => cur_state[p] = "START"
    /\ wpc[p] \in ScanPcs     => cur_state[p] \in {"START", "STOP"}
    /\ wpc[p] = "start_ack"   => cur_state[p] \in {"PLAY", "STOP"}
    /\ wpc[p] \in PlayPcs     => cur_state[p] = "PLAY"
    /\ wpc[p] \in HaltPcs     => cur_state[p] \in {"PAUSE", "BREAK"}
    /\ wpc[p] = "monitor"     => cur_state[p] \in {"PLAY", "PAUSE", "BREAK", "STOP"}
    /\ wpc[p] \in StopPcs     => cur_state[p] = "STOP"

LEMMA WhereWorker ==
  ASSUME TypeOK, WhereInv, NEW p \in Players, WorkerStep(p)
  PROVE  WhereInv'
<1> USE DEF TypeOK, WhereInv, IdlePcs, ScanPcs, StartPcs, PlayPcs, HaltPcs, StopPcs,
            Step, Goto, SetState, Entry, States
<1>1. CASE IdleAck(p)       BY <1>1 DEF IdleAck
<1>2. CASE IdleWait(p)      BY <1>2 DEF IdleWait
<1>3. CASE IdleLeft(p)      BY <1>3 DEF IdleLeft
<1>4. CASE IdleGo(p)        BY <1>4 DEF IdleGo
<1>5. CASE OpenFile(p)      BY <1>5 DEF OpenFile
<1>6. CASE ScanLook(p)      BY <1>6 DEF ScanLook, ScanNext, ScanDone
<1>7. CASE ScanDeref(p)     BY <1>7 DEF ScanDeref, ScanNext, ScanDone
<1>8. CASE ScanCall(p)      BY <1>8 DEF ScanCall
<1>9. CASE ScanReturn(p)    BY <1>9 DEF ScanReturn, ScanNext, ScanDone
<1>10. CASE Register(p)     BY <1>10 DEF Register
<1>11. CASE RegisterWrite(p) BY <1>11 DEF RegisterWrite
<1>12. CASE ComStart(p)     BY <1>12 DEF ComStart
<1>13. CASE ComWait(p)      BY <1>13 DEF ComWait
<1>14. CASE StartState(p)   BY <1>14 DEF StartState
<1>15. CASE StartAck(p)     BY <1>15 DEF StartAck
<1>16. CASE PlayWait(p)     BY <1>16 DEF PlayWait
<1>17. CASE PauseCom(p)     BY <1>17 DEF PauseCom
<1>18. CASE PauseState(p)   BY <1>18 DEF PauseState, Halted
<1>19. CASE PauseAck(p)     BY <1>19 DEF PauseAck
<1>20. CASE Monitor(p)      BY <1>20 DEF Monitor
<1>21. CASE PauseWait(p)    BY <1>21 DEF PauseWait
<1>22. CASE ResumeCom(p)    BY <1>22 DEF ResumeCom
<1>23. CASE ResumeState(p)  BY <1>23 DEF ResumeState
<1>24. CASE StopCom(p)      BY <1>24 DEF StopCom
<1>25. CASE Unregister(p)   BY <1>25 DEF Unregister
<1>26. CASE StopIdle(p)     BY <1>26 DEF StopIdle
<1>27. QED
  BY <1>1, <1>2, <1>3, <1>4, <1>5, <1>6, <1>7, <1>8, <1>9, <1>10, <1>11, <1>12, <1>13,
     <1>14, <1>15, <1>16, <1>17, <1>18, <1>19, <1>20, <1>21, <1>22, <1>23, <1>24, <1>25,
     <1>26 DEF WorkerStep

\* Every step that is not a worker's leaves the workers alone.
OtherStep == \/ \E c \in Callers, op \in Ops, p \in Players : Begin(c, op, p)
             \/ \E t \in Threads : ApiStep(t) \/ Timeout(t)
             \/ Drain
             \/ \E p \in Players : DecoderError(p) \/ DownloadPaused(p)
             \/ UNCHANGED vars

LEMMA NextSplit == [Next]_vars => OtherStep \/ \E p \in Players : WorkerStep(p)
BY DEF Next, OtherStep, Quiescent, Dead

LEMMA OtherKeeps == OtherStep => UNCHANGED <<cur_state, wpc, loopVars, g_registers>>
BY DEF OtherStep, Begin, ApiStep, Timeout, Drain, DecoderError, DownloadPaused, vars,
       workerVars

THEOREM WhereCorrect == Spec => []WhereInv
<1>1. Init => WhereInv
  BY DEF Init, WhereInv, IdlePcs, ScanPcs, StartPcs, PlayPcs, HaltPcs, StopPcs
<1>2. TypeOK /\ WhereInv /\ [Next]_vars => WhereInv'
  <2>1. ASSUME WhereInv, OtherStep PROVE WhereInv'
    BY <2>1, OtherKeeps DEF WhereInv
  <2>2. QED
    BY <2>1, WhereWorker, NextSplit
<1>3. QED
  BY <1>1, <1>2, TypeCorrect, PTL DEF Spec

-----------------------------------------------------------------------------
(* STOP_DONE is set only while the player is idle *)

\* Line 717 sets it on entering STA_IDLE and line 722 clears it before leaving.
StopDoneInv ==
  \A p \in Players : "STOP_DONE" \in event[p] => wpc[p] \in {"idle_wait", "idle_left"}

LEMMA StopDoneWorker ==
  ASSUME TypeOK, StopDoneInv, NEW p \in Players, WorkerStep(p)
  PROVE  StopDoneInv'
<1> USE DEF TypeOK, StopDoneInv, Step, Goto, SetEvent, TakeEvent
<1>1. CASE IdleAck(p)       BY <1>1 DEF IdleAck
<1>2. CASE IdleWait(p)      BY <1>2 DEF IdleWait
<1>3. CASE IdleLeft(p)      BY <1>3 DEF IdleLeft
<1>4. CASE StartAck(p)      BY <1>4 DEF StartAck
<1>5. CASE PlayWait(p)      BY <1>5 DEF PlayWait
<1>6. CASE PauseAck(p)      BY <1>6 DEF PauseAck
<1>7. CASE PauseWait(p)     BY <1>7 DEF PauseWait
<1>8. ASSUME UNCHANGED event, wpc[p] \notin {"idle_wait", "idle_left"},
             \A q \in Players \ {p} : wpc'[q] = wpc[q]
      PROVE  StopDoneInv'
  BY <1>8
<1>9. CASE IdleGo(p) \/ OpenFile(p) \/ ComStart(p) \/ ComWait(p) \/ StartState(p)
  BY <1>8, <1>9 DEF IdleGo, OpenFile, ComStart, ComWait, StartState
<1>10. CASE ScanLook(p) \/ ScanDeref(p) \/ ScanCall(p) \/ ScanReturn(p)
  BY <1>8, <1>10 DEF ScanLook, ScanDeref, ScanCall, ScanReturn, ScanNext, ScanDone
<1>11. CASE Register(p) \/ RegisterWrite(p) \/ Unregister(p) \/ StopCom(p) \/ StopIdle(p)
  BY <1>8, <1>11 DEF Register, RegisterWrite, Unregister, StopCom, StopIdle
<1>12. CASE PauseCom(p) \/ PauseState(p) \/ Monitor(p) \/ ResumeCom(p) \/ ResumeState(p)
  BY <1>8, <1>12 DEF PauseCom, PauseState, Monitor, ResumeCom, ResumeState
<1>13. QED
  BY <1>1, <1>2, <1>3, <1>4, <1>5, <1>6, <1>7, <1>9, <1>10, <1>11, <1>12 DEF WorkerStep

LEMMA StopDoneOther ==
  ASSUME TypeOK, StopDoneInv, OtherStep
  PROVE  StopDoneInv'
<1>1. \A p \in Players : event'[p] \subseteq event[p] \cup Commands
  <2>1. ASSUME NEW t \in Threads, ApiStep(t)
        PROVE  \A p \in Players : event'[p] \subseteq event[p] \cup Commands
    <3>1. CommandOf(t) \in Commands
      BY DEF CommandOf, Commands
    <3>2. CASE UNCHANGED event
      BY <3>2
    <3>3. CASE Post(t) \/ Wait(t) \/ Clear(t)
      BY <3>1, <3>3 DEF TypeOK, Post, Wait, Clear, SetEvent, TakeEvent
    <3>4. QED
      BY <2>1, <3>2, <3>3
      DEF ApiStep, CommonLock, Lock, Check, Unlock, Setup, UnlockStart, CommonUnlock, Poll
  <2>2. CASE UNCHANGED event
    BY <2>2
  <2>3. QED
    BY <2>1, <2>2 DEF OtherStep, Begin, Timeout, Drain, DecoderError, DownloadPaused, vars
<1>2. QED
  BY <1>1, OtherKeeps DEF StopDoneInv, Commands

\* A pause or a break is never answered by the end of an earlier session.
THEOREM StopDoneCorrect == Spec => []StopDoneMeansIdle
<1>1. Init => StopDoneInv
  BY DEF Init, StopDoneInv
<1>2. TypeOK /\ StopDoneInv /\ [Next]_vars => StopDoneInv'
  BY StopDoneWorker, StopDoneOther, NextSplit
<1>3. WhereInv /\ StopDoneInv => StopDoneMeansIdle
  BY DEF WhereInv, StopDoneInv, StopDoneMeansIdle, IdlePcs
<1>4. QED
  BY <1>1, <1>2, <1>3, TypeCorrect, WhereCorrect, PTL DEF Spec

-----------------------------------------------------------------------------
(* A worker inside the API of another player is not in the registry *)

\* A player is in the registry, at most once, from RegisterWrite to Unregister.
RegisteredPcs == {"com_start", "com_wait", "start_state", "start_ack", "play_wait",
                  "pause_com", "pause_state", "pause_ack", "monitor", "pause_wait",
                  "resume_com", "resume_state", "stop_com", "unregister"}

RegistryInv ==
  \A p \in Players :
    /\ InCall(p) => wpc[p] = "scan_wait"
    /\ \A i \in Slots : g_registers[i] = p => wpc[p] \in RegisteredPcs
    /\ \A i, j \in Slots : g_registers[i] = p /\ g_registers[j] = p => i = j

\* While the player is registered its worker calls nobody and stays in these
\* places: none of the steps below reaches another.
LEMMA RegistryQuiet ==
  ASSUME TypeOK, RegistryInv, NEW p \in Players, UNCHANGED <<g_registers, call>>,
         wpc[p] # "scan_wait" \/ call[p].pc = "none",
         wpc[p] \in RegisteredPcs => wpc'[p] \in RegisteredPcs,
         \A q \in Players \ {p} : wpc'[q] = wpc[q]
  PROVE  RegistryInv'
<1> SUFFICES ASSUME NEW q \in Players
             PROVE  /\ InCall(q)' => wpc'[q] = "scan_wait"
                    /\ \A i \in Slots : g_registers'[i] = q => wpc'[q] \in RegisteredPcs
                    /\ \A i, j \in Slots : g_registers'[i] = q /\ g_registers'[j] = q => i = j
  BY DEF RegistryInv
<1>1. InCall(q)' => wpc'[q] = "scan_wait"
  BY DEF RegistryInv, InCall
<1>2. \A i \in Slots : g_registers'[i] = q => wpc'[q] \in RegisteredPcs
  BY DEF RegistryInv
<1>3. \A i, j \in Slots : g_registers'[i] = q /\ g_registers'[j] = q => i = j
  BY DEF RegistryInv
<1>4. QED
  BY <1>1, <1>2, <1>3

LEMMA RegistryWorker ==
  ASSUME TypeOK, WhereInv, RegistryInv, NEW p \in Players, WorkerStep(p)
  PROVE  RegistryInv'
<1> USE DEF Step, Goto, RegisteredPcs
<1>1. CASE IdleAck(p) \/ IdleWait(p) \/ IdleLeft(p) \/ IdleGo(p) \/ OpenFile(p)
  BY <1>1, RegistryQuiet DEF TypeOK, IdleAck, IdleWait, IdleLeft, IdleGo, OpenFile
<1>2. CASE ScanLook(p) \/ ScanDeref(p) \/ ScanReturn(p)
  BY <1>2, RegistryQuiet DEF TypeOK, ScanLook, ScanDeref, ScanReturn, ScanNext, ScanDone
<1>3. CASE ScanCall(p)
  <2>1. \A q \in Players : InCall(q)' => wpc'[q] = "scan_wait"
    BY <1>3 DEF ScanCall, RegistryInv, InCall, TypeOK, Threads
  <2>2. \A q \in Players, i \in Slots : g_registers'[i] = q => wpc'[q] \in RegisteredPcs
    BY <1>3 DEF ScanCall, RegistryInv, TypeOK
  <2>3. QED
    BY <1>3, <2>1, <2>2 DEF ScanCall, RegistryInv
<1>4. CASE Register(p) \/ ComStart(p) \/ ComWait(p) \/ StartState(p)
  BY <1>4, RegistryQuiet DEF TypeOK, Register, ComStart, ComWait, StartState
<1>5. CASE RegisterWrite(p)
  <2>1. \A q \in Players : InCall(q)' => wpc'[q] = "scan_wait"
    BY <1>5 DEF RegisterWrite, RegistryInv, InCall, TypeOK
  <2>2. \A i \in Slots : g_registers[i] # p
    BY <1>5 DEF RegisterWrite, RegistryInv
  <2>3. \A q \in Players, i \in Slots : g_registers'[i] = q => wpc'[q] \in RegisteredPcs
    BY <1>5 DEF RegisterWrite, RegistryInv, TypeOK
  <2>4. \A q \in Players, i, j \in Slots :
          g_registers'[i] = q /\ g_registers'[j] = q => i = j
    BY <1>5, <2>2 DEF RegisterWrite, RegistryInv, TypeOK
  <2>5. QED
    BY <2>1, <2>3, <2>4 DEF RegistryInv
<1>6. CASE StartAck(p)
  BY <1>6, RegistryQuiet DEF TypeOK, StartAck, Entry, WhereInv
<1>7. CASE Monitor(p)
  BY <1>7, RegistryQuiet DEF TypeOK, Monitor, Entry, WhereInv
<1>8. CASE PlayWait(p) \/ PauseCom(p) \/ PauseState(p) \/ PauseAck(p)
  BY <1>8, RegistryQuiet DEF TypeOK, PlayWait, PauseCom, PauseState, PauseAck
<1>9. CASE PauseWait(p) \/ ResumeCom(p) \/ ResumeState(p) \/ StopCom(p) \/ StopIdle(p)
  BY <1>9, RegistryQuiet DEF TypeOK, PauseWait, ResumeCom, ResumeState, StopCom, StopIdle
<1>10. CASE Unregister(p)
  <2>1. \A q \in Players : InCall(q)' => wpc'[q] = "scan_wait"
    BY <1>10 DEF Unregister, RegistryInv, InCall, TypeOK
  <2>2. \A i \in Slots : g_registers'[i] # p
    <3>1. \A i \in Slots : g_registers[i] = p => FirstSlotOf(p, i)
      BY SlotsAssumption DEF RegistryInv, FirstSlotOf, Slots
    <3>2. QED
      BY <1>10, <3>1, ThreadsAssumption DEF Unregister
  <2>3. \A q \in Players, i \in Slots : g_registers'[i] = q => g_registers[i] = q
    BY <1>10, ThreadsAssumption DEF Unregister
  <2>4. \A q \in Players, i \in Slots : g_registers'[i] = q => wpc'[q] \in RegisteredPcs
    BY <1>10, <2>2, <2>3 DEF Unregister, RegistryInv, TypeOK
  <2>5. QED
    BY <2>1, <2>3, <2>4 DEF RegistryInv
<1>11. QED
  BY <1>1, <1>2, <1>3, <1>4, <1>5, <1>6, <1>7, <1>8, <1>9, <1>10 DEF WorkerStep

\* A step that is not a worker's starts no call of a worker, and keeps the
\* player of the calls they are in.
LEMMA OtherCalls ==
  ASSUME TypeOK, OtherStep, NEW p \in Players, InCall(p)'
  PROVE  InCall(p) /\ call'[p].player = call[p].player
<1> USE DEF TypeOK, InCall, Frames, NoCall
<1>0. p \in Threads
  BY DEF Threads
<1>1. CASE \E c \in Callers, op \in Ops, q \in Players : Begin(c, op, q)
  BY <1>0, <1>1, ThreadsAssumption DEF Begin
<1>2. ASSUME NEW t \in Threads, ApiStep(t) \/ Timeout(t)
      PROVE  InCall(p) /\ call'[p].player = call[p].player
  <2>1. CASE Return(t)
    BY <1>0, <2>1 DEF Return
  <2>2. CASE Timeout(t) \/ Wait(t)
    BY <1>0, <2>2 DEF Wait, Timeout, At
  <2>3. CASE Unlock(t)
    <3>1. CASE call[t].op \in StartOps
      BY <1>0, <2>3, <3>1 DEF Unlock, At
    <3>2. QED
      BY <2>1, <2>3, <3>1 DEF Unlock
  <2>4. CASE CommonLock(t) \/ Lock(t) \/ Check(t) \/ Clear(t) \/ UnlockStart(t)
    <3>1. CASE CommonLock(t) \/ Lock(t)
      BY <1>0, <3>1 DEF CommonLock, Lock, At, Move
    <3>2. CASE Check(t) \/ Clear(t)
      BY <1>0, <3>2 DEF Check, Clear, At, Move
    <3>3. CASE UnlockStart(t)
      BY <1>0, <3>3 DEF UnlockStart, At, Move
    <3>4. QED
      BY <2>4, <3>1, <3>2, <3>3
  <2>5. CASE Post(t) \/ Setup(t)
    <3>1. CASE Post(t)
      BY <1>0, <3>1 DEF Post, At
    <3>2. CASE Setup(t)
      BY <1>0, <3>2 DEF Setup, At
    <3>3. QED
      BY <2>5, <3>1, <3>2
  <2>6. CASE CommonUnlock(t) \/ Poll(t)
    BY <1>0, <2>1, <2>6 DEF CommonUnlock, Poll, At, Move
  <2>7. QED
    BY <1>2, <2>2, <2>3, <2>4, <2>5, <2>6 DEF ApiStep
<1>3. CASE UNCHANGED call
  BY <1>3
<1>4. QED
  BY <1>1, <1>2, <1>3 DEF OtherStep, Drain, DecoderError, DownloadPaused, vars

THEOREM RegistryCorrect == Spec => []RegistryInv
<1>1. Init => RegistryInv
  BY ThreadsAssumption DEF Init, RegistryInv, InCall, NoCall, Threads
<1>2. TypeOK /\ WhereInv /\ RegistryInv /\ [Next]_vars => RegistryInv'
  <2>1. ASSUME TypeOK, RegistryInv, OtherStep PROVE RegistryInv'
    BY <2>1, OtherCalls, OtherKeeps DEF RegistryInv
  <2>2. QED
    BY <2>1, RegistryWorker, NextSplit
<1>3. QED
  BY <1>1, <1>2, TypeCorrect, WhereCorrect, PTL DEF Spec

\* The worker that breaks or resumes another player cannot be broken or resumed
\* itself meanwhile: it is out of the registry.
THEOREM CrossCallerCorrect == Spec => []CrossCallerHidden
<1>1. RegistryInv => CrossCallerHidden
  BY DEF RegistryInv, CrossCallerHidden, RegisteredPcs
<1>2. QED
  BY <1>1, RegistryCorrect, PTL

\* Only ScanCall makes a worker wait for another, and the player it then waits
\* for is registered, hence waits for nobody: the new wait closes no ring.
LEMMA RingWorker ==
  ASSUME TypeOK, RegistryInv, NoWaitRing, NEW p \in Players, WorkerStep(p)
  PROVE  NoWaitRing'
<1>1. CASE ScanCall(p)
  <2> DEFINE q == g_registers[slot[p]]
  <2>1. CASE q = NONE
    BY <1>1, <2>1 DEF ScanCall, NoWaitRing, InCall
  <2>2. CASE q # NONE
    <3>1. q \in Players /\ slot[p] \in Slots
      BY <2>2 DEF TypeOK
    <3>2. ~InCall(q) /\ q # p
      BY <1>1, <3>1 DEF RegistryInv, RegisteredPcs, ScanCall, Step
    <3>3. call'[p].player = q /\ \A r \in Players \ {p} : call'[r] = call[r]
      BY <1>1, <2>2 DEF ScanCall, Enter, TypeOK, Threads
    <3>4. SUFFICES ASSUME NEW S \in SUBSET Players, S # {},
                          \A r \in S : InCall(r)' /\ call'[r].player \in S
                   PROVE  FALSE
      BY DEF NoWaitRing, InCall
    <3>5. CASE p \in S
      BY <3>1, <3>2, <3>3, <3>4, <3>5 DEF InCall
    <3>6. CASE p \notin S
      BY <3>3, <3>4, <3>6 DEF NoWaitRing, InCall
    <3>7. QED
      BY <3>5, <3>6
  <2>3. QED
    BY <2>1, <2>2
<1>2. CASE UNCHANGED call
  BY <1>2 DEF NoWaitRing, InCall
<1>3. QED
  BY <1>1, <1>2
  DEF WorkerStep, IdleAck, IdleWait, IdleLeft, IdleGo, OpenFile, ScanLook, ScanDeref,
      ScanReturn, Register, RegisterWrite, ComStart, ComWait, StartState, StartAck,
      PlayWait, PauseCom, PauseState, PauseAck, Monitor, PauseWait, ResumeCom,
      ResumeState, StopCom, Unregister, StopIdle

\* However many players there are, their workers never wait for one another in
\* a ring, whatever waits have timed out.
THEOREM NoWaitRingCorrect == Spec => []NoWaitRing
<1>1. Init => NoWaitRing
  BY DEF Init, NoWaitRing, InCall, NoCall, Threads
<1>2. TypeOK /\ RegistryInv /\ NoWaitRing /\ [Next]_vars => NoWaitRing'
  <2>1. ASSUME TypeOK, NoWaitRing, OtherStep PROVE NoWaitRing'
    <3>1. SUFFICES ASSUME NEW S \in SUBSET Players, S # {},
                          \A r \in S : InCall(r)' /\ call'[r].player \in S
                   PROVE  FALSE
      BY DEF NoWaitRing, InCall
    <3>2. \A r \in S : InCall(r) /\ call[r].player \in S
      BY <2>1, <3>1, OtherCalls
    <3>3. QED
      BY <2>1, <3>1, <3>2 DEF NoWaitRing
  <2>2. QED
    BY <2>1, RingWorker, NextSplit
<1>3. QED
  BY <1>1, <1>2, TypeCorrect, RegistryCorrect, PTL DEF Spec
-----------------------------------------------------------------------------
(* Which threads hold the locks *)

\* The places where a call has the lock of its player, and the calls that stop or halt it.
LockPcs == {"check", "post", "wait", "clear", "unlock", "setup", "post_start", "wait_start",
            "unlock_start"}
StopOps == StartOps \cup {"stop"}
HaltOps == {"pause", "break"}

\* The thread that has the lock of p, and that it is at one of these places of one of these calls.
Holder(p) == mutex_handle[p]
Held(p, pcs, ops) == /\ Holder(p) \in Threads
                     /\ call[Holder(p)].pc \in pcs /\ call[Holder(p)].op \in ops

\* A call is where its operation leads it.
FrameInv == \A t \in Threads :
  /\ InCall(t) => call[t].op \in AllOps /\ Player(t) \in Players
  /\ call[t].pc \in {"common", "relock", "setup", "post_start", "wait_start", "unlock_start",
                     "uncommon", "poll"} => call[t].op \in StartOps
  /\ call[t].pc = "clear" => call[t].op \in StopOps
  /\ call[t].pc = "wait" => call[t].op # "resume"
  /\ call[t].pc \in {"common", "lock", "check"} => ~call[t].acked

\* Who is between lock and unlock has the lock of the player, and nobody else has it.
MutexInv ==
  /\ \A t \in Threads : call[t].pc \in LockPcs => Holder(Player(t)) = t
  /\ \A p \in Players : Holder(p) \in Threads =>
       call[Holder(p)].pc \in LockPcs /\ Player(Holder(p)) = p

\* Who is in audio_player_start has the common lock.
CommonInv ==
  /\ \A t \in Threads : call[t].op \in StartOps /\ call[t].pc \notin {"none", "common", "poll"} =>
       g_common_mutex = t
  /\ g_common_mutex \in Threads => /\ call[g_common_mutex].op \in StartOps
                                   /\ call[g_common_mutex].pc \notin {"none", "common", "poll"}

\* A worker breaks other players when it starts and resumes one when it stops.
WorkerCallInv == \A p \in Players : InCall(p) =>
  call[p].op = IF cur_state[p] = "START" THEN "break" ELSE "resume"

LockInv == FrameInv /\ MutexInv /\ CommonInv /\ WorkerCallInv

\* What a step of the worker of p leaves alone.
LEMMA WorkerFrame ==
  ASSUME TypeOK, NEW p \in Players, WorkerStep(p)
  PROVE  /\ UNCHANGED <<mutex_handle, g_common_mutex, player_handle, timeouts, resumed>>
         /\ \A q \in Players \ {p} : /\ cur_state'[q] = cur_state[q] /\ wpc'[q] = wpc[q]
                                     /\ event'[q] = event[q] /\ events'[q] = events[q]
                                     /\ slot'[q] = slot[q] /\ ret'[q] = ret[q]
<1> USE DEF TypeOK, Step, Goto, SetState, SetEvent, TakeEvent, ScanNext, ScanDone, loopVars,
            sessionVars, lockVars, countVars, audioVars
<1>0. UNCHANGED <<mutex_handle, g_common_mutex, player_handle, timeouts, resumed>>
  BY DEF WorkerStep
<1>1. CASE IdleAck(p) \/ IdleWait(p) \/ IdleLeft(p) \/ IdleGo(p) \/ OpenFile(p)
  BY <1>0, <1>1 DEF IdleAck, IdleWait, IdleLeft, IdleGo, OpenFile
<1>2. CASE ScanLook(p)      BY <1>0, <1>2 DEF ScanLook
<1>3. CASE ScanDeref(p)     BY <1>0, <1>3 DEF ScanDeref
<1>4. CASE ScanCall(p) \/ ScanReturn(p)
  BY <1>0, <1>4 DEF ScanCall, ScanReturn
<1>5. CASE Register(p) \/ RegisterWrite(p) \/ ComStart(p) \/ ComWait(p)
  BY <1>0, <1>5 DEF Register, RegisterWrite, ComStart, ComWait
<1>6. CASE StartState(p) \/ StartAck(p) \/ PlayWait(p)
  BY <1>0, <1>6 DEF StartState, StartAck, PlayWait
<1>7. CASE PauseCom(p) \/ PauseState(p) \/ PauseAck(p) \/ Monitor(p)
  BY <1>0, <1>7 DEF PauseCom, PauseState, PauseAck, Monitor
<1>8. CASE PauseWait(p) \/ ResumeCom(p) \/ ResumeState(p)
  BY <1>0, <1>8 DEF PauseWait, ResumeCom, ResumeState
<1>9. CASE StopCom(p) \/ Unregister(p) \/ StopIdle(p)
  BY <1>0, <1>9 DEF StopCom, Unregister, StopIdle
<1> QED  BY <1>1, <1>2, <1>3, <1>4, <1>5, <1>6, <1>7, <1>8, <1>9 DEF WorkerStep

\* A worker's step makes no call but in ScanCall, where it was in none.
LEMMA WorkerCalls ==
  ASSUME TypeOK, RegistryInv, WhereInv, NEW p \in Players, WorkerStep(p)
  PROVE  \/ UNCHANGED call /\ (InCall(p) => cur_state'[p] = cur_state[p])
         \/ /\ call[p].pc = "none" /\ wpc[p] = "scan_call" /\ cur_state'[p] = cur_state[p]
            /\ g_registers[slot[p]] \in Players \ {p}
            /\ call' = [call EXCEPT ![p] =
                    Enter(IF cur_state[p] = "START" THEN "break" ELSE "resume",
                          g_registers[slot[p]])]
<1>1. CASE ScanCall(p)
  <2>1. call[p].pc = "none" /\ wpc[p] = "scan_call" /\ cur_state'[p] = cur_state[p]
    BY <1>1 DEF ScanCall, Step, RegistryInv, InCall
  <2>2. g_registers[slot[p]] \in Players \cup {NONE} /\ g_registers[slot[p]] # p
    BY <2>1 DEF TypeOK, RegistryInv, RegisteredPcs
  <2> QED  BY <1>1, <2>1, <2>2 DEF ScanCall, InCall
<1>2. CASE ScanReturn(p)
  BY <1>2 DEF ScanReturn
<1>3. CASE wpc[p] # "scan_wait" /\ UNCHANGED call
  BY <1>3 DEF RegistryInv
<1> QED  BY <1>1, <1>2, <1>3
  DEF WorkerStep, Step, IdleAck, IdleWait, IdleLeft, IdleGo, OpenFile, ScanLook, ScanDeref,
      Register, RegisterWrite, ComStart, ComWait, StartState, StartAck,
      PlayWait, PauseCom, PauseState, PauseAck, Monitor, PauseWait, ResumeCom,
      ResumeState, StopCom, Unregister, StopIdle

\* The locks do not change hands in a worker's step.
LEMMA LockWorker ==
  ASSUME TypeOK, RegistryInv, WhereInv, LockInv, NEW p \in Players, WorkerStep(p)
  PROVE  LockInv'
<1>1. /\ UNCHANGED <<mutex_handle, g_common_mutex>>
      /\ \A q \in Players \ {p} : cur_state'[q] = cur_state[q]
  BY WorkerFrame
<1>2. CASE UNCHANGED call /\ (InCall(p) => cur_state'[p] = cur_state[p])
  BY <1>1, <1>2 DEF LockInv, FrameInv, MutexInv, CommonInv, WorkerCallInv, InCall, Player, Holder
<1>3. ASSUME NEW op \in {"break", "resume"}, NEW q \in Players,
             call[p].pc = "none", cur_state'[p] = cur_state[p],
             op = IF cur_state[p] = "START" THEN "break" ELSE "resume",
             call' = [call EXCEPT ![p] = Enter(op, q)]
      PROVE  LockInv'
  <2>1. p \in Threads /\ call \in [Threads -> Frames] /\ op \notin StartOps /\ op \in AllOps
    BY DEF Threads, TypeOK, StartOps, AllOps
  <2>2. /\ call'[p].pc = "lock" /\ call'[p].op = op /\ call'[p].player = q /\ ~call'[p].acked
        /\ \A t \in Threads \ {p} : call'[t] = call[t]
    BY <1>3, <2>1 DEF Enter
  <2>3. FrameInv'
    BY <2>1, <2>2 DEF LockInv, FrameInv, InCall, Player
  <2>4. MutexInv'
    BY <1>1, <1>3, <2>1, <2>2 DEF LockInv, MutexInv, Player, Holder, LockPcs
  <2>5. CommonInv'
    BY <1>1, <1>3, <2>1, <2>2 DEF LockInv, CommonInv
  <2>6. WorkerCallInv'
    BY <1>1, <1>3, <2>1, <2>2 DEF LockInv, WorkerCallInv, InCall, Threads
  <2> QED  BY <2>3, <2>4, <2>5, <2>6 DEF LockInv
<1> QED  BY <1>2, <1>3, WorkerCalls

\* What a step of a call leaves alone.
LEMMA CallFrame ==
  ASSUME TypeOK, NEW t \in Threads, ApiStep(t) \/ Timeout(t)
  PROVE  /\ call[t].pc # "none"
         /\ \A u \in Threads \ {t} : call'[u] = call[u]
         /\ call'[t].pc # "none" => call'[t].op = call[t].op /\ call'[t].player = call[t].player
         /\ UNCHANGED <<cur_state, wpc, g_registers, slot, events, ret, pcm_owner>>
         /\ \A q \in Players \ {Player(t)} :
              mutex_handle'[q] = mutex_handle[q] /\ event'[q] = event[q]
<1>1. UNCHANGED <<cur_state, wpc, g_registers, slot, events, ret, pcm_owner>>
  BY DEF ApiStep, Timeout, workerVars, loopVars, audioVars
<1>2. /\ call[t].pc # "none"
      /\ \A u \in Threads \ {t} : call'[u] = call[u]
      /\ call'[t].pc # "none" => call'[t].op = call[t].op /\ call'[t].player = call[t].player
  <2> USE DEF TypeOK, Frames, Move, Return, At
  <2>1. NoCall.pc = "none"
    BY DEF NoCall
  <2>2. CASE Timeout(t) \/ Wait(t)
    BY <2>2 DEF Timeout, Wait
  <2>3. CASE Unlock(t)
    BY <2>1, <2>3 DEF Unlock
  <2>4. CASE Post(t) \/ Setup(t)
    BY <2>4 DEF Post, Setup
  <2>5. CASE CommonLock(t) \/ Lock(t) \/ Check(t) \/ Clear(t)
    BY <2>5 DEF CommonLock, Lock, Check, Clear
  <2>6. CASE UnlockStart(t) \/ CommonUnlock(t) \/ Poll(t)
    BY <2>1, <2>6 DEF UnlockStart, CommonUnlock, Poll
  <2> QED  BY <2>2, <2>3, <2>4, <2>5, <2>6 DEF ApiStep
<1>3. \A q \in Players \ {Player(t)} : mutex_handle'[q] = mutex_handle[q] /\ event'[q] = event[q]
  <2> USE DEF TypeOK, SetEvent, TakeEvent, lockVars
  <2>1. CASE Timeout(t)
    BY <2>1 DEF Timeout
  <2>2. CASE CommonLock(t) \/ Lock(t) \/ Check(t) \/ Post(t) \/ Wait(t)
    BY <2>2 DEF CommonLock, Lock, Check, Post, Wait
  <2>3. CASE Clear(t) \/ Unlock(t) \/ Setup(t) \/ UnlockStart(t) \/ CommonUnlock(t) \/ Poll(t)
    BY <2>3 DEF Clear, Unlock, Setup, UnlockStart, CommonUnlock, Poll
  <2> QED  BY <2>1, <2>2, <2>3 DEF ApiStep
<1> QED  BY <1>1, <1>2, <1>3

\* Where a call goes in one step, and what it does with the locks.
LEMMA Moves ==
  ASSUME TypeOK, NEW t \in Threads, ApiStep(t) \/ Timeout(t)
  PROVE  \/ /\ call[t].pc = "common" /\ call'[t].pc = "lock" /\ UNCHANGED mutex_handle
            /\ g_common_mutex = NONE /\ g_common_mutex' = t
         \/ /\ <<call[t].pc, call'[t].pc>> \in {<<"lock", "check">>, <<"relock", "setup">>}
            /\ Holder(Player(t)) = NONE /\ UNCHANGED g_common_mutex
            /\ mutex_handle' = [mutex_handle EXCEPT ![Player(t)] = t]
         \/ /\ UNCHANGED <<mutex_handle, g_common_mutex>>
            /\ \/ call[t].pc = "check" /\ call'[t].pc = "post"
               \/ call[t].pc \in {"check", "wait"}
                    /\ call'[t].pc = (IF call[t].op \in StopOps THEN "clear" ELSE "unlock")
               \/ /\ call[t].pc = "post"
                  /\ call'[t].pc = IF call[t].op = "resume" THEN "unlock" ELSE "wait"
               \/ <<call[t].pc, call'[t].pc>> \in {<<"post_start", "wait_start">>,
                    <<"wait_start", "unlock_start">>, <<"clear", "unlock">>,
                    <<"setup", "post_start">>,
                    <<"poll", "none">>}
         \/ /\ call[t].pc \in {"unlock", "unlock_start"} /\ UNCHANGED g_common_mutex
            /\ mutex_handle' = [mutex_handle EXCEPT ![Player(t)] = NONE]
            /\ call'[t].pc = IF call[t].pc = "unlock_start" THEN "uncommon"
                             ELSE IF call[t].op \in StartOps THEN "relock" ELSE "none"
         \/ /\ call[t].pc = "uncommon" /\ call'[t].pc \in {"poll", "none"} /\ UNCHANGED mutex_handle
            /\ g_common_mutex' = NONE
<1> USE DEF TypeOK, Frames, At, Move, Return, lockVars, Holder
<1>1. NoCall.pc = "none"
  BY DEF NoCall
<1>2. CASE CommonLock(t)    BY <1>2 DEF CommonLock
<1>3. CASE Lock(t)          BY <1>3 DEF Lock
<1>4. CASE Check(t)         BY <1>4 DEF Check, Stops, StopOps
<1>5. CASE Post(t)          BY <1>5 DEF Post
<1>6. CASE Wait(t)          BY <1>6 DEF Wait, AfterWait, Stops, StopOps
<1>7. CASE Timeout(t)       BY <1>7 DEF Timeout, AfterWait, Stops, StopOps
<1>8. CASE Clear(t)         BY <1>8 DEF Clear
<1>9. CASE Unlock(t)        BY <1>1, <1>9 DEF Unlock
<1>10. CASE Setup(t)        BY <1>10 DEF Setup
<1>11. CASE UnlockStart(t)  BY <1>11 DEF UnlockStart
<1>12. CASE CommonUnlock(t) BY <1>1, <1>12 DEF CommonUnlock
<1>13. CASE Poll(t)         BY <1>1, <1>13 DEF Poll
<1> QED
  BY <1>2, <1>3, <1>4, <1>5, <1>6, <1>7, <1>8, <1>9, <1>10, <1>11, <1>12, <1>13 DEF ApiStep

\* A call has no answer before it has posted its command.
LEMMA Unacked ==
  ASSUME TypeOK, NEW t \in Threads, ApiStep(t) \/ Timeout(t),
         call[t].pc \in {"common", "lock", "check"} => ~call[t].acked
  PROVE  call'[t].pc \in {"common", "lock", "check"} => ~call'[t].acked
<1>1. CASE CommonLock(t) \/ Lock(t)
  BY <1>1 DEF CommonLock, Lock, At, Move, TypeOK, Frames
<1>2. CASE call[t].pc \notin {"common", "lock", "relock"}
  BY <1>2, Moves
<1> QED  BY <1>1, <1>2 DEF ApiStep, Timeout, Check, Post, Wait, Clear, Unlock, Setup,
                UnlockStart, CommonUnlock, Poll, At

\* The locks change hands only from and to nobody.
LEMMA LockCall ==
  ASSUME TypeOK, LockInv, NEW t \in Threads, ApiStep(t) \/ Timeout(t)
  PROVE  LockInv'
<1> USE ThreadsAssumption DEF LockInv
<1>1. /\ call[t].pc # "none"
      /\ \A u \in Threads \ {t} : call'[u] = call[u]
      /\ call'[t].pc # "none" => call'[t].op = call[t].op /\ call'[t].player = call[t].player
      /\ UNCHANGED cur_state
  BY CallFrame
<1>2. FrameInv'
  <2>1. /\ call'[t].pc # "none" => call'[t].op \in AllOps /\ call'[t].player \in Players
        /\ call'[t].pc \in {"common", "relock", "setup", "post_start", "wait_start", "unlock_start",
                            "uncommon", "poll"} => call'[t].op \in StartOps
        /\ call'[t].pc = "clear" => call'[t].op \in StopOps
        /\ call'[t].pc = "wait" => call'[t].op # "resume"
        /\ call'[t].pc \in {"common", "lock", "check"} => ~call'[t].acked
    BY <1>1, Moves, Unacked DEF FrameInv, InCall, Player
  <2> QED  BY <1>1, <2>1 DEF FrameInv, InCall, Player
<1>3. /\ Player(t) \in Players /\ t # NONE /\ NONE \notin Threads
      /\ mutex_handle \in [Players -> Threads \cup {NONE}]
      /\ g_common_mutex \in Threads \cup {NONE}
  BY <1>1 DEF FrameInv, InCall, Threads, TypeOK
<1>4. MutexInv'
  <2>1. CASE UNCHANGED mutex_handle /\ (call[t].pc \in LockPcs <=> call'[t].pc \in LockPcs)
    BY <1>1, <1>3, <2>1 DEF MutexInv, Player, Holder, LockPcs
  <2>2. CASE /\ Holder(Player(t)) = NONE /\ call'[t].pc \in LockPcs
             /\ mutex_handle' = [mutex_handle EXCEPT ![Player(t)] = t]
    BY <1>1, <1>3, <2>2 DEF MutexInv, Player, Holder, LockPcs
  <2>3. CASE /\ call[t].pc \in LockPcs /\ call'[t].pc \notin LockPcs
             /\ mutex_handle' = [mutex_handle EXCEPT ![Player(t)] = NONE]
    BY <1>1, <1>3, <2>3 DEF MutexInv, Player, Holder, LockPcs
  <2> QED  BY <2>1, <2>2, <2>3, Moves DEF LockPcs
<1>5. CommonInv'
  <2> DEFINE In(f) == f.op \in StartOps /\ f.pc \notin {"none", "common", "poll"}
  <2>0. call[t].pc \in {"common", "relock", "setup", "post_start", "wait_start", "unlock_start",
                        "uncommon", "poll"} => call[t].op \in StartOps
    BY DEF FrameInv
  <2>1. CASE UNCHANGED g_common_mutex /\ (In(call[t]) <=> In(call'[t]))
    BY <1>1, <1>3, <2>1 DEF CommonInv
  <2>2. CASE g_common_mutex = NONE /\ g_common_mutex' = t /\ In(call'[t])
    BY <1>1, <1>3, <2>2 DEF CommonInv
  <2>3. CASE In(call[t]) /\ ~In(call'[t]) /\ g_common_mutex' = NONE
    BY <1>1, <1>3, <2>3 DEF CommonInv
  <2> QED  BY <1>1, <2>0, <2>1, <2>2, <2>3, Moves
<1>6. WorkerCallInv'
  BY <1>1 DEF WorkerCallInv, InCall, Threads
<1> QED  BY <1>2, <1>4, <1>5, <1>6

\* A call begins without a lock.
LEMMA LockBegin ==
  ASSUME TypeOK, LockInv, NEW c \in Callers, NEW op \in Ops, NEW p \in Players, Begin(c, op, p)
  PROVE  LockInv'
<1> USE ThreadsAssumption DEF LockInv
<1>1. c \in Threads /\ c \notin Players /\ op \in AllOps /\ call \in [Threads -> Frames]
  BY OpsAssumption DEF Threads, TypeOK
<1>2. /\ call[c].pc = "none" /\ \A u \in Threads \ {c} : call'[u] = call[u]
      /\ call'[c].op = op /\ call'[c].player = p /\ ~call'[c].acked
      /\ call'[c].pc = IF op \in StartOps THEN "common" ELSE "lock"
      /\ UNCHANGED <<cur_state, mutex_handle, g_common_mutex>>
  BY <1>1 DEF Begin, Enter, lockVars, workerVars
<1>3. FrameInv'
  BY <1>1, <1>2 DEF FrameInv, InCall, Player
<1>4. MutexInv'
  BY <1>1, <1>2 DEF MutexInv, Player, Holder, LockPcs
<1>5. CommonInv'
  BY <1>1, <1>2 DEF CommonInv
<1>6. WorkerCallInv'
  BY <1>1, <1>2 DEF WorkerCallInv, InCall, Threads
<1> QED  BY <1>3, <1>4, <1>5, <1>6

\* The decoders and the device leave this alone.
LEMMA DeviceFrame ==
  ASSUME Drain \/ (\E p \in Players : DecoderError(p) \/ DownloadPaused(p)) \/ UNCHANGED vars
  PROVE  UNCHANGED <<cur_state, wpc, g_registers, slot, events, ret, event, call, mutex_handle,
                     g_common_mutex, pcm_owner, player_handle, timeouts, resumed>>
BY DEF Drain, DecoderError, DownloadPaused, vars, workerVars, loopVars, audioVars, sessionVars,
       lockVars, countVars

\* Nobody holds a lock when the program starts.
LEMMA LockInit == Init => LockInv
<1> SUFFICES ASSUME Init PROVE LockInv
  OBVIOUS
<1>1. \A t \in Threads : call[t].pc = "none" /\ call[t].op = "none"
  BY DEF Init, NoCall
<1>2. g_common_mutex = NONE /\ NONE \notin Threads /\ \A p \in Players : mutex_handle[p] = NONE
  BY ThreadsAssumption DEF Init, Threads
<1> QED  BY <1>1, <1>2
  DEF LockInv, FrameInv, MutexInv, CommonInv, WorkerCallInv, InCall, LockPcs, Holder, StartOps,
      Threads

\* Each lock has one holder, and who is between lock and unlock is it.
THEOREM LockCorrect == Spec => []LockInv
<1>1. TypeOK /\ WhereInv /\ RegistryInv /\ LockInv /\ [Next]_vars => LockInv'
  <2> SUFFICES ASSUME TypeOK, WhereInv, RegistryInv, LockInv, [Next]_vars PROVE LockInv'
    OBVIOUS
  <2>1. CASE UNCHANGED <<cur_state, call, mutex_handle, g_common_mutex>>
    BY <2>1 DEF LockInv, FrameInv, MutexInv, CommonInv, WorkerCallInv, InCall, Holder, Player
  <2> QED  BY <2>1, LockWorker, LockCall, LockBegin, DeviceFrame, NextSplit DEF OtherStep
<1> QED  BY <1>1, LockInit, TypeCorrect, WhereCorrect, RegistryCorrect, PTL DEF Spec

-----------------------------------------------------------------------------
(* Commands and answers, as long as no wait has given up on a worker at work *)

Resting(p) == wpc[p] \in {"idle_ack", "idle_wait"}

\* p has been told to start and has not answered.
Begun(p)    == \/ wpc[p] \in {"idle_left", "idle_go", "start_ack"} \cup StartPcs
               \/ wpc[p] \in ScanPcs /\ cur_state[p] = "START"
Starting(p) == "START" \in event[p] \/ Begun(p)

\* A start, and its answer, belong to the call that waits for it.
StartingInv(p) ==
  /\ Starting(p) => Held(p, {"wait_start"}, StartOps) /\ "START_DONE" \notin event[p]
  /\ "START" \in event[p] => Resting(p) /\ event[p] \cap Commands = {"START"}
  /\ "START_DONE" \in event[p] => Held(p, {"wait_start"}, StartOps)
  /\ Held(p, {"wait_start"}, StartOps) =>
       Starting(p) \/ "START_DONE" \in event[p] \/ wpc[p] = "idle_wait"

\* A stop is pending, or taken, or answered, until its call goes on to clear.
StoppingInv(p) ==
  /\ "STOP" \in event[p] => Held(p, {"wait", "clear"}, StopOps)
  /\ Held(p, {"clear"}, StopOps) => Resting(p)
  /\ Held(p, {"post", "wait"}, StopOps \cup HaltOps) /\ wpc[p] = "idle_wait" =>
       "STOP_DONE" \in event[p]
  /\ Held(p, {"wait"}, StopOps) => "STOP" \in event[p] \/ cur_state[p] \in {"STOP", "IDLE"}

\* The command and the answer of a pause or a break.
Command(op) == IF op = "pause" THEN "PAUSE" ELSE "BREAK"
Answer(op)  == IF op = "pause" THEN "PAUSE_DONE" ELSE "BREAK_DONE"
HaltingPcs  == {"pause_com", "pause_state", "pause_ack"}

\* p is out of STA_PLAY and stays there until it is commanded again.
Quiet(p) == /\ cur_state[p] # "PLAY" /\ pcm_owner # p
            /\ wpc[p] \notin {"resume_com", "resume_state"} \cup HaltingPcs
            /\ cur_state[p] \in {"PAUSE", "BREAK"} => "RESUME" \notin event[p]
Taken(p) == event[p] \cap {"PAUSE", "BREAK"} = {}

\* A pause or a break is pending, or taken, or answered, while its call waits, and
\* none is left over for a session in which nobody waits for it.
HaltingInv(p) ==
  /\ wpc[p] \in HaltingPcs => Held(p, {"wait"}, HaltOps) /\ "RESUME" \notin event[p] /\ Taken(p)
  /\ \A op \in HaltOps :
       /\ Answer(op) \in event[p] => Held(p, {"wait"}, {op}) /\ Quiet(p) /\ Taken(p)
       /\ ~Resting(p) /\ Command(op) \in event[p] => Held(p, {"wait"}, {op})
       /\ Held(p, {"wait"}, {op}) =>
            /\ cur_state[p] = "PLAY" => Command(op) \in event[p] \/ wpc[p] \in HaltingPcs
            /\ cur_state[p] \in {"PAUSE", "BREAK"} =>
                 wpc[p] = "pause_ack" \/ Answer(op) \in event[p]
            /\ wpc[p] \in HaltingPcs => (op = "pause" <=> "PAUSE" \in events[p])
            /\ wpc[p] \notin {"resume_com", "resume_state"}
  /\ Held(p, {"post"}, HaltOps) => cur_state[p] \in {"PLAY", "STOP", "IDLE"}
  /\ Held(p, {"unlock"}, HaltOps) /\ call[Holder(p)].acked => Quiet(p)

\* From its stop to its START a start finds the player at rest and lets no command in.
FreshPcs == {"unlock", "relock", "setup", "post_start"}
FreshInv ==
  g_common_mutex \in Threads /\ call[g_common_mutex].pc \in FreshPcs =>
    LET p == Player(g_common_mutex)
    IN  /\ Resting(p) /\ event[p] \cap Commands = {}
        /\ Holder(p) \in Threads =>
             call[Holder(p)].pc \in {"check", "clear", "unlock", "setup", "post_start"}

\* Only a player that has the device is its owner.
OwnerInv == \A p \in Players : pcm_owner = p =>
  \/ wpc[p] \in {"start_state", "start_ack", "play_wait", "pause_com", "resume_state", "stop_com"}
  \/ wpc[p] = "monitor" /\ cur_state[p] \in {"PLAY", "STOP"}

\* A worker gives the device up before it halts and when it stops.
LEMMA OwnerWorker ==
  ASSUME TypeOK, WhereInv, OwnerInv, NEW p \in Players, WorkerStep(p)
  PROVE  OwnerInv'
<1> USE ThreadsAssumption
    DEF OwnerInv, TypeOK, WhereInv, IdlePcs, ScanPcs, StartPcs, PlayPcs, HaltPcs, StopPcs,
            Step, Goto, SetState, Entry, States, audioVars, loopVars
<1>1. CASE IdleAck(p)       BY <1>1 DEF IdleAck
<1>2. CASE IdleWait(p)      BY <1>2 DEF IdleWait
<1>3. CASE IdleLeft(p)      BY <1>3 DEF IdleLeft
<1>4. CASE IdleGo(p)        BY <1>4 DEF IdleGo
<1>5. CASE OpenFile(p)      BY <1>5 DEF OpenFile
<1>6. CASE ScanLook(p)      BY <1>6 DEF ScanLook, ScanNext, ScanDone
<1>7. CASE ScanDeref(p)     BY <1>7 DEF ScanDeref, ScanNext, ScanDone
<1>8. CASE ScanCall(p)      BY <1>8 DEF ScanCall
<1>9. CASE ScanReturn(p)    BY <1>9 DEF ScanReturn, ScanNext, ScanDone
<1>10. CASE Register(p)     BY <1>10 DEF Register
<1>11. CASE RegisterWrite(p) BY <1>11 DEF RegisterWrite
<1>12. CASE ComStart(p)     BY <1>12 DEF ComStart
<1>13. CASE ComWait(p)      BY <1>13 DEF ComWait
<1>14. CASE StartState(p)   BY <1>14 DEF StartState
<1>15. CASE StartAck(p)     BY <1>15 DEF StartAck
<1>16. CASE PlayWait(p)     BY <1>16 DEF PlayWait
<1>17. CASE PauseCom(p)     BY <1>17 DEF PauseCom
<1>18. CASE PauseState(p)   BY <1>18 DEF PauseState, Halted
<1>19. CASE PauseAck(p)     BY <1>19 DEF PauseAck
<1>20. CASE Monitor(p)      BY <1>20 DEF Monitor
<1>21. CASE PauseWait(p)    BY <1>21 DEF PauseWait
<1>22. CASE ResumeCom(p)    BY <1>22 DEF ResumeCom
<1>23. CASE ResumeState(p)  BY <1>23 DEF ResumeState
<1>24. CASE StopCom(p)      BY <1>24 DEF StopCom
<1>25. CASE Unregister(p)   BY <1>25 DEF Unregister
<1>26. CASE StopIdle(p)     BY <1>26 DEF StopIdle
<1>27. QED
  BY <1>1, <1>2, <1>3, <1>4, <1>5, <1>6, <1>7, <1>8, <1>9, <1>10, <1>11, <1>12, <1>13,
     <1>14, <1>15, <1>16, <1>17, <1>18, <1>19, <1>20, <1>21, <1>22, <1>23, <1>24, <1>25,
     <1>26 DEF WorkerStep

\* The device is attached only to a player that has been started or resumed and has
\* not been halted or stopped.
THEOREM OwnerCorrect == Spec => []OwnerInv
<1>1. Init => OwnerInv
  BY ThreadsAssumption DEF Init, OwnerInv
<1>2. TypeOK /\ WhereInv /\ OwnerInv /\ [Next]_vars => OwnerInv'
  <2> SUFFICES ASSUME TypeOK, WhereInv, OwnerInv, [Next]_vars PROVE OwnerInv'
    OBVIOUS
  <2>1. ASSUME UNCHANGED <<cur_state, wpc, pcm_owner>> PROVE OwnerInv'
    BY <2>1 DEF OwnerInv
  <2>2. ASSUME OtherStep PROVE UNCHANGED <<cur_state, wpc, pcm_owner>>
    BY <2>2, CallFrame, DeviceFrame DEF OtherStep, Begin, workerVars, audioVars
  <2> QED  BY <2>1, <2>2, OwnerWorker, NextSplit
<1> QED  BY <1>1, <1>2, TypeCorrect, WhereCorrect, PTL DEF Spec

\* A worker's step leaves the locks and the calls that hold them as they are.
LEMMA HolderFrame ==
  ASSUME TypeOK, WhereInv, RegistryInv, LockInv, NEW p \in Players, WorkerStep(p),
         NEW q \in Players, Holder(q) \in Threads
  PROVE  call'[Holder(q)] = call[Holder(q)]
<1>1. CASE UNCHANGED call
  BY <1>1
<1>2. CASE call[p].pc = "none" /\ \A t \in Threads \ {p} : call'[t] = call[t]
  BY <1>2 DEF LockInv, MutexInv, LockPcs
<1>3. p \in Threads /\ call \in [Threads -> Frames]
  BY DEF Threads, TypeOK
<1> QED  BY <1>1, <1>2, <1>3, WorkerCalls

\* So what is said of the holder of a lock stays true.
LEMMA HolderKept ==
  ASSUME TypeOK, WhereInv, RegistryInv, LockInv, NEW p \in Players, WorkerStep(p),
         NEW q \in Players
  PROVE  /\ \A pcs, ops : Held(q, pcs, ops)' <=> Held(q, pcs, ops)
         /\ Holder(q) \in Threads => (call[Holder(q)].acked)' = call[Holder(q)].acked
         /\ Holder(q)' = Holder(q)
<1>1. mutex_handle' = mutex_handle
  BY WorkerFrame
<1> QED  BY <1>1, HolderFrame DEF Held, Holder

\* The holder of a lock is at one place of one call.
LEMMA Phases ==
  ASSUME NEW p \in Players
  PROVE  /\ Held(p, {"wait_start"}, StartOps) =>
              /\ ~Held(p, {"clear"}, StopOps) /\ ~Held(p, {"post", "wait"}, StopOps \cup HaltOps)
              /\ ~Held(p, {"wait"}, StopOps) /\ ~Held(p, {"wait", "clear"}, StopOps)
              /\ ~Held(p, {"wait"}, HaltOps) /\ \A op : ~Held(p, {"wait"}, {op})
              /\ ~Held(p, {"post"}, HaltOps) /\ ~Held(p, {"unlock"}, HaltOps)
         /\ Held(p, {"wait"}, HaltOps) =>
              /\ ~Held(p, {"clear"}, StopOps) /\ ~Held(p, {"wait"}, StopOps)
              /\ ~Held(p, {"wait", "clear"}, StopOps)
              /\ ~Held(p, {"post"}, HaltOps) /\ ~Held(p, {"unlock"}, HaltOps)
              /\ ~Held(p, {"wait"}, {"pause"}) <=> Held(p, {"wait"}, {"break"})
         /\ \A op \in HaltOps : Held(p, {"wait"}, {op}) =>
              Held(p, {"wait"}, HaltOps) /\ Held(p, {"post", "wait"}, StopOps \cup HaltOps)
         /\ Held(p, {"post"}, HaltOps) => Held(p, {"post", "wait"}, StopOps \cup HaltOps)
         /\ Held(p, {"wait"}, StopOps) => /\ Held(p, {"post", "wait"}, StopOps \cup HaltOps)
                                         /\ Held(p, {"wait", "clear"}, StopOps)
         /\ Held(p, {"clear"}, StopOps) => Held(p, {"wait", "clear"}, StopOps)
         /\ Held(p, {"wait", "clear"}, StopOps) =>
              Held(p, {"wait"}, StopOps) \/ Held(p, {"clear"}, StopOps)
BY DEF Held, StartOps, StopOps, HaltOps

\* A worker takes the commands of its player and answers them.
LEMMA OwnWorkerKeeps ==
  ASSUME TypeOK, WhereInv, RegistryInv, LockInv, OwnerInv, StopDoneInv, NEW p \in Players,
         WorkerStep(p), StartingInv(p), StoppingInv(p), HaltingInv(p)
  PROVE  StartingInv(p)' /\ StoppingInv(p)' /\ HaltingInv(p)'
<1> USE HolderKept, Phases, ThreadsAssumption
    DEF TypeOK, WhereInv, IdlePcs, ScanPcs, StartPcs, PlayPcs, HaltPcs, StopPcs, StartOps,
        StopOps, HaltOps, Commands, OwnerInv, StopDoneInv, Step, Goto, SetState, SetEvent,
        TakeEvent, Entry, States, audioVars, loopVars, Resting, Begun, Starting, StartingInv,
        StoppingInv, HaltingInv, HaltingPcs, Quiet, Taken, Command, Answer
<1>1. CASE IdleAck(p)       BY <1>1 DEF IdleAck
<1>2. CASE IdleWait(p)      BY <1>2 DEF IdleWait
<1>3. CASE IdleLeft(p)      BY <1>3 DEF IdleLeft
<1>4. CASE IdleGo(p)        BY <1>4 DEF IdleGo
<1>5. CASE OpenFile(p)      BY <1>5 DEF OpenFile
<1>6. CASE ScanLook(p)      BY <1>6 DEF ScanLook, ScanNext, ScanDone
<1>7. CASE ScanDeref(p)     BY <1>7 DEF ScanDeref, ScanNext, ScanDone
<1>8. CASE ScanCall(p)      BY <1>8 DEF ScanCall
<1>9. CASE ScanReturn(p)    BY <1>9 DEF ScanReturn, ScanNext, ScanDone
<1>10. CASE Register(p)     BY <1>10 DEF Register
<1>11. CASE RegisterWrite(p)  BY <1>11 DEF RegisterWrite
<1>12. CASE ComStart(p)     BY <1>12 DEF ComStart
<1>13. CASE ComWait(p)      BY <1>13 DEF ComWait
<1>14. CASE StartState(p)   BY <1>14 DEF StartState
<1>15. CASE StartAck(p)     BY <1>15 DEF StartAck
<1>16. CASE PlayWait(p)     BY <1>16 DEF PlayWait
<1>17. CASE PauseCom(p)     BY <1>17 DEF PauseCom
<1>18. CASE PauseState(p)   BY <1>18 DEF PauseState, Halted
<1>19. CASE PauseAck(p)     BY <1>19 DEF PauseAck, Halted
<1>20. CASE Monitor(p)      BY <1>20 DEF Monitor
<1>21. CASE PauseWait(p)    BY <1>21 DEF PauseWait
<1>22. CASE ResumeCom(p)    BY <1>22 DEF ResumeCom
<1>23. CASE ResumeState(p)  BY <1>23 DEF ResumeState
<1>24. CASE StopCom(p)      BY <1>24 DEF StopCom
<1>25. CASE Unregister(p)   BY <1>25 DEF Unregister
<1>26. CASE StopIdle(p)     BY <1>26 DEF StopIdle
<1> QED
  BY <1>1, <1>2, <1>3, <1>4, <1>5, <1>6, <1>7, <1>8, <1>9, <1>10, <1>11, <1>12, <1>13,
     <1>14, <1>15, <1>16, <1>17, <1>18, <1>19, <1>20, <1>21, <1>22, <1>23, <1>24, <1>25,
     <1>26
  DEF WorkerStep

\* The places of the holder that matter to the commands and answers of a player.
KeyPcs == {"post", "wait", "clear", "unlock", "wait_start"}

\* What is said of q depends on this alone.
LEMMA Unmoved ==
  ASSUME NEW q \in Players, StartingInv(q), StoppingInv(q), HaltingInv(q),
         cur_state'[q] = cur_state[q], wpc'[q] = wpc[q], event'[q] = event[q],
         events'[q] = events[q], pcm_owner' = q => pcm_owner = q,
         \A pcs \in SUBSET KeyPcs : \A ops : Held(q, pcs, ops)' <=> Held(q, pcs, ops),
         Held(q, {"unlock"}, HaltOps) => (call[Holder(q)].acked)' = call[Holder(q)].acked
  PROVE  StartingInv(q)' /\ StoppingInv(q)' /\ HaltingInv(q)'
<1>0. {{"post"}, {"wait"}, {"clear"}, {"unlock"}, {"wait_start"}, {"post", "wait"},
       {"wait", "clear"}}
        \subseteq SUBSET KeyPcs
  BY DEF KeyPcs
<1>1. StartingInv(q)'
  BY <1>0 DEF StartingInv, Starting, Begun, Resting
<1>2. StoppingInv(q)'
  BY <1>0 DEF StoppingInv, Resting
<1>3. HaltingInv(q)'
  BY <1>0 DEF HaltingInv, Quiet, Taken, Resting
<1> QED  BY <1>1, <1>2, <1>3

\* A worker attaches the device to its own player or to none.
LEMMA OwnerMoves ==
  ASSUME NEW p \in Players, WorkerStep(p)
  PROVE  pcm_owner' \in {pcm_owner, p, NONE}
BY DEF WorkerStep, IdleAck, IdleWait, IdleLeft, IdleGo, OpenFile, ScanLook, ScanDeref,
       ScanCall, ScanReturn, Register, RegisterWrite, ComStart, ComWait, StartState, StartAck,
       PlayWait, PauseCom, PauseState, PauseAck, Monitor, PauseWait, ResumeCom, ResumeState,
       StopCom, Unregister, StopIdle, audioVars

\* The step of a worker, seen by every player.
LEMMA PlayersWorker ==
  ASSUME TypeOK, WhereInv, RegistryInv, LockInv, OwnerInv, StopDoneInv, NEW p \in Players,
         WorkerStep(p), \A q \in Players : StartingInv(q) /\ StoppingInv(q) /\ HaltingInv(q)
  PROVE  \A q \in Players : StartingInv(q)' /\ StoppingInv(q)' /\ HaltingInv(q)'
<1> SUFFICES ASSUME NEW q \in Players
             PROVE  StartingInv(q)' /\ StoppingInv(q)' /\ HaltingInv(q)'
  OBVIOUS
<1>1. CASE q = p
  BY <1>1, OwnWorkerKeeps
<1>2. CASE q # p
  <2>1. pcm_owner' = q => pcm_owner = q
    BY <1>2, OwnerMoves, ThreadsAssumption
  <2>2. /\ \A pcs, ops : Held(q, pcs, ops)' <=> Held(q, pcs, ops)
        /\ Held(q, {"unlock"}, HaltOps) => (call[Holder(q)].acked)' = call[Holder(q)].acked
    BY HolderKept DEF Held
  <2> QED  BY <1>2, <2>1, <2>2, WorkerFrame, Unmoved
<1> QED  BY <1>1, <1>2

\* A player at rest stays so without START.
LEMMA FreshWorker ==
  ASSUME TypeOK, WhereInv, RegistryInv, LockInv, FreshInv, NEW p \in Players, WorkerStep(p)
  PROVE  FreshInv'
<1> DEFINE t == g_common_mutex
           q == Player(t)
<1>1. t' = t /\ mutex_handle' = mutex_handle
  BY WorkerFrame
<1>2. SUFFICES ASSUME t \in Threads, call'[t].pc \in FreshPcs
               PROVE  /\ Resting(q)' /\ event'[q'] \cap Commands = {}
                      /\ Holder(q)' \in Threads =>
                           (call[Holder(q)])'.pc \in {"check", "clear", "unlock", "setup",
                                                      "post_start"}
  BY <1>1 DEF FreshInv
<1>3. call'[t] = call[t]
  <2>1. p \in Threads /\ call \in [Threads -> Frames]
    BY DEF Threads, TypeOK
  <2>2. CASE t = p /\ ~UNCHANGED call
    <3>1. call'[p].pc = "lock"
      BY <2>1, <2>2, WorkerCalls DEF Enter, StartOps
    <3> QED  BY <1>2, <2>2, <3>1 DEF FreshPcs
  <2> QED  BY <1>2, <2>1, <2>2, WorkerCalls
<1>4. q' = q /\ q \in Players
  BY <1>1, <1>2, <1>3 DEF Player, LockInv, FrameInv, InCall, FreshPcs
<1>5. /\ Resting(q) /\ event[q] \cap Commands = {}
      /\ Holder(q) \in Threads =>
           call[Holder(q)].pc \in {"check", "clear", "unlock", "setup", "post_start"}
  BY <1>2, <1>3 DEF FreshInv
<1>6. Holder(q)' = Holder(q) /\ (Holder(q) \in Threads => call'[Holder(q)] = call[Holder(q)])
  BY <1>1, <1>4, HolderFrame DEF Holder
<1>7. Resting(q)' /\ event'[q] \cap Commands = {}
  <2>1. CASE q = p
    <3>1. CASE IdleAck(p)
      BY <1>4, <1>5, <2>1, <3>1 DEF IdleAck, Resting, Step, Goto, TypeOK, Commands
    <3>2. CASE ~IdleAck(p)
      BY <1>5, <2>1, <3>2 DEF WorkerStep, Resting, Commands, Step, IdleWait, IdleLeft, IdleGo,
             OpenFile, ScanLook, ScanDeref, ScanCall, ScanReturn, Register, RegisterWrite,
             ComStart, ComWait, StartState, StartAck, PlayWait, PauseCom, PauseState, PauseAck,
             Monitor, PauseWait, ResumeCom, ResumeState, StopCom, Unregister, StopIdle
    <3> QED  BY <3>1, <3>2
  <2>2. CASE q # p
    BY <1>4, <1>5, <2>2, WorkerFrame DEF Resting
  <2> QED  BY <2>1, <2>2
<1> QED  BY <1>4, <1>5, <1>6, <1>7

\* Between lock and unlock a call is the holder that Held speaks of.
LEMMA HeldBy ==
  ASSUME LockInv, NEW t \in Threads, call[t].pc \in LockPcs
  PROVE  /\ Player(t) \in Players /\ Holder(Player(t)) = t
         /\ \A pcs, ops : Held(Player(t), pcs, ops) <=> call[t].pc \in pcs /\ call[t].op \in ops
BY DEF LockInv, FrameInv, MutexInv, Held, LockPcs, InCall

\* The step of a call leaves the holders of the locks of other players alone.
LEMMA OtherHolders ==
  ASSUME TypeOK, LockInv, NEW t \in Threads, ApiStep(t) \/ Timeout(t),
         NEW q \in Players, q # Player(t)
  PROVE  /\ \A pcs, ops : Held(q, pcs, ops)' <=> Held(q, pcs, ops)
         /\ Holder(q)' = Holder(q)
         /\ Holder(q) \in Threads => call'[Holder(q)] = call[Holder(q)]
<1>1. mutex_handle'[q] = mutex_handle[q] /\ \A u \in Threads \ {t} : call'[u] = call[u]
  BY CallFrame
<1>2. Holder(q) \in Threads => Holder(q) # t
  BY DEF LockInv, MutexInv
<1> QED  BY <1>1, <1>2 DEF Held, Holder

\* A step of a call that is about neither the command nor the answer.
LEMMA QuietCall ==
  ASSUME TypeOK, LockInv, NEW t \in Threads, ApiStep(t) \/ Timeout(t), UNCHANGED event,
         call[t].pc \notin KeyPcs, call'[t].pc \notin KeyPcs,
         NEW q \in Players, StartingInv(q), StoppingInv(q), HaltingInv(q)
  PROVE  StartingInv(q)' /\ StoppingInv(q)' /\ HaltingInv(q)'
<1>1. UNCHANGED <<cur_state, wpc, events, pcm_owner>>
  BY CallFrame
<1>2. /\ \A pcs \in SUBSET KeyPcs : \A ops : Held(q, pcs, ops)' <=> Held(q, pcs, ops)
      /\ Held(q, {"unlock"}, HaltOps) => (call[Holder(q)].acked)' = call[Holder(q)].acked
  <2>1. CASE q # Player(t)
    BY <2>1, OtherHolders DEF Held
  <2>2. CASE q = Player(t)
    <3>1. \A u \in Threads \ {t} : call'[u] = call[u]
      BY CallFrame
    <3>2. \/ Holder(q)' = Holder(q)
          \/ Holder(q) \in {t, NONE} /\ Holder(q)' \in {t, NONE}
      BY <2>2, Moves, HeldBy DEF LockPcs, Holder, TypeOK
    <3> QED  BY <3>1, <3>2, ThreadsAssumption DEF Held, KeyPcs, Holder, Threads
  <2> QED  BY <2>1, <2>2
<1> QED  BY <1>1, <1>2, Unmoved

\* What the steps below start from.
Ready(t) == /\ TypeOK /\ WhereInv /\ LockInv /\ OwnerInv /\ StopDoneInv
            /\ \A q \in Players : StartingInv(q) /\ StoppingInv(q) /\ HaltingInv(q)
            /\ call[t].pc \in LockPcs

\* The holder of the lock is where the call is, before and after its step.
LEMMA HolderIs ==
  ASSUME NEW t \in Threads, NEW p \in Players, p = Player(t), Ready(t),
         ApiStep(t) \/ Timeout(t)
  PROVE  /\ \A pcs, ops : Held(p, pcs, ops) <=> call[t].pc \in pcs /\ call[t].op \in ops
         /\ call'[t].pc \in LockPcs => /\ Holder(p)' = t
              /\ \A pcs, ops : Held(p, pcs, ops)' <=> call'[t].pc \in pcs /\ call[t].op \in ops
         /\ UNCHANGED <<cur_state, wpc, events, pcm_owner>>
<1>1. \A pcs, ops : Held(p, pcs, ops) <=> call[t].pc \in pcs /\ call[t].op \in ops
  BY HeldBy DEF Ready
<1>2. /\ UNCHANGED <<cur_state, wpc, events, pcm_owner>>
      /\ call'[t].pc # "none" => call'[t].op = call[t].op /\ Player(t)' = p
  BY CallFrame DEF Ready, Player
<1>3. ASSUME call'[t].pc \in LockPcs
      PROVE  /\ Holder(p)' = t
             /\ \A pcs, ops : Held(p, pcs, ops)' <=> call'[t].pc \in pcs /\ call[t].op \in ops
  <2>1. LockInv'
    BY LockCall DEF Ready
  <2>2. Holder(p)' = t
    BY <1>2, <1>3, <2>1 DEF LockInv, MutexInv, LockPcs, Holder
  <2> QED  BY <1>2, <1>3, <2>2 DEF Held, LockPcs, Holder
<1> QED  BY <1>1, <1>2, <1>3

\* The state decides whether the command is given.
LEMMA CheckKeeps ==
  ASSUME NEW t \in Threads, NEW p \in Players, p = Player(t), Ready(t), ApiStep(t), Check(t)
  PROVE  StartingInv(p)' /\ StoppingInv(p)' /\ HaltingInv(p)'
<1> DEFINE f == call[t]
           g == call'[t]
<1>1. /\ f.pc = "check" /\ event' = event /\ ~g.acked
      /\ \/ g.pc = "post" /\ f.op \in StopOps /\ cur_state[p] # "IDLE"
         \/ g.pc = "post" /\ f.op = "resume"
         \/ g.pc = "post" /\ f.op \in HaltOps /\ cur_state[p] = "PLAY"
         \/ g.pc = "clear" /\ f.op \in StopOps /\ cur_state[p] = "IDLE"
         \/ g.pc = "unlock" /\ f.op \notin StopOps
  BY DEF Check, At, Move, Ready, TypeOK, Frames, Commandable, Stops, StartOps, StopOps, HaltOps,
         AllOps, LockInv, FrameInv, InCall
<1>2. /\ \A pcs, ops : Held(p, pcs, ops) <=> f.pc \in pcs /\ f.op \in ops
      /\ \A pcs, ops : Held(p, pcs, ops)' <=> g.pc \in pcs /\ f.op \in ops
      /\ Holder(p)' = t /\ UNCHANGED <<cur_state, wpc, events, pcm_owner>>
  BY <1>1, HolderIs DEF LockPcs
<1>3. /\ StartingInv(p) /\ StoppingInv(p) /\ HaltingInv(p) /\ f.op \in AllOps
      /\ wpc[p] \in WorkerPcs /\ cur_state[p] \in States
      /\ event[p] \subseteq Commands \cup Acks
  BY DEF Ready, LockInv, FrameInv, InCall, LockPcs, TypeOK
<1>4. WhereInv
  BY DEF Ready
<1> HIDE DEF f, g
<1> USE DEF Resting, Begun, Starting, StartingInv, StoppingInv, HaltingInv, HaltingPcs, Quiet,
        Taken, Command, Answer, IdlePcs, ScanPcs, StartPcs, PlayPcs, HaltPcs, StopPcs, Commands,
        Acks, WorkerPcs, States, WhereInv, AllOps, StartOps, StopOps, HaltOps
<1>5. StartingInv(p)'
  BY <1>1, <1>2, <1>3, <1>4
<1>6. StoppingInv(p)'
  BY <1>1, <1>2, <1>3, <1>4
<1>7. HaltingInv(p)'
  BY <1>1, <1>2, <1>3, <1>4 DEF g
<1> QED  BY <1>5, <1>6, <1>7

\* A command is posted.
LEMMA PostKeeps ==
  ASSUME NEW t \in Threads, NEW p \in Players, p = Player(t), Ready(t), FreshInv,
         ApiStep(t), Post(t)
  PROVE  StartingInv(p)' /\ StoppingInv(p)' /\ HaltingInv(p)'
<1> DEFINE f == call[t]
           g == call'[t]
<1>1. /\ f.pc \in {"post", "post_start"} /\ ~g.acked
      /\ event' = [event EXCEPT ![p] = @ \cup {CommandOf(t)}]
      /\ g.pc = IF f.pc = "post_start" THEN "wait_start"
                ELSE IF f.op = "resume" THEN "unlock" ELSE "wait"
  BY DEF Post, At, Ready, TypeOK, Frames, SetEvent
<1>2. /\ event'[p] = event[p] \cup {CommandOf(t)}
      /\ CommandOf(t) = IF f.pc = "post_start" THEN "START" ELSE IF f.op \in StopOps THEN "STOP"
                        ELSE IF f.op \in HaltOps THEN Command(f.op) ELSE "RESUME"
  BY <1>1 DEF Ready, TypeOK, CommandOf, At, Stops, StartOps, StopOps, HaltOps, AllOps, LockInv,
              FrameInv, InCall, LockPcs, Command
<1>3. f.pc = "post_start" => Resting(p) /\ event[p] \cap Commands = {} /\ f.op \in StartOps
  BY DEF FreshInv, FreshPcs, Ready, LockInv, CommonInv, FrameInv, StartOps
<1>4. /\ \A pcs, ops : Held(p, pcs, ops) <=> f.pc \in pcs /\ f.op \in ops
      /\ \A pcs, ops : Held(p, pcs, ops)' <=> g.pc \in pcs /\ f.op \in ops
      /\ Holder(p)' = t /\ UNCHANGED <<cur_state, wpc, events, pcm_owner>>
  BY <1>1, <1>2, <1>3, HolderIs DEF LockPcs
<1>5. /\ StartingInv(p) /\ StoppingInv(p) /\ HaltingInv(p) /\ f.op \in AllOps
      /\ wpc[p] \in WorkerPcs /\ cur_state[p] \in States
      /\ event[p] \subseteq Commands \cup Acks
  BY DEF Ready, LockInv, FrameInv, InCall, LockPcs, TypeOK
<1>6. WhereInv
  BY DEF Ready
<1> HIDE DEF f, g
<1> USE DEF Resting, Begun, Starting, StartingInv, StoppingInv, HaltingInv, HaltingPcs, Quiet,
        Taken, Command, Answer, IdlePcs, ScanPcs, StartPcs, PlayPcs, HaltPcs, StopPcs, Commands,
        Acks, WorkerPcs, States, WhereInv, AllOps, StartOps, StopOps, HaltOps
<1>7. StartingInv(p)'
  BY <1>1, <1>2, <1>3, <1>4, <1>5, <1>6
<1>8. StoppingInv(p)'
  BY <1>1, <1>2, <1>3, <1>4, <1>5, <1>6
<1>9. HaltingInv(p)'
  BY <1>1, <1>2, <1>3, <1>4, <1>5, <1>6 DEF g
<1> QED  BY <1>7, <1>8, <1>9

\* An answer is taken by the call that waits for it.
LEMMA WaitKeeps ==
  ASSUME NEW t \in Threads, NEW p \in Players, p = Player(t), Ready(t), ApiStep(t), Wait(t)
  PROVE  StartingInv(p)' /\ StoppingInv(p)' /\ HaltingInv(p)'
<1> DEFINE f == call[t]
           g == call'[t]
<1>1. /\ f.pc \in {"wait", "wait_start"} /\ event' = [event EXCEPT ![p] = @ \ AcksOf(t)]
      /\ event[p] \cap AcksOf(t) # {}
      /\ g.pc = IF f.pc = "wait_start" THEN "unlock_start"
                ELSE IF f.op \in StopOps THEN "clear" ELSE "unlock"
  BY DEF Wait, At, Ready, TypeOK, Frames, TakeEvent, AfterWait, Stops, StopOps
<1>2. event'[p] = event[p] \ AcksOf(t)
  BY <1>1 DEF Ready, TypeOK
<1>3. /\ f.pc = "wait_start" => AcksOf(t) = {"START_DONE"}
      /\ f.pc = "wait" /\ f.op \in StopOps => AcksOf(t) = {"STOP_DONE"}
      /\ f.pc = "wait" /\ f.op \notin StopOps =>
           f.op \in HaltOps /\ AcksOf(t) = {Answer(f.op), "STOP_DONE"}
  BY <1>1
  DEF AcksOf, At, Ready, LockInv, FrameInv, InCall, Stops, StartOps, StopOps, HaltOps, AllOps,
      Answer
<1>4. /\ "STOP_DONE" \in event[p] => wpc[p] \in {"idle_wait", "idle_left"}
      /\ f.pc = "wait_start" => f.op \in StartOps
      /\ pcm_owner = p => wpc[p] \notin {"idle_wait", "idle_left"}
  BY DEF Ready, StopDoneInv, OwnerInv, LockInv, FrameInv
<1>5. /\ \A pcs, ops : Held(p, pcs, ops) <=> f.pc \in pcs /\ f.op \in ops
      /\ \A pcs, ops : Held(p, pcs, ops)' <=> g.pc \in pcs /\ f.op \in ops
      /\ Holder(p)' = t /\ UNCHANGED <<cur_state, wpc, events, pcm_owner>>
  BY <1>1, <1>2, <1>3, <1>4, HolderIs DEF LockPcs
<1>6. /\ StartingInv(p) /\ StoppingInv(p) /\ HaltingInv(p) /\ f.op \in AllOps
      /\ wpc[p] \in WorkerPcs /\ cur_state[p] \in States
      /\ event[p] \subseteq Commands \cup Acks
  BY DEF Ready, LockInv, FrameInv, InCall, LockPcs, TypeOK
<1>7. WhereInv
  BY DEF Ready
<1> HIDE DEF f, g
<1> USE DEF Resting, Begun, Starting, StartingInv, StoppingInv, HaltingInv, HaltingPcs, Quiet,
        Taken, Command, Answer, IdlePcs, ScanPcs, StartPcs, PlayPcs, HaltPcs, StopPcs, Commands,
        Acks, WorkerPcs, States, WhereInv, AllOps, StartOps, StopOps, HaltOps
<1>8. StartingInv(p)'
  BY <1>1, <1>2, <1>3, <1>4, <1>5, <1>6, <1>7
<1>9. StoppingInv(p)'
  BY <1>1, <1>2, <1>3, <1>4, <1>5, <1>6, <1>7
<1>10. HaltingInv(p)'
  BY <1>1, <1>2, <1>3, <1>4, <1>5, <1>6, <1>7 DEF g
<1> QED  BY <1>8, <1>9, <1>10

\* A wait that nobody can answer is the wait of a start whose session is over.
LEMMA Starving ==
  ASSUME NEW t \in Threads, NEW p \in Players, p = Player(t), Ready(t), Starved(t)
  PROVE  At(t, "wait_start") /\ wpc[p] = "idle_wait"
<1> DEFINE f == call[t]
<1>1. /\ f.pc \in {"wait", "wait_start"} /\ event[p] \cap AcksOf(t) = {} /\ AtRest(p)
      /\ (f.pc = "wait_start" <=> At(t, "wait_start"))
  BY DEF Starved, At
<1>2. /\ f.pc = "wait_start" => AcksOf(t) = {"START_DONE"} /\ f.op \in StartOps
      /\ f.pc = "wait" /\ f.op \in StopOps => AcksOf(t) = {"STOP_DONE"}
      /\ f.pc = "wait" /\ f.op \notin StopOps =>
           f.op \in HaltOps /\ AcksOf(t) = {Answer(f.op), "STOP_DONE"}
  BY <1>1
  DEF AcksOf, At, Ready, LockInv, FrameInv, InCall, Stops, StartOps, StopOps, HaltOps, AllOps,
      Answer
<1>3. /\ \A pcs, ops : Held(p, pcs, ops) <=> f.pc \in pcs /\ f.op \in ops
      /\ StartingInv(p) /\ StoppingInv(p) /\ HaltingInv(p) /\ f.op \in AllOps /\ WhereInv
  BY <1>1, HeldBy DEF Ready, LockPcs, LockInv, FrameInv, InCall
<1> HIDE DEF f
<1> USE DEF Resting, Begun, Starting, HaltingPcs, AtRest, IdlePcs, ScanPcs, StartPcs, PlayPcs,
        HaltPcs, StopPcs, WhereInv, AllOps, StartOps, StopOps, HaltOps
<1>4. f.pc = "wait_start" => wpc[p] = "idle_wait"
  BY <1>1, <1>2, <1>3 DEF StartingInv
<1>5. ~(f.pc = "wait" /\ f.op \in StopOps)
  BY <1>1, <1>2, <1>3 DEF StoppingInv
<1>6. ~(f.pc = "wait" /\ f.op \in HaltOps)
  BY <1>1, <1>2, <1>3 DEF StoppingInv, HaltingInv
<1> QED  BY <1>1, <1>2, <1>4, <1>5, <1>6

\* A wait that gives up, if it could not be answered, is this one.
LEMMA TimeoutKeeps ==
  ASSUME NEW t \in Threads, NEW p \in Players, p = Player(t), Ready(t), Timeout(t), timeouts' = 0
  PROVE  StartingInv(p)' /\ StoppingInv(p)' /\ HaltingInv(p)'
<1> DEFINE f == call[t]
           g == call'[t]
<1>1. Starved(t) /\ event' = event /\ g.pc = AfterWait(t)
  BY DEF Timeout, Ready, TypeOK, Frames
<1>2. /\ f.pc = "wait_start" /\ wpc[p] = "idle_wait" /\ "START" \notin event[p]
      /\ "START_DONE" \notin event[p] /\ g.pc = "unlock_start" /\ f.op \in StartOps
  BY <1>1, Starving DEF At, AfterWait, Starved, AcksOf, AtRest, Ready, LockInv, FrameInv
<1>3. /\ \A pcs, ops : Held(p, pcs, ops) <=> f.pc \in pcs /\ f.op \in ops
      /\ \A pcs, ops : Held(p, pcs, ops)' <=> g.pc \in pcs /\ f.op \in ops
      /\ Holder(p)' = t /\ UNCHANGED <<cur_state, wpc, events, pcm_owner>>
  BY <1>1, <1>2, HolderIs DEF LockPcs
<1>4. /\ StartingInv(p) /\ StoppingInv(p) /\ HaltingInv(p) /\ f.op \in AllOps
      /\ wpc[p] \in WorkerPcs /\ cur_state[p] \in States
      /\ event[p] \subseteq Commands \cup Acks
  BY DEF Ready, LockInv, FrameInv, InCall, LockPcs, TypeOK
<1>5. WhereInv
  BY DEF Ready
<1> HIDE DEF f, g
<1> USE DEF Resting, Begun, Starting, StartingInv, StoppingInv, HaltingInv, HaltingPcs, Quiet,
        Taken, Command, Answer, IdlePcs, ScanPcs, StartPcs, PlayPcs, HaltPcs, StopPcs, Commands,
        Acks, WorkerPcs, States, WhereInv, AllOps, StartOps, StopOps, HaltOps
<1>6. StartingInv(p)'
  BY <1>1, <1>2, <1>3, <1>4, <1>5
<1>7. StoppingInv(p)'
  BY <1>1, <1>2, <1>3, <1>4, <1>5
<1>8. HaltingInv(p)'
  BY <1>1, <1>2, <1>3, <1>4, <1>5 DEF g
<1> QED  BY <1>6, <1>7, <1>8

\* A stop ends with no bit left.
LEMMA ClearKeeps ==
  ASSUME NEW t \in Threads, NEW p \in Players, p = Player(t), Ready(t), ApiStep(t), Clear(t)
  PROVE  StartingInv(p)' /\ StoppingInv(p)' /\ HaltingInv(p)'
<1> DEFINE f == call[t]
           g == call'[t]
<1>1. /\ f.pc = "clear" /\ g.pc = "unlock" /\ event' = [event EXCEPT ![p] = {}]
      /\ f.op \in StopOps
  BY DEF Clear, At, Move, Ready, TypeOK, Frames, LockInv, FrameInv
<1>2. event'[p] = {}
  BY <1>1 DEF Ready, TypeOK
<1>3. /\ \A pcs, ops : Held(p, pcs, ops) <=> f.pc \in pcs /\ f.op \in ops
      /\ \A pcs, ops : Held(p, pcs, ops)' <=> g.pc \in pcs /\ f.op \in ops
      /\ Holder(p)' = t /\ UNCHANGED <<cur_state, wpc, events, pcm_owner>>
  BY <1>1, <1>2, HolderIs DEF LockPcs
<1>4. /\ StartingInv(p) /\ StoppingInv(p) /\ HaltingInv(p) /\ f.op \in AllOps
      /\ wpc[p] \in WorkerPcs /\ cur_state[p] \in States
      /\ event[p] \subseteq Commands \cup Acks
  BY DEF Ready, LockInv, FrameInv, InCall, LockPcs, TypeOK
<1>5. WhereInv
  BY DEF Ready
<1> HIDE DEF f, g
<1> USE DEF Resting, Begun, Starting, StartingInv, StoppingInv, HaltingInv, HaltingPcs, Quiet,
        Taken, Command, Answer, IdlePcs, ScanPcs, StartPcs, PlayPcs, HaltPcs, StopPcs, Commands,
        Acks, WorkerPcs, States, WhereInv, AllOps, StartOps, StopOps, HaltOps
<1>6. StartingInv(p)'
  BY <1>1, <1>2, <1>3, <1>4, <1>5
<1>7. StoppingInv(p)'
  BY <1>1, <1>2, <1>3, <1>4, <1>5
<1>8. HaltingInv(p)'
  BY <1>1, <1>2, <1>3, <1>4, <1>5 DEF g
<1> QED  BY <1>6, <1>7, <1>8


\* A call gives the lock back when nothing of it is pending.
LEMMA UnlockKeeps ==
  ASSUME NEW t \in Threads, NEW p \in Players, p = Player(t), Ready(t), ApiStep(t), Unlock(t)
  PROVE  StartingInv(p)' /\ StoppingInv(p)' /\ HaltingInv(p)'
<1>1. call[t].pc = "unlock" /\ event' = event /\ Holder(p)' = NONE
  BY DEF Unlock, At, Ready, TypeOK, Holder
<1>2. \A pcs, ops : /\ Held(p, pcs, ops) <=> call[t].pc \in pcs /\ call[t].op \in ops
                    /\ ~Held(p, pcs, ops)'
  BY <1>1, HolderIs, ThreadsAssumption DEF Held, Threads
<1>3. UNCHANGED <<cur_state, wpc, events, pcm_owner>>
  BY CallFrame DEF Ready
<1>4. StartingInv(p) /\ StoppingInv(p) /\ HaltingInv(p)
  BY DEF Ready
<1> USE DEF Resting, Begun, Starting, HaltOps
<1>5. StartingInv(p)'
  BY <1>1, <1>2, <1>3, <1>4 DEF StartingInv
<1>6. StoppingInv(p)'
  BY <1>1, <1>2, <1>3, <1>4 DEF StoppingInv
<1>7. HaltingInv(p)'
  BY <1>1, <1>2, <1>3, <1>4 DEF HaltingInv, Quiet, Taken, HaltingPcs
<1> QED  BY <1>5, <1>6, <1>7

\* The bits of a player change only when a command is given, answered or cleared.
LEMMA BitsKept ==
  ASSUME NEW t \in Threads, ApiStep(t) \/ Timeout(t),
         call[t].pc \notin {"post", "post_start", "clear", "wait", "wait_start"}
  PROVE  UNCHANGED event
BY DEF ApiStep, Timeout, At, CommonLock, Lock, Check, Post, Wait, Clear, Unlock, Setup,
       UnlockStart, CommonUnlock, Poll

\* The start that is about to post START still finds the player at rest.
LEMMA FreshStart ==
  ASSUME TypeOK, LockInv, FreshInv, NEW t \in Threads, ApiStep(t) \/ Timeout(t),
         StoppingInv(Player(t)), g_common_mutex' = t, call'[t].pc \in FreshPcs
  PROVE  FreshInv'
<1> DEFINE p == Player(t)
<1> USE ThreadsAssumption
<1>1. /\ call[t].op \in StartOps /\ Player(t)' = p /\ p \in Players /\ t # NONE
      /\ call[t].pc # "common" /\ g_common_mutex = t
  BY CallFrame, Moves, LockCall
     DEF LockInv, CommonInv, FrameInv, FreshPcs, Player, InCall, Threads
<1>2. <<call[t].pc, call'[t].pc>> \in {<<"relock", "setup">>, <<"clear", "unlock">>,
                                       <<"setup", "post_start">>, <<"unlock", "relock">>}
  BY <1>1, Moves DEF FreshPcs, StartOps, StopOps
<1>3. Resting(p)' <=> Resting(p)
  BY <1>1, CallFrame DEF Resting
<1>4. Resting(p) /\ event'[p] \cap Commands = {}
  <2>1. CASE call[t].pc = "clear"
    <3>1. Held(p, {"clear"}, StopOps)
      BY <1>1, <2>1, HeldBy DEF LockPcs, StopOps
    <3>2. Clear(t)
      BY <2>1 DEF ApiStep, Timeout, At, CommonLock, Lock, Check, Post, Wait, Clear, Unlock, Setup,
                  UnlockStart, CommonUnlock, Poll
    <3> QED  BY <1>1, <3>1, <3>2 DEF Clear, StoppingInv, TypeOK
  <2>2. CASE call[t].pc \in FreshPcs
    <3>1. UNCHANGED event
      BY <1>2, <2>2, BitsKept DEF FreshPcs
    <3> QED  BY <1>1, <2>2, <3>1 DEF FreshInv
  <2> QED  BY <1>2, <2>1, <2>2 DEF FreshPcs
<1>5. Holder(p)' \in Threads => Holder(p)' = t
  <2>1. CASE call'[t].pc = "relock"
    BY <1>1, <1>2, <2>1, Moves DEF Holder, TypeOK, Threads
  <2>2. CASE call'[t].pc \in LockPcs
    BY <1>1, <2>2, LockCall DEF LockInv, MutexInv
  <2> QED  BY <1>2, <2>1, <2>2 DEF LockPcs
<1>6. call'[t].pc \in {"check", "clear", "unlock", "setup", "post_start"} \/ Holder(p)' = NONE
  BY <1>1, <1>2, Moves DEF Holder, TypeOK
<1> QED  BY <1>1, <1>3, <1>4, <1>5, <1>6 DEF FreshInv, Threads, Holder

\* Nobody else commands the player meanwhile.
LEMMA FreshOther ==
  ASSUME TypeOK, WhereInv, LockInv, FreshInv, NEW t \in Threads, ApiStep(t) \/ Timeout(t),
         g_common_mutex' # t
  PROVE  FreshInv'
<1> DEFINE h == g_common_mutex
           p == Player(h)
<1> USE ThreadsAssumption
<1>1. SUFFICES ASSUME h' \in Threads, call'[h'].pc \in FreshPcs
               PROVE  /\ Resting(p)' /\ event'[p'] \cap Commands = {}
                      /\ Holder(p)' \in Threads =>
                           (call[Holder(p)])'.pc \in {"check", "clear", "unlock", "setup",
                                                      "post_start"}
  BY DEF FreshInv
<1>2. h' = h /\ h \in Threads /\ h # t /\ call'[h] = call[h] /\ p' = p /\ p \in Players
  BY <1>1, CallFrame, Moves DEF Player, LockInv, FrameInv, InCall, FreshPcs, Threads
<1>3. /\ Resting(p) /\ event[p] \cap Commands = {} /\ wpc' = wpc
      /\ Holder(p) \in Threads =>
           call[Holder(p)].pc \in {"check", "clear", "unlock", "setup", "post_start"}
  BY <1>1, <1>2, CallFrame DEF FreshInv
<1>4. CASE Player(t) # p
  BY <1>2, <1>3, <1>4, CallFrame, OtherHolders DEF Resting, Holder
<1>5. CASE Player(t) = p
  <2> DEFINE f == call[t]
  <2>1. f.op \notin StartOps \/ f.pc \in {"common", "poll"}
    BY <1>2, CallFrame DEF LockInv, CommonInv
  <2>2. f.pc \in {"lock", "check", "clear", "unlock", "poll"}
    <3>1. f.pc \in LockPcs => Holder(p) = t
      BY <1>5 DEF LockInv, MutexInv
    <3>2. f.pc \in LockPcs => f.pc \in {"check", "clear", "unlock", "setup", "post_start"}
      BY <1>3, <3>1
    <3>3. f.pc \notin {"common", "uncommon", "none"}
      <4>1. f.pc # "common"
        BY <1>2, Moves DEF Threads
      <4>2. f.pc # "uncommon"
        BY <2>1 DEF LockInv, FrameInv
      <4> QED  BY <4>1, <4>2, CallFrame
    <3> QED  BY <2>1, <3>2, <3>3 DEF LockInv, FrameInv, LockPcs, TypeOK, Frames, ApiPcs
  <2>3. event'[p] \cap Commands = {}
    <3>1. CASE f.pc = "clear"
      <4>1. Clear(t)
        BY <3>1
        DEF ApiStep, Timeout, At, CommonLock, Lock, Check, Post, Wait, Clear, Unlock, Setup,
            UnlockStart, CommonUnlock, Poll
      <4> QED  BY <1>2, <1>5, <4>1 DEF Clear, TypeOK
    <3>2. CASE f.pc # "clear"
      BY <1>3, <2>2, <3>2, BitsKept
    <3> QED  BY <3>1, <3>2
  <2>4. call'[t].pc \in LockPcs => call'[t].pc \in {"check", "clear", "unlock"}
    <3>1. CASE f.pc = "check"
      <4>1. Check(t)
        BY <3>1
        DEF ApiStep, Timeout, At, CommonLock, Lock, Check, Post, Wait, Clear, Unlock, Setup,
            UnlockStart, CommonUnlock, Poll
      <4>2. cur_state[p] = "IDLE"
        BY <1>2, <1>3 DEF WhereInv, Resting, IdlePcs
      <4>3. ~Commandable(t)
        BY <1>5, <4>2 DEF Commandable
      <4> QED  BY <4>1, <4>3 DEF Check, Move, TypeOK, Frames
    <3>2. CASE f.pc # "check"
      BY <2>2, <3>2, Moves DEF LockPcs, StartOps
    <3> QED  BY <3>1, <3>2
  <2>5. Holder(p)' \in Threads \ {t} => Holder(p)' = Holder(p)
    BY <1>2, <1>5, Moves DEF Holder, TypeOK, Threads
  <2>6. Holder(p)' \in Threads => call'[Holder(p)'].pc \in LockPcs
    BY <1>2, LockCall DEF LockInv, MutexInv
  <2>7. Holder(p)' \in Threads =>
          call'[Holder(p)'].pc \in {"check", "clear", "unlock", "setup", "post_start"}
    BY <1>3, <2>4, <2>5, <2>6, CallFrame
  <2> QED  BY <1>2, <1>3, <2>3, <2>7 DEF Resting, Holder
<1> QED  BY <1>4, <1>5

\* What holds of every player as long as no wait has given up on a worker at work.
Prompt == FreshInv /\ \A p \in Players : StartingInv(p) /\ StoppingInv(p) /\ HaltingInv(p)

PromptInv == timeouts = 0 => Prompt

\* What the steps below may use.
Base == TypeOK /\ WhereInv /\ RegistryInv /\ LockInv /\ OwnerInv /\ StopDoneInv

\* The step of a call, seen by every player.
LEMMA PromptCall ==
  ASSUME Base, Prompt, NEW t \in Threads, ApiStep(t) \/ (Timeout(t) /\ timeouts' = 0)
  PROVE  Prompt'
<1> DEFINE p == Player(t)
<1>1. FreshInv'
  <2>1. p \in Players
    BY CallFrame DEF Base, LockInv, FrameInv, InCall
  <2>2. CASE g_common_mutex' = t /\ g_common_mutex' \in Threads /\ call'[t].pc \in FreshPcs
    BY <2>1, <2>2, FreshStart DEF Base, Prompt
  <2>3. CASE g_common_mutex' # t
    BY <2>3, FreshOther DEF Base, Prompt
  <2> QED  BY <2>2, <2>3 DEF FreshInv
<1>2. ASSUME NEW q \in Players
      PROVE  StartingInv(q)' /\ StoppingInv(q)' /\ HaltingInv(q)'
  <2>1. CASE q # p
    <3>1. /\ UNCHANGED <<cur_state, wpc, events, pcm_owner>> /\ event'[q] = event[q]
      BY <2>1, CallFrame DEF Base
    <3>2. /\ \A pcs, ops : Held(q, pcs, ops)' <=> Held(q, pcs, ops)
          /\ Holder(q) \in Threads => (call[Holder(q)].acked)' = call[Holder(q)].acked
      BY <2>1, OtherHolders DEF Base
    <3>3. StartingInv(q) /\ StoppingInv(q) /\ HaltingInv(q)
      BY DEF Prompt
    <3> QED  BY <3>1, <3>2, <3>3, Unmoved DEF Held
  <2>2. CASE q = p /\ call[t].pc \in LockPcs
    <3>1. Ready(t)
      BY <2>2 DEF Ready, Base, Prompt
    <3>2. CASE Timeout(t) /\ timeouts' = 0
      BY <2>2, <3>1, <3>2, TimeoutKeeps
    <3>3. CASE ApiStep(t) /\ (Check(t) \/ Post(t) \/ Wait(t) \/ Clear(t) \/ Unlock(t))
      BY <2>2, <3>1, <3>3, CheckKeeps, PostKeeps, WaitKeeps, ClearKeeps, UnlockKeeps DEF Prompt
    <3>4. CASE /\ ApiStep(t)
               /\ \/ CommonLock(t) \/ Lock(t) \/ Setup(t)
                  \/ UnlockStart(t) \/ CommonUnlock(t) \/ Poll(t)
      <4>1. call[t].pc \in {"setup", "unlock_start"}
        BY <2>2, <3>4 DEF LockPcs, CommonLock, Lock, Setup, UnlockStart, CommonUnlock, Poll, At
      <4>2. call'[t].pc \notin KeyPcs /\ call[t].pc \notin KeyPcs /\ UNCHANGED event
        BY <3>1, <3>4, <4>1, BitsKept, Moves DEF KeyPcs, Ready
      <4> QED  BY <3>1, <3>4, <4>2, QuietCall DEF Ready
    <3> QED  BY <3>2, <3>3, <3>4 DEF ApiStep
  <2>3. CASE q = p /\ call[t].pc \notin LockPcs
    <3>1. call'[t].pc \notin KeyPcs /\ call[t].pc \notin KeyPcs /\ UNCHANGED event
      BY <2>3, BitsKept, Moves DEF KeyPcs, LockPcs, Base
    <3> QED  BY <3>1, QuietCall DEF Base, Prompt
  <2> QED  BY <2>1, <2>2, <2>3
<1> QED  BY <1>1, <1>2 DEF Prompt

\* A call begins outside of every lock.
LEMMA PromptBegin ==
  ASSUME Base, Prompt, NEW c \in Callers, NEW op \in Ops, NEW r \in Players, Begin(c, op, r)
  PROVE  Prompt'
<1>1. c \in Threads /\ call \in [Threads -> Frames] /\ call[c].pc = "none"
  BY DEF Begin, Threads, Base, TypeOK
<1>2. /\ \A u \in Threads \ {c} : call'[u] = call[u]
      /\ UNCHANGED <<cur_state, wpc, event, events, pcm_owner, mutex_handle, g_common_mutex>>
  BY <1>1 DEF Begin, workerVars, loopVars, audioVars, lockVars
<1>3. \A q \in Players : Holder(q) \in Threads => call'[Holder(q)] = call[Holder(q)]
  BY <1>1, <1>2 DEF Base, LockInv, MutexInv, LockPcs
<1>4. g_common_mutex \in Threads => call'[g_common_mutex] = call[g_common_mutex]
  BY <1>1, <1>2 DEF Base, LockInv, CommonInv
<1>5. g_common_mutex \in Threads /\ call[g_common_mutex].pc \in FreshPcs =>
        Player(g_common_mutex) \in Players
  BY DEF Base, LockInv, FrameInv, InCall, FreshPcs
<1>6. FreshInv'
  BY <1>2, <1>3, <1>4, <1>5 DEF FreshInv, Prompt, Player, Resting, Holder
<1>7. ASSUME NEW q \in Players
      PROVE  StartingInv(q)' /\ StoppingInv(q)' /\ HaltingInv(q)'
  <2>1. /\ \A pcs, ops : Held(q, pcs, ops)' <=> Held(q, pcs, ops)
        /\ Holder(q) \in Threads => (call[Holder(q)].acked)' = call[Holder(q)].acked
    BY <1>2, <1>3 DEF Held, Holder
  <2>2. StartingInv(q) /\ StoppingInv(q) /\ HaltingInv(q)
    BY DEF Prompt
  <2> QED  BY <1>2, <2>1, <2>2, Unmoved DEF Held
<1> QED  BY <1>6, <1>7 DEF Prompt

\* Who is where, who holds what, and where STOP_DONE is set.
THEOREM BaseCorrect == Spec => []Base
<1>1. Init => StopDoneInv
  BY DEF Init, StopDoneInv
<1>2. TypeOK /\ StopDoneInv /\ [Next]_vars => StopDoneInv'
  BY StopDoneWorker, StopDoneOther, NextSplit
<1>3. Spec => []StopDoneInv
  BY <1>1, <1>2, TypeCorrect, PTL DEF Spec
<1> QED
  BY <1>3, TypeCorrect, WhereCorrect, RegistryCorrect, LockCorrect, OwnerCorrect, PTL DEF Base

\* Nothing is commanded or answered when the program starts.
LEMMA PromptInit == Init => Prompt
<1> SUFFICES ASSUME Init PROVE Prompt
  OBVIOUS
<1> USE ThreadsAssumption
<1>1. \A p \in Players : /\ cur_state[p] = "IDLE" /\ event[p] = {} /\ wpc[p] = "idle_ack"
                         /\ Holder(p) = NONE /\ NONE \notin Threads
  BY DEF Init, Holder, Threads
<1>2. FreshInv
  BY DEF Init, FreshInv, Threads
<1>3. \A p \in Players : \A pcs, ops : ~Held(p, pcs, ops)
  BY <1>1 DEF Held
<1>4. ASSUME NEW p \in Players PROVE StartingInv(p) /\ StoppingInv(p) /\ HaltingInv(p)
  BY <1>1, <1>3
  DEF StartingInv, StoppingInv, HaltingInv, Starting, Begun, Resting, StartPcs, ScanPcs,
      HaltingPcs
<1> QED  BY <1>2, <1>4 DEF Prompt

\* As long as no wait has given up on a worker at work, every command and every
\* answer belongs to the call that waits for it.
THEOREM PromptCorrect == Spec => []PromptInv
<1>1. Base /\ PromptInv /\ [Next]_vars => PromptInv'
  <2> SUFFICES ASSUME Base, timeouts = 0 => Prompt, [Next]_vars, timeouts' = 0 PROVE Prompt'
    BY DEF PromptInv
  <2>1. ASSUME NEW p \in Players, WorkerStep(p) PROVE Prompt'
    <3>1. timeouts = 0
      BY <2>1, WorkerFrame DEF Base
    <3> QED  BY <2>1, <3>1, FreshWorker, PlayersWorker DEF Base, Prompt
  <2>2. ASSUME NEW t \in Threads, ApiStep(t) \/ Timeout(t) PROVE Prompt'
    <3>1. timeouts \in Nat
      BY DEF Base, TypeOK
    <3>2. timeouts = 0
      <4>1. CASE Timeout(t)
        BY <3>1, <4>1 DEF Timeout
      <4>2. CASE ApiStep(t)
        BY <4>2
        DEF ApiStep, CommonLock, Lock, Check, Post, Wait, Clear, Unlock, Setup, UnlockStart,
            CommonUnlock, Poll, countVars
      <4> QED  BY <2>2, <4>1, <4>2
    <3> QED  BY <2>2, <3>2, PromptCall
  <2>3. ASSUME NEW c \in Callers, NEW op \in Ops, NEW p \in Players, Begin(c, op, p) PROVE Prompt'
    <3>1. timeouts = 0
      BY <2>3 DEF Begin
    <3> QED  BY <2>3, <3>1, PromptBegin
  <2>4. CASE UNCHANGED <<cur_state, wpc, event, events, call, mutex_handle, g_common_mutex,
                         pcm_owner, timeouts>>
    <3>1. \A pcs, ops, p : Held(p, pcs, ops)' <=> Held(p, pcs, ops)
      BY <2>4 DEF Held, Holder
    <3>2. FreshInv'
      BY <2>4 DEF Prompt, FreshInv, Resting, Player, Holder
    <3>3. ASSUME NEW q \in Players PROVE StartingInv(q)' /\ StoppingInv(q)' /\ HaltingInv(q)'
      <4>1. StartingInv(q) /\ StoppingInv(q) /\ HaltingInv(q)
        BY <2>4 DEF Prompt
      <4>2. Holder(q)' = Holder(q)
        BY <2>4 DEF Holder
      <4> QED  BY <2>4, <3>1, <4>1, <4>2, Unmoved
    <3> QED  BY <3>2, <3>3 DEF Prompt
  <2> QED  BY <2>1, <2>2, <2>3, <2>4, DeviceFrame, NextSplit DEF OtherStep
<1>2. Init => PromptInv
  BY PromptInit DEF PromptInv
<1> QED  BY <1>1, <1>2, BaseCorrect, PTL DEF Spec

\* The three promises an answer makes are kept: a start finds its player idle with no
\* command pending, a pause or a break returns once the player no longer feeds the
\* device, and a start returns once its session has been decided.
THEOREM AnswersCorrect == Spec => []AnswersKept
<1>1. Base /\ PromptInv => AnswersKept
  <2> SUFFICES ASSUME Base, Prompt PROVE CleanStart /\ HaltAcked /\ StartAcked
    BY DEF PromptInv, AnswersKept
  <2>1. CleanStart
    BY DEF CleanStart, At, Base, LockInv, FrameInv, CommonInv, WhereInv, IdlePcs, Prompt,
        FreshInv, FreshPcs, Resting, StartOps, InCall
  <2>2. HaltAcked
    <3> SUFFICES ASSUME NEW t \in Threads, call[t].pc = "unlock",
                        call[t].op \in HaltOps, call[t].acked
                 PROVE  cur_state[Player(t)] # "PLAY" /\ pcm_owner # Player(t)
      BY DEF HaltAcked, At, HaltOps
    <3>1. Holder(Player(t)) = t /\ Held(Player(t), {"unlock"}, HaltOps) /\ Player(t) \in Players
      BY HeldBy DEF Base, LockPcs
    <3> QED  BY <3>1 DEF Prompt, HaltingInv, Quiet
  <2>3. StartAcked
    <3> SUFFICES ASSUME NEW t \in Threads, call[t].pc = "unlock_start"
                 PROVE  "START" \notin event[Player(t)] /\ cur_state[Player(t)] # "START"
      BY DEF StartAcked, At
    <3>1. /\ ~Held(Player(t), {"wait_start"}, StartOps) /\ Player(t) \in Players
          /\ WhereInv
      BY HeldBy DEF Base, LockPcs
    <3>2. ~Starting(Player(t))
      BY <3>1 DEF Prompt, StartingInv
    <3>3. wpc[Player(t)] \in WorkerPcs
      BY <3>1 DEF Base, TypeOK
    <3> QED
      BY <3>1, <3>2, <3>3
      DEF Starting, Begun, WhereInv, WorkerPcs, IdlePcs, StartPcs, ScanPcs, PlayPcs, HaltPcs,
          StopPcs
  <2> QED  BY <2>1, <2>2, <2>3
<1> QED  BY <1>1, BaseCorrect, PromptCorrect, PTL

\* Only the wait of a start whose session is already over can be left without an answer.
THEOREM StarveCorrect == Spec => []OnlyEndedStartsStarve
<1>1. Base /\ PromptInv => OnlyEndedStartsStarve
  <2> SUFFICES ASSUME Base, Prompt, NEW t \in Threads, Starved(t)
               PROVE  At(t, "wait_start") /\ wpc[Player(t)] = "idle_wait"
    BY DEF PromptInv, OnlyEndedStartsStarve
  <2>1. call[t].pc \in LockPcs
    BY DEF Starved, At, LockPcs
  <2>2. Ready(t) /\ Player(t) \in Players
    BY <2>1, HeldBy DEF Ready, Base, Prompt
  <2> QED  BY <2>2, Starving
<1> QED  BY <1>1, BaseCorrect, PromptCorrect, PTL

-----------------------------------------------------------------------------
(* No registration is lost *)

\* There is a slot for every player.
Fits == Cardinality(Players) <= NumSlots

InRegistry(p) == \E i \in Slots : g_registers[i] = p
Registered(p) == \/ wpc[p] \in {"com_start", "com_wait"}
                 \/ wpc[p] = "start_state" /\ ret[p] = "SUCCESS"
                 \/ cur_state[p] \in {"PLAY", "PAUSE", "BREAK"}

\* The slots that Register has passed belong to as many other players.
Passed(p) == wpc[p] = "register" =>
  \E W \in SUBSET (Players \ {p}) :
    /\ Cardinality(W) = slot[p] - 1
    /\ \A q \in W, i \in Slots : g_registers[i] = q => i < slot[p]
Free(p)   == wpc[p] = "register_write" => g_registers[slot[p]] \in {NONE, p}

RegisterInv == \A p \in Players : Passed(p) /\ Free(p) /\ (Registered(p) => InRegistry(p))

\* The common lock lets one player at a time be started.
LEMMA OneStarter ==
  ASSUME Base, Prompt, NEW p \in Players, NEW q \in Players, Begun(p), Begun(q)
  PROVE  p = q
<1>1. Held(p, {"wait_start"}, StartOps) /\ Held(q, {"wait_start"}, StartOps)
  BY DEF Prompt, StartingInv, Starting
<1>2. /\ Holder(p) \in Threads /\ Holder(p) = g_common_mutex /\ Player(Holder(p)) = p
      /\ Holder(q) \in Threads /\ Holder(q) = g_common_mutex /\ Player(Holder(q)) = q
  BY <1>1 DEF Held, Base, LockInv, CommonInv, MutexInv
<1> QED  BY <1>2

\* Who can change the registry.
LEMMA RegistryMoves ==
  ASSUME NEW p \in Players, WorkerStep(p)
  PROVE  \/ UNCHANGED g_registers
         \/ RegisterWrite(p)
         \/ Unregister(p)
BY DEF WorkerStep, IdleAck, IdleWait, IdleLeft, IdleGo, OpenFile, ScanLook, ScanDeref,
       ScanCall, ScanReturn, Register, ComStart, ComWait, StartState, StartAck,
       PlayWait, PauseCom, PauseState, PauseAck, Monitor, PauseWait, ResumeCom, ResumeState,
       StopCom, StopIdle

\* A player comes to be registered by RegisterWrite, or by finding no slot.
LEMMA Registers ==
  ASSUME TypeOK, WhereInv, NEW p \in Players, WorkerStep(p), Registered(p)'
  PROVE  \/ Registered(p) /\ ~Unregister(p) /\ ~RegisterWrite(p)
         \/ RegisterWrite(p)
         \/ wpc[p] = "register" /\ slot[p] = NumSlots /\ g_registers[slot[p]] \notin {NONE, p}
<1> USE DEF TypeOK, WhereInv, IdlePcs, ScanPcs, StartPcs, PlayPcs, HaltPcs, StopPcs, Slots,
            Step, Goto, SetState, Entry, States, loopVars, Registered
<1>1. CASE IdleAck(p) \/ IdleWait(p) \/ IdleLeft(p) \/ IdleGo(p) \/ OpenFile(p)
  BY <1>1 DEF IdleAck, IdleWait, IdleLeft, IdleGo, OpenFile, Unregister, RegisterWrite
<1>2. CASE ScanLook(p) \/ ScanDeref(p)
  BY <1>2 DEF ScanLook, ScanDeref, ScanNext, ScanDone, Unregister, RegisterWrite
<1>3. CASE ScanCall(p) \/ ScanReturn(p)
  BY <1>3 DEF ScanCall, ScanReturn, ScanNext, ScanDone, Unregister, RegisterWrite
<1>4. CASE Register(p)
  BY <1>4, SlotsAssumption DEF Register
<1>5. CASE RegisterWrite(p) \/ ComStart(p) \/ ComWait(p)
  BY <1>5 DEF RegisterWrite, ComStart, ComWait, Unregister
<1>6. CASE StartState(p) \/ StartAck(p)
  BY <1>6 DEF StartState, StartAck, Unregister, RegisterWrite
<1>7. CASE PlayWait(p) \/ PauseCom(p) \/ PauseState(p) \/ PauseAck(p)
  BY <1>7 DEF PlayWait, PauseCom, PauseState, PauseAck, Halted, Unregister, RegisterWrite
<1>8. CASE Monitor(p) \/ PauseWait(p) \/ ResumeCom(p) \/ ResumeState(p)
  BY <1>8 DEF Monitor, PauseWait, ResumeCom, ResumeState, Unregister, RegisterWrite
<1>9. CASE StopCom(p) \/ Unregister(p) \/ StopIdle(p)
  BY <1>9 DEF StopCom, Unregister, StopIdle
<1> QED  BY <1>1, <1>2, <1>3, <1>4, <1>5, <1>6, <1>7, <1>8, <1>9 DEF WorkerStep

\* The other players leave each other their slots.
LEMMA OthersSlot ==
  ASSUME Base, Prompt, RegisterInv, NEW p \in Players, WorkerStep(p), NEW q \in Players, q # p
  PROVE  /\ InRegistry(q) => InRegistry(q)'
         /\ \A i \in Slots, r \in Players \ {p} : g_registers'[i] = r => g_registers[i] = r
         /\ Begun(q) => \A i \in Slots : g_registers'[i] \in {g_registers[i], NONE}
<1> USE ThreadsAssumption
<1>1. CASE UNCHANGED g_registers
  BY <1>1 DEF InRegistry
<1>2. CASE RegisterWrite(p)
  <2>1. Begun(p)
    BY <1>2 DEF RegisterWrite, Step, Begun, StartPcs
  <2>2. /\ g_registers' = [g_registers EXCEPT ![slot[p]] = p] /\ slot[p] \in Slots
        /\ g_registers[slot[p]] \in {NONE, p} /\ g_registers \in [Slots -> Players \cup {NONE}]
    BY <1>2 DEF RegisterWrite, Step, RegisterInv, Free, Base, TypeOK
  <2> QED  BY <2>1, <2>2, OneStarter DEF InRegistry
<1>3. CASE Unregister(p)
  BY <1>3 DEF Unregister, FirstSlotOf, InRegistry
<1> QED  BY <1>1, <1>2, <1>3, RegistryMoves

\* Register goes through the slots of the others, and there is one slot more.
LEMMA RegisterFits ==
  ASSUME TypeOK, RegistryInv, Fits, NEW p \in Players, Passed(p), wpc[p] = "register",
         g_registers[slot[p]] \notin {NONE, p}
  PROVE  /\ slot[p] < NumSlots
         /\ \E W \in SUBSET (Players \ {p}) :
              /\ Cardinality(W) = slot[p]
              /\ \A q \in W, i \in Slots : g_registers[i] = q => i < slot[p] + 1
<1> DEFINE r == g_registers[slot[p]]
<1>1. r \in Players \ {p} /\ slot[p] \in Slots /\ slot[p] \in Nat
  BY DEF TypeOK, Slots
<1>2. PICK W \in SUBSET (Players \ {p}) :
           /\ Cardinality(W) = slot[p] - 1
           /\ \A q \in W, i \in Slots : g_registers[i] = q => i < slot[p]
  BY DEF Passed
<1>3. r \notin W /\ W \cup {r} \in SUBSET (Players \ {p})
  BY <1>1, <1>2
<1>4. IsFiniteSet(Players \ {p}) /\ Cardinality(Players \ {p}) = Cardinality(Players) - 1
  BY PlayersAssumption, FS_RemoveElement
<1>5. IsFiniteSet(W) /\ IsFiniteSet(W \cup {r})
  BY <1>2, <1>3, <1>4, FS_Subset
<1>6. Cardinality(W \cup {r}) = slot[p]
  <2>1. Cardinality(W \cup {r}) = Cardinality(W) + 1
    BY <1>3, <1>5, FS_AddElement
  <2> QED  BY <1>1, <1>2, <2>1
<1>7. \A q \in W \cup {r}, i \in Slots : g_registers[i] = q => i < slot[p] + 1
  <2>1. \A i \in Slots : g_registers[i] = r => i = slot[p]
    BY <1>1 DEF RegistryInv
  <2> QED  BY <1>1, <1>2, <2>1 DEF Slots
<1>8. slot[p] < NumSlots
  <2>1. Cardinality(W \cup {r}) <= Cardinality(Players \ {p})
    BY <1>3, <1>4, FS_Subset
  <2>2. Cardinality(Players) \in Nat
    BY PlayersAssumption, FS_CardinalityType
  <2> QED  BY <1>1, <1>4, <1>6, <2>1, <2>2, SlotsAssumption DEF Fits
<1> QED  BY <1>3, <1>6, <1>7, <1>8

\* How a player comes to look for its slot, and to find it.
LEMMA Searches ==
  ASSUME TypeOK, WhereInv, NEW p \in Players, WorkerStep(p)
  PROVE  /\ wpc'[p] = "register" =>
              /\ UNCHANGED g_registers
              /\ \/ slot'[p] = 1
                 \/ /\ wpc[p] = "register" /\ slot'[p] = slot[p] + 1
                    /\ g_registers[slot[p]] \notin {NONE, p}
         /\ wpc'[p] = "register_write" =>
              UNCHANGED g_registers /\ g_registers[slot'[p]] \in {NONE, p}
<1> USE DEF TypeOK, Step, Goto, Entry, loopVars
<1>1. CASE ScanLook(p) \/ ScanDeref(p)
  BY <1>1 DEF ScanLook, ScanDeref, ScanNext, ScanDone
<1>2. CASE ScanCall(p) \/ ScanReturn(p)
  BY <1>2 DEF ScanCall, ScanReturn, ScanNext, ScanDone
<1>3. CASE Register(p)
  BY <1>3 DEF Register
<1>4. CASE IdleAck(p) \/ IdleWait(p) \/ IdleLeft(p) \/ IdleGo(p) \/ OpenFile(p)
  BY <1>4 DEF IdleAck, IdleWait, IdleLeft, IdleGo, OpenFile
<1>5. CASE RegisterWrite(p) \/ ComStart(p) \/ ComWait(p) \/ StartState(p) \/ StartAck(p)
  BY <1>5 DEF RegisterWrite, ComStart, ComWait, StartState, StartAck
<1>6. CASE PlayWait(p) \/ PauseCom(p) \/ PauseState(p) \/ PauseAck(p) \/ Monitor(p) \/ PauseWait(p)
  BY <1>6 DEF PlayWait, PauseCom, PauseState, PauseAck, Monitor, PauseWait
<1>7. CASE ResumeCom(p) \/ ResumeState(p) \/ StopCom(p) \/ Unregister(p) \/ StopIdle(p)
  BY <1>7 DEF ResumeCom, ResumeState, StopCom, Unregister, StopIdle
<1> QED  BY <1>1, <1>2, <1>3, <1>4, <1>5, <1>6, <1>7 DEF WorkerStep

\* A worker finds a slot for its player and keeps it until it unregisters.
LEMMA RegisterOwn ==
  ASSUME Base, RegisterInv, Fits, NEW p \in Players, WorkerStep(p)
  PROVE  Passed(p)' /\ Free(p)' /\ (Registered(p)' => InRegistry(p)')
<1> USE ThreadsAssumption
<1>1. Passed(p)'
  <2> SUFFICES ASSUME wpc'[p] = "register"
               PROVE  \E W \in SUBSET (Players \ {p}) :
                        /\ Cardinality(W) = slot'[p] - 1
                        /\ \A q \in W, i \in Slots : g_registers'[i] = q => i < slot'[p]
    BY DEF Passed
  <2>1. CASE slot'[p] = 1
    BY <2>1, FS_EmptySet
  <2>2. CASE /\ wpc[p] = "register" /\ slot'[p] = slot[p] + 1 /\ UNCHANGED g_registers
             /\ g_registers[slot[p]] \notin {NONE, p}
    <3>1. PICK W \in SUBSET (Players \ {p}) :
            /\ Cardinality(W) = slot[p]
            /\ \A q \in W, i \in Slots : g_registers[i] = q => i < slot[p] + 1
      BY <2>2, RegisterFits DEF Base, RegisterInv
    <3>2. slot[p] \in Nat
      BY DEF Base, TypeOK, Slots
    <3> QED  BY <2>2, <3>1, <3>2
  <2> QED  BY <2>1, <2>2, Searches DEF Base
<1>2. Free(p)'
  BY Searches DEF Base, Free
<1>3. ASSUME Registered(p)' PROVE InRegistry(p)'
  <2>1. CASE Registered(p) /\ ~Unregister(p) /\ ~RegisterWrite(p)
    BY <2>1, RegistryMoves DEF RegisterInv, InRegistry
  <2>2. CASE RegisterWrite(p)
    BY <2>2 DEF RegisterWrite, Base, TypeOK, InRegistry
  <2>3. CASE wpc[p] = "register" /\ slot[p] = NumSlots /\ g_registers[slot[p]] \notin {NONE, p}
    BY <2>3, RegisterFits, SlotsAssumption DEF Base, RegisterInv
  <2> QED  BY <1>3, <2>1, <2>2, <2>3, Registers DEF Base
<1> QED  BY <1>1, <1>2, <1>3

\* No other worker takes the slot.
LEMMA RegisterOther ==
  ASSUME Base, Prompt, RegisterInv, NEW p \in Players, WorkerStep(p), NEW q \in Players, q # p
  PROVE  Passed(q)' /\ Free(q)' /\ (Registered(q)' => InRegistry(q)')
<1>1. /\ cur_state'[q] = cur_state[q] /\ wpc'[q] = wpc[q] /\ slot'[q] = slot[q] /\ ret'[q] = ret[q]
  BY WorkerFrame DEF Base
<1>2. /\ InRegistry(q) => InRegistry(q)'
      /\ Begun(q) => \A i \in Slots : g_registers'[i] \in {g_registers[i], NONE}
  BY OthersSlot
<1>3. slot[q] \in Slots
  BY DEF Base, TypeOK
<1>4. Passed(q)'
  <2> SUFFICES ASSUME wpc[q] = "register" PROVE Passed(q)'
    BY <1>1 DEF Passed
  <2>1. PICK W \in SUBSET (Players \ {q}) :
             /\ Cardinality(W) = slot[q] - 1
             /\ \A r \in W, i \in Slots : g_registers[i] = r => i < slot[q]
    BY DEF RegisterInv, Passed
  <2>2. \A r \in W, i \in Slots : g_registers'[i] = r => i < slot[q]
    BY <1>2, <2>1, ThreadsAssumption DEF Begun, StartPcs
  <2> QED  BY <1>1, <2>1, <2>2 DEF Passed
<1>5. Free(q)'
  BY <1>1, <1>2, <1>3 DEF RegisterInv, Free, Begun, StartPcs
<1>6. Registered(q)' => InRegistry(q)'
  BY <1>1, <1>2 DEF RegisterInv, Registered
<1> QED  BY <1>4, <1>5, <1>6

\* Only a worker, or a call, or the devices take a step; a worker's alone touches these.
LEMMA OtherFrame ==
  ASSUME Base, OtherStep
  PROVE  UNCHANGED <<cur_state, wpc, g_registers, slot, ret, pcm_owner>>
BY CallFrame, DeviceFrame DEF Base, OtherStep, Begin, workerVars, loopVars, audioVars

VisibleInv == timeouts = 0 => RegisterInv

\* No wait takes back that it has given up.
LEMMA TimeoutsGrow ==
  ASSUME Base, [Next]_vars, timeouts' = 0
  PROVE  timeouts = 0
<1>1. timeouts \in Nat
  BY DEF Base, TypeOK
<1>2. ASSUME NEW p \in Players, WorkerStep(p) PROVE timeouts' = timeouts
  BY <1>2 DEF WorkerStep, countVars
<1>3. ASSUME NEW t \in Threads, ApiStep(t) PROVE timeouts' = timeouts
  BY <1>3 DEF ApiStep, CommonLock, Lock, Check, Post, Wait, Clear, Unlock, Setup, UnlockStart,
              CommonUnlock, Poll, countVars
<1>4. ASSUME NEW t \in Threads, Timeout(t) PROVE timeouts' \in {timeouts, timeouts + 1}
  BY <1>4 DEF Timeout
<1>5. ASSUME OtherStep PROVE timeouts' \in {timeouts, timeouts + 1}
  BY <1>3, <1>4, <1>5, DeviceFrame DEF OtherStep, Begin
<1> QED  BY <1>1, <1>2, <1>5, NextSplit

\* A search finds a slot, and nothing found is overwritten.
LEMMA RegisterCorrect ==
  ASSUME Fits
  PROVE  Spec => []VisibleInv
<1>1. Init => VisibleInv
  BY DEF Init, VisibleInv, RegisterInv, Passed, Free, Registered
<1>2. Base /\ PromptInv /\ VisibleInv /\ [Next]_vars => VisibleInv'
  <2> SUFFICES ASSUME Base, PromptInv, VisibleInv, [Next]_vars, timeouts' = 0 PROVE RegisterInv'
    BY DEF VisibleInv
  <2>1. Prompt /\ RegisterInv
    BY TimeoutsGrow DEF PromptInv, VisibleInv
  <2>2. ASSUME NEW p \in Players, WorkerStep(p) PROVE RegisterInv'
    BY <2>1, <2>2, RegisterOwn, RegisterOther DEF RegisterInv
  <2>3. ASSUME OtherStep PROVE RegisterInv'
    BY <2>1, <2>3, OtherFrame DEF RegisterInv, Passed, Free, Registered, InRegistry
  <2> QED  BY <2>2, <2>3, NextSplit
<1> QED  BY <1>1, <1>2, BaseCorrect, PromptCorrect, PTL DEF Spec

\* A player that plays or can be resumed is in the registry, if there is a slot for
\* every player.
THEOREM VisibleCorrect ==
  ASSUME Fits
  PROVE  Spec => []Visible
<1>1. VisibleInv => Visible
  BY DEF VisibleInv, Visible, RegisterInv, Registered, InRegistry
<1> QED  BY <1>1, RegisterCorrect, PTL

-----------------------------------------------------------------------------
(* The device has one driver, and a player on its own keeps it *)

\* Without a RESUME nobody takes the device back.
ResumedInv == ~resumed => \A p \in Players :
  "RESUME" \notin event[p] /\ wpc[p] \notin {"resume_com", "resume_state"}

\* A start has failed, or the player plays.
RetInv == \A p \in Players : wpc[p] = "start_ack" => (ret[p] = "SUCCESS" <=> cur_state[p] = "PLAY")

\* A worker resumes only on a RESUME.
LEMMA ResumedWorker ==
  ASSUME TypeOK, ResumedInv, NEW p \in Players, WorkerStep(p)
  PROVE  ResumedInv'
<1> SUFFICES ASSUME ~resumed
             PROVE  \A q \in Players :
                      "RESUME" \notin event'[q] /\ wpc'[q] \notin {"resume_com", "resume_state"}
  BY WorkerFrame DEF ResumedInv
<1>1. \A q \in Players : "RESUME" \notin event[q] /\ wpc[q] \notin {"resume_com", "resume_state"}
  BY DEF ResumedInv
<1>2. SUFFICES "RESUME" \notin event'[p] /\ wpc'[p] \notin {"resume_com", "resume_state"}
  BY <1>1, WorkerFrame
<1> USE DEF TypeOK, Step, Goto, SetEvent, TakeEvent, Entry
<1>3. CASE IdleAck(p) \/ IdleWait(p) \/ IdleLeft(p) \/ IdleGo(p) \/ OpenFile(p)
  BY <1>1, <1>3 DEF IdleAck, IdleWait, IdleLeft, IdleGo, OpenFile
<1>4. CASE ScanLook(p) \/ ScanDeref(p) \/ ScanCall(p) \/ ScanReturn(p)
  BY <1>1, <1>4 DEF ScanLook, ScanDeref, ScanCall, ScanReturn, ScanNext, ScanDone
<1>5. CASE \/ Register(p) \/ RegisterWrite(p) \/ ComStart(p) \/ ComWait(p)
           \/ StartState(p) \/ StartAck(p)
  BY <1>1, <1>5 DEF Register, RegisterWrite, ComStart, ComWait, StartState, StartAck
<1>6. CASE PlayWait(p) \/ PauseCom(p) \/ PauseState(p) \/ PauseAck(p) \/ Monitor(p) \/ PauseWait(p)
  BY <1>1, <1>6 DEF PlayWait, PauseCom, PauseState, PauseAck, Monitor, PauseWait
<1>7. CASE ResumeCom(p) \/ ResumeState(p) \/ StopCom(p) \/ Unregister(p) \/ StopIdle(p)
  BY <1>1, <1>7 DEF ResumeCom, ResumeState, StopCom, Unregister, StopIdle
<1> QED  BY <1>3, <1>4, <1>5, <1>6, <1>7 DEF WorkerStep

\* Who posts RESUME is remembered.
LEMMA ResumedCall ==
  ASSUME TypeOK, ResumedInv, NEW t \in Threads, ApiStep(t) \/ Timeout(t)
  PROVE  ResumedInv'
<1>1. wpc' = wpc
  BY CallFrame
<1>2. /\ resumed' = (resumed \/ (Post(t) /\ CommandOf(t) = "RESUME"))
      /\ \A q \in Players :
           event'[q] \subseteq event[q] \cup (IF Post(t) THEN {CommandOf(t)} ELSE {})
  <2>1. CASE Post(t)
    BY <2>1 DEF Post, SetEvent, TypeOK
  <2>2. CASE ~Post(t) /\ (Wait(t) \/ Clear(t))
    BY <2>2 DEF Wait, Clear, TakeEvent, TypeOK, countVars
  <2>3. CASE ~Post(t) /\ UNCHANGED <<event, resumed>>
    BY <2>3 DEF TypeOK
  <2> QED  BY <2>1, <2>2, <2>3 DEF ApiStep, Timeout, CommonLock, Lock, Check, Unlock, Setup,
              UnlockStart, CommonUnlock, Poll, countVars
<1> QED  BY <1>1, <1>2 DEF ResumedInv

\* Nobody resumes before the first RESUME.
THEOREM ResumedCorrect == Spec => []ResumedInv
<1>1. Init => ResumedInv
  BY DEF Init, ResumedInv
<1>2. TypeOK /\ ResumedInv /\ [Next]_vars => ResumedInv'
  <2> SUFFICES ASSUME TypeOK, ResumedInv, [Next]_vars PROVE ResumedInv'
    OBVIOUS
  <2>1. CASE UNCHANGED <<wpc, event, resumed>>
    BY <2>1 DEF ResumedInv
  <2> QED  BY <2>1, ResumedWorker, ResumedCall, DeviceFrame, NextSplit
           DEF OtherStep, Begin, workerVars
<1> QED  BY <1>1, <1>2, TypeCorrect, PTL DEF Spec

\* audio_player_proc_start reports what the player goes on to do.
THEOREM RetCorrect == Spec => []RetInv
<1>1. Init => RetInv
  BY DEF Init, RetInv
<1>2. Base /\ RetInv /\ [Next]_vars => RetInv'
  <2> SUFFICES ASSUME Base, RetInv, [Next]_vars PROVE RetInv'
    OBVIOUS
  <2>1. ASSUME NEW p \in Players, WorkerStep(p) PROVE RetInv'
    <3>1. SUFFICES ASSUME wpc'[p] = "start_ack" PROVE ret'[p] = "SUCCESS" <=> cur_state'[p] = "PLAY"
      BY <2>1, WorkerFrame DEF RetInv, Base
    <3>2. StartState(p)
      <4> USE DEF Base, TypeOK, Step, Goto, Entry
      <4>1. ~(IdleAck(p) \/ IdleWait(p) \/ IdleLeft(p) \/ IdleGo(p) \/ OpenFile(p))
        BY <3>1 DEF IdleAck, IdleWait, IdleLeft, IdleGo, OpenFile
      <4>2. ~(ScanLook(p) \/ ScanDeref(p) \/ ScanCall(p) \/ ScanReturn(p))
        BY <2>1, <3>1 DEF ScanLook, ScanDeref, ScanCall, ScanReturn, ScanNext, ScanDone
      <4>3. ~(Register(p) \/ RegisterWrite(p) \/ ComStart(p) \/ ComWait(p) \/ StartAck(p))
        BY <3>1 DEF Register, RegisterWrite, ComStart, ComWait, StartAck
      <4>4. ~(\/ PlayWait(p) \/ PauseCom(p) \/ PauseState(p) \/ PauseAck(p)
              \/ Monitor(p) \/ PauseWait(p))
        BY <3>1 DEF PlayWait, PauseCom, PauseState, PauseAck, Monitor, PauseWait
      <4>5. ~(ResumeCom(p) \/ ResumeState(p) \/ StopCom(p) \/ Unregister(p) \/ StopIdle(p))
        BY <3>1 DEF ResumeCom, ResumeState, StopCom, Unregister, StopIdle
      <4> QED  BY <2>1, <4>1, <4>2, <4>3, <4>4, <4>5 DEF WorkerStep
    <3> QED  BY <3>2 DEF StartState, SetState, Base, TypeOK, loopVars
  <2>2. ASSUME OtherStep PROVE RetInv'
    BY <2>2, OtherFrame DEF RetInv
  <2> QED  BY <2>1, <2>2, NextSplit
<1> QED  BY <1>1, <1>2, BaseCorrect, PTL DEF Spec

\* The start of p is past the opening of its source and has not failed.
Searching(p) ==
  \/ wpc[p] \in {"register", "register_write", "com_start", "com_wait"}
  \/ wpc[p] \in ScanPcs /\ cur_state[p] = "START"
  \/ wpc[p] \in {"start_state", "start_ack"} /\ ret[p] = "SUCCESS"

\* The scan of p has still to break q.
BreakPcs == {"lock", "check", "post", "wait"}
Ahead(p, q) == \E i \in Slots :
  /\ g_registers[i] = q
  /\ \/ i > slot[p] /\ wpc[p] \in ScanPcs
     \/ i = slot[p] /\ wpc[p] \in {"scan_look", "scan_deref", "scan_call"}
     \/ i = slot[p] /\ wpc[p] = "scan_wait" /\ Player(p) = q /\ call[p].pc \in BreakPcs

\* Nobody drives the device but one player, which a start finds and breaks.
DriveInv ==
  /\ \A p, q \in Players : p # q => ~(Drives(p) /\ Drives(q))
  /\ \A p, q \in Players : p # q /\ Searching(p) /\ Drives(q) => Ahead(p, q)

\* What the steps below start from.
Alone == Base /\ Prompt /\ RegisterInv /\ ResumedInv /\ RetInv /\ DriveInv /\ ~resumed

\* A start that searches has begun.
LEMMA SearchingBegun ==
  ASSUME NEW p \in Players, Searching(p)
  PROVE  Begun(p)
BY DEF Searching, Begun, StartPcs

\* While another player is started, who drives the device plays, and is registered.
LEMMA DriverPlays ==
  ASSUME Alone, NEW p \in Players, Begun(p), NEW q \in Players, q # p, Drives(q)
  PROVE  cur_state[q] = "PLAY" /\ InRegistry(q) /\ ~Begun(q)
<1>1. ~Begun(q)
  BY OneStarter DEF Alone
<1>2. wpc[q] \notin {"start_state", "start_ack", "resume_state"}
  BY <1>1 DEF Begun, StartPcs, Alone, ResumedInv
<1> QED  BY <1>1, <1>2 DEF Drives, Alone, RegisterInv, Registered

\* The device is taken only by a start.
LEMMA Driving ==
  ASSUME Alone, NEW p \in Players, WorkerStep(p), Drives(p)'
  PROVE  (Drives(p) /\ ~Unregister(p)) \/ ComWait(p)
<1>1. TypeOK /\ WhereInv /\ RetInv /\ wpc[p] \notin {"resume_com", "resume_state"}
  BY DEF Alone, Base, ResumedInv
<1> USE DEF TypeOK, WhereInv, RetInv, IdlePcs, ScanPcs, StartPcs, PlayPcs, HaltPcs, StopPcs,
            Step, Goto, SetState, Entry, States, loopVars, Drives
<1>2. CASE IdleAck(p) \/ IdleWait(p) \/ IdleLeft(p) \/ IdleGo(p) \/ OpenFile(p)
  BY <1>1, <1>2 DEF IdleAck, IdleWait, IdleLeft, IdleGo, OpenFile
<1>3. CASE ScanLook(p) \/ ScanDeref(p)
  BY <1>1, <1>3 DEF ScanLook, ScanDeref, ScanNext, ScanDone
<1>4. CASE ScanCall(p) \/ ScanReturn(p)
  BY <1>1, <1>4 DEF ScanCall, ScanReturn, ScanNext, ScanDone
<1>5. CASE Register(p) \/ RegisterWrite(p) \/ ComStart(p) \/ ComWait(p)
  BY <1>1, <1>5 DEF Register, RegisterWrite, ComStart
<1>6. CASE StartState(p) \/ StartAck(p)
  BY <1>1, <1>6 DEF StartState, StartAck, Unregister
<1>7. CASE PlayWait(p) \/ PauseCom(p) \/ PauseState(p) \/ PauseAck(p)
  BY <1>1, <1>7 DEF PlayWait, PauseCom, PauseState, PauseAck, Halted, Unregister
<1>8. CASE Monitor(p) \/ PauseWait(p) \/ ResumeCom(p) \/ ResumeState(p)
  BY <1>1, <1>8 DEF Monitor, PauseWait, ResumeCom, ResumeState, Unregister
<1>9. CASE StopCom(p) \/ Unregister(p) \/ StopIdle(p)
  BY <1>1, <1>9 DEF StopCom, Unregister, StopIdle
<1> QED  BY <1>2, <1>3, <1>4, <1>5, <1>6, <1>7, <1>8, <1>9 DEF WorkerStep

\* The scan goes on to the next slot.
LEMMA NextAhead ==
  ASSUME TypeOK, NEW p \in Players, NEW q \in Players, ScanNext(p), UNCHANGED g_registers,
         NEW i \in Slots, g_registers[i] = q, i > slot[p]
  PROVE  Ahead(p, q)'
<1>1. i \in Nat /\ slot[p] \in Nat /\ i <= NumSlots /\ slot[p] < NumSlots
  BY SlotsAssumption DEF Slots, TypeOK
<1>2. wpc'[p] = "scan_look" /\ slot'[p] = slot[p] + 1
  BY <1>1 DEF ScanNext, Goto, TypeOK
<1> QED  BY <1>1, <1>2 DEF Ahead, ScanPcs

\* The scan passes no player that drives the device.
LEMMA SearchOwn ==
  ASSUME Alone, NEW p \in Players, WorkerStep(p), NEW q \in Players, q # p,
         Searching(p)', Drives(q)
  PROVE  Ahead(p, q)'
<1> USE ThreadsAssumption
<1>1. TypeOK /\ WhereInv /\ RegistryInv
  BY DEF Alone, Base
<1>2. slot[p] \in Slots /\ cur_state[p] \in States
  BY <1>1 DEF TypeOK
<1>3. Searching(p) => Ahead(p, q)
  BY DEF Alone, DriveInv
<1>4. Begun(p) => cur_state[q] = "PLAY" /\ InRegistry(q)
  BY DriverPlays
<1>5. CASE OpenFile(p)
  <2>1. Begun(p)
    BY <1>5 DEF OpenFile, Step, Begun, StartPcs
  <2>2. wpc'[p] = "scan_look" /\ slot'[p] = 1 /\ UNCHANGED g_registers
    BY <1>1, <1>5 DEF OpenFile, Step, Goto, TypeOK, Searching, ScanPcs
  <2> QED  BY <1>4, <2>1, <2>2, SlotsAssumption DEF InRegistry, Ahead, Slots, ScanPcs
<1>6. CASE ScanLook(p)
  <2>1. wpc[p] = "scan_look" /\ UNCHANGED <<cur_state, g_registers>>
    BY <1>6 DEF ScanLook
  <2>2. cur_state[p] = "START"
    BY <1>1, <1>2, <2>1, <1>6
    DEF ScanLook, Searching, ScanNext, ScanDone, Goto, TypeOK, WhereInv, ScanPcs, States
  <2>3. PICK i \in Slots : g_registers[i] = q /\ i >= slot[p]
    BY <1>2, <1>3, <2>1, <2>2 DEF Searching, ScanPcs, Ahead, Slots
  <2>4. CASE g_registers[slot[p]] \in {NONE, p}
    <3>1. ScanNext(p)
      BY <1>6, <2>4 DEF ScanLook
    <3>2. i > slot[p]
      BY <1>2, <2>3, <2>4 DEF Slots
    <3> QED  BY <1>1, <2>1, <2>3, <3>1, <3>2, NextAhead
  <2>5. CASE g_registers[slot[p]] \notin {NONE, p}
    <3>1. wpc'[p] = "scan_deref" /\ slot'[p] = slot[p]
      BY <1>1, <1>6, <2>2, <2>5 DEF ScanLook, Goto, TypeOK
    <3> QED  BY <1>2, <2>1, <2>3, <3>1 DEF Ahead, Slots, ScanPcs
  <2> QED  BY <2>4, <2>5
<1>7. CASE ScanDeref(p)
  <2> DEFINE r == g_registers[slot[p]]
  <2>1. wpc[p] = "scan_deref" /\ UNCHANGED <<cur_state, g_registers>>
    BY <1>7 DEF ScanDeref
  <2>2. cur_state[p] = "START"
    BY <1>1, <1>2, <2>1, <1>7
    DEF ScanDeref, Searching, ScanNext, ScanDone, Goto, TypeOK, WhereInv, ScanPcs, States
  <2>3. PICK i \in Slots : g_registers[i] = q /\ i >= slot[p]
    BY <1>2, <1>3, <2>1, <2>2 DEF Searching, ScanPcs, Ahead, Slots
  <2>4. cur_state[q] = "PLAY"
    BY <1>4, <2>1, <2>2 DEF Begun, ScanPcs
  <2>5. CASE r # NONE /\ cur_state[r] # "PLAY"
    <3>1. ScanNext(p)
      BY <1>7, <2>2, <2>5 DEF ScanDeref
    <3>2. i > slot[p]
      BY <1>2, <2>3, <2>4, <2>5 DEF Slots
    <3> QED  BY <1>1, <2>1, <2>3, <3>1, <3>2, NextAhead
  <2>6. CASE r = NONE \/ cur_state[r] = "PLAY"
    <3>1. wpc'[p] \in {"scan_deref", "scan_call"} /\ slot'[p] = slot[p]
      BY <1>1, <1>7, <2>1, <2>2, <2>6 DEF ScanDeref, Goto, TypeOK
    <3> QED  BY <1>2, <2>1, <2>3, <3>1 DEF Ahead, Slots, ScanPcs
  <2> QED  BY <2>5, <2>6
<1>8. CASE ScanCall(p)
  <2>1. /\ wpc[p] = "scan_call" /\ wpc'[p] = "scan_wait" /\ slot'[p] = slot[p]
        /\ UNCHANGED <<cur_state, g_registers>>
    BY <1>1, <1>8 DEF ScanCall, Step, Goto, TypeOK, loopVars
  <2>2. cur_state[p] = "START"
    BY <2>1 DEF Searching, ScanPcs
  <2>3. PICK i \in Slots : g_registers[i] = q /\ i >= slot[p]
    BY <1>2, <1>3, <2>1, <2>2 DEF Searching, ScanPcs, Ahead, Slots
  <2>4. CASE i = slot[p]
    <3>1. /\ p \in Threads /\ call \in [Threads -> Frames]
          /\ call' = [call EXCEPT ![p] = Enter("break", q)]
      BY <1>1, <1>8, <2>2, <2>3, <2>4 DEF ScanCall, TypeOK, Threads
    <3>2. Player(p)' = q /\ call'[p].pc = "lock"
      BY <3>1 DEF Enter, Player, StartOps
    <3> QED  BY <2>1, <2>3, <2>4, <3>2 DEF Ahead, BreakPcs
  <2>5. CASE i > slot[p]
    BY <2>1, <2>3, <2>5 DEF Ahead, ScanPcs
  <2> QED  BY <1>2, <2>3, <2>4, <2>5 DEF Slots
<1>9. CASE ScanReturn(p)
  <2>1. wpc[p] = "scan_wait" /\ call[p].pc = "none" /\ UNCHANGED <<cur_state, g_registers>>
    BY <1>9 DEF ScanReturn
  <2>2. cur_state[p] = "START"
    BY <1>1, <1>2, <2>1, <1>9
    DEF ScanReturn, Searching, ScanNext, ScanDone, Goto, TypeOK, WhereInv, ScanPcs, States
  <2>3. PICK i \in Slots : g_registers[i] = q /\ i > slot[p]
    BY <1>3, <2>1, <2>2 DEF Searching, ScanPcs, Ahead, BreakPcs
  <2>4. ScanNext(p)
    BY <1>9, <2>2 DEF ScanReturn
  <2> QED  BY <1>1, <2>1, <2>3, <2>4, NextAhead
<1>10. CASE /\ \/ Register(p) \/ RegisterWrite(p) \/ ComStart(p) \/ ComWait(p) \/ StartState(p)
               \/ StartAck(p)
  <2>1. wpc[p] \in StartPcs \cup {"start_ack"} /\ wpc[p] # "open"
    BY <1>10 DEF Register, RegisterWrite, ComStart, ComWait, StartState, StartAck, Step, StartPcs
  <2>2. Searching(p)
    BY <1>1, <1>10
    DEF Register, RegisterWrite, ComStart, ComWait, StartState, StartAck, Step, Goto, Entry,
        TypeOK, WhereInv, Searching, ScanPcs, loopVars
  <2> QED  BY <1>3, <2>1, <2>2 DEF Ahead, ScanPcs, StartPcs
<1>11. ~(IdleAck(p) \/ IdleWait(p) \/ IdleLeft(p) \/ IdleGo(p))
  BY <1>1 DEF IdleAck, IdleWait, IdleLeft, IdleGo, Step, Goto, TypeOK, Searching, ScanPcs
<1>12. ~(PlayWait(p) \/ PauseCom(p) \/ PauseState(p) \/ PauseAck(p) \/ Monitor(p) \/ PauseWait(p))
  BY <1>1
  DEF PlayWait, PauseCom, PauseState, PauseAck, Monitor, PauseWait, Step, Goto, Entry, TypeOK,
      Searching, ScanPcs
<1>13. ~(ResumeCom(p) \/ ResumeState(p) \/ StopCom(p) \/ Unregister(p) \/ StopIdle(p))
  BY <1>1 DEF ResumeCom, ResumeState, StopCom, Unregister, StopIdle, Step, Goto, TypeOK,
              Searching, ScanPcs, WhereInv, StopPcs
<1> QED
  BY <1>5, <1>6, <1>7, <1>8, <1>9, <1>10, <1>11, <1>12, <1>13 DEF WorkerStep

\* A break returns to the scan when the player is broken.
LEMMA SearchCall ==
  ASSUME Alone, Prompt', NEW t \in Threads, ApiStep(t) \/ Timeout(t), timeouts' = timeouts,
         timeouts = 0, NEW p \in Players, NEW q \in Players, q # p, Searching(p), Drives(q)
  PROVE  Ahead(p, q)'
<1> USE ThreadsAssumption
<1>1. UNCHANGED <<wpc, g_registers, slot, cur_state>> /\ \A u \in Threads \ {t} : call'[u] = call[u]
  BY CallFrame DEF Alone, Base
<1>2. PICK i \in Slots :
        /\ g_registers[i] = q
        /\ \/ i > slot[p] /\ wpc[p] \in ScanPcs
           \/ i = slot[p] /\ wpc[p] \in {"scan_look", "scan_deref", "scan_call"}
           \/ i = slot[p] /\ wpc[p] = "scan_wait" /\ Player(p) = q /\ call[p].pc \in BreakPcs
  BY DEF Alone, DriveInv, Ahead
<1>3. p \in Threads
  BY DEF Threads
<1>4. CASE \/ i > slot[p] /\ wpc[p] \in ScanPcs
           \/ i = slot[p] /\ wpc[p] \in {"scan_look", "scan_deref", "scan_call"}
           \/ t # p
  BY <1>1, <1>2, <1>3, <1>4 DEF Ahead, Player
<1>5. CASE /\ t = p /\ i = slot[p] /\ wpc[p] = "scan_wait"
           /\ Player(p) = q /\ call[p].pc \in BreakPcs
  <2>1. cur_state[q] = "PLAY"
    BY SearchingBegun, DriverPlays
  <2>2. call[p].op = "break" /\ LockInv /\ TypeOK
    BY <1>2, <1>5 DEF Alone, Base, LockInv, WorkerCallInv, InCall, Searching, BreakPcs, StartPcs
  <2>3. /\ call'[p].pc \in {"check", "post", "wait", "unlock"}
        /\ call[p].pc \notin {"check", "wait"} => call'[p].pc # "unlock"
    BY <1>5, <2>2, Moves DEF BreakPcs, StopOps, StartOps
  <2>4. call'[p].op = "break" /\ Player(p)' = q
    BY <1>5, <2>2, <2>3, CallFrame DEF Player
  <2>5. call'[p].pc # "unlock"
    <3>1. CASE call[p].pc = "check"
      <4>1. Check(p)
        BY <1>5, <3>1
        DEF ApiStep, Timeout, At, CommonLock, Lock, Check, Post, Wait, Clear, Unlock, Setup,
            UnlockStart, CommonUnlock, Poll
      <4>2. Commandable(p)
        BY <1>5, <2>1, <2>2 DEF Commandable, Stops, StartOps
      <4> QED  BY <4>1, <4>2, <1>3, <2>2 DEF Check, Move, TypeOK, Frames
    <3>2. CASE call[p].pc = "wait" /\ Timeout(p)
      <4>1. Starved(p)
        BY <3>2 DEF Timeout, Alone, Base, TypeOK
      <4>2. Ready(p)
        BY <3>2 DEF Ready, LockPcs, Alone, Base, Prompt
      <4> QED  BY <1>3, <1>5, <3>2, <4>1, <4>2, Starving DEF At
    <3>3. CASE call[p].pc = "wait" /\ ApiStep(p)
      <4>1. Wait(p)
        BY <3>3 DEF ApiStep, At, CommonLock, Lock, Check, Post, Wait, Clear, Unlock, Setup,
                    UnlockStart, CommonUnlock, Poll
      <4>2. call'[p].acked
        BY <4>1, <1>3, <2>2 DEF Wait, TypeOK, Frames
      <4>3. ASSUME call'[p].pc = "unlock" PROVE FALSE
        <5>1. LockInv'
          BY <1>5, <2>2, LockCall
        <5>2. Holder(q)' = p
          BY <1>3, <2>4, <4>3, <5>1 DEF LockInv, MutexInv, LockPcs
        <5>3. Held(q, {"unlock"}, HaltOps)' /\ (call[Holder(q)].acked)'
          BY <1>3, <2>4, <4>2, <4>3, <5>2 DEF Held, HaltOps
        <5>4. HaltingInv(q)'
          BY DEF Prompt
        <5>5. cur_state'[q] # "PLAY"
          BY <5>3, <5>4 DEF HaltingInv, Quiet
        <5> QED  BY <1>1, <2>1, <5>5
      <4> QED  BY <4>3
    <3> QED  BY <1>5, <2>3, <3>1, <3>2, <3>3
  <2> QED  BY <1>1, <1>2, <1>5, <2>3, <2>4, <2>5 DEF Ahead, BreakPcs
<1> QED  BY <1>2, <1>4, <1>5

\* What the scan of p has to break stays where it is.
LEMMA SearchOther ==
  ASSUME Alone, NEW r \in Players, WorkerStep(r), NEW p \in Players, p # r,
         NEW q \in Players, q # p, Searching(p), Drives(q)'
  PROVE  Ahead(p, q)'
<1>1. Begun(p) /\ TypeOK /\ ~Begun(r)
  BY SearchingBegun, OneStarter DEF Alone, Base
<1>2. Drives(q) /\ ~(q = r /\ Unregister(r))
  <2>1. CASE q = r
    BY <1>1, <2>1, Driving DEF ComWait, Step, Begun, StartPcs
  <2>2. CASE q # r
    BY <1>1, <2>2, WorkerFrame DEF Drives
  <2> QED  BY <2>1, <2>2
<1>3. Ahead(p, q)
  BY <1>2 DEF Alone, DriveInv
<1>4. \A i \in Slots : g_registers[i] = q => g_registers'[i] = q
  <2>1. ~RegisterWrite(r)
    BY <1>1 DEF RegisterWrite, Step, Begun, StartPcs
  <2> QED  BY <1>2, <2>1, RegistryMoves DEF Unregister, FirstSlotOf
<1>5. wpc'[p] = wpc[p] /\ slot'[p] = slot[p] /\ call'[p] = call[p]
  <2>1. call \in [Threads -> Frames] /\ p \in Threads /\ r \in Threads
    BY <1>1 DEF TypeOK, Threads
  <2> QED  BY <1>1, <2>1, WorkerFrame, WorkerCalls DEF Alone, Base
<1> QED  BY <1>3, <1>4, <1>5 DEF Ahead, Player

\* A start takes the device from nobody.
LEMMA DriveWorker ==
  ASSUME Alone, NEW r \in Players, WorkerStep(r)
  PROVE  DriveInv'
<1>1. \A q \in Players \ {r} : (Drives(q)' <=> Drives(q)) /\ (Searching(q)' <=> Searching(q))
  BY WorkerFrame DEF Drives, Searching, Alone, Base
<1>2. ASSUME Drives(r)', NEW q \in Players, q # r, Drives(q) PROVE FALSE
  <2>1. ~Drives(r)
    BY <1>2 DEF Alone, DriveInv
  <2>2. ComWait(r)
    BY <1>2, <2>1, Driving
  <2>3. Searching(r) /\ wpc[r] \notin ScanPcs
    BY <2>2 DEF ComWait, Step, Searching, ScanPcs
  <2> QED  BY <1>2, <2>3 DEF Alone, DriveInv, Ahead, ScanPcs
<1>3. \A p, q \in Players : p # q => ~(Drives(p)' /\ Drives(q)')
  BY <1>1, <1>2 DEF Alone, DriveInv
<1>4. ASSUME NEW p \in Players, NEW q \in Players, p # q, Searching(p)', Drives(q)'
      PROVE  Ahead(p, q)'
  <2>1. CASE p = r
    BY <1>1, <1>4, <2>1, SearchOwn
  <2>2. CASE p # r
    BY <1>1, <1>4, <2>2, SearchOther
  <2> QED  BY <2>1, <2>2
<1> QED  BY <1>3, <1>4 DEF DriveInv

DriverInv == timeouts = 0 /\ ~resumed => DriveInv

\* One player drives the device, and every start finds it.
LEMMA DriverCorrect ==
  ASSUME Fits
  PROVE  Spec => []DriverInv
<1>1. Init => DriverInv
  BY DEF Init, DriverInv, DriveInv, Drives, Searching, ScanPcs
<1>2. /\ Base /\ PromptInv /\ PromptInv' /\ VisibleInv /\ ResumedInv /\ RetInv /\ DriverInv
      /\ [Next]_vars
      => DriverInv'
  <2> SUFFICES ASSUME Base, PromptInv, VisibleInv, ResumedInv, RetInv, DriverInv, PromptInv',
                      [Next]_vars, timeouts' = 0, ~resumed'
               PROVE  DriveInv'
    BY DEF DriverInv
  <2>1. timeouts = 0 /\ Prompt /\ Prompt' /\ RegisterInv
    BY TimeoutsGrow DEF PromptInv, VisibleInv
  <2>2. ASSUME NEW r \in Players, WorkerStep(r) PROVE DriveInv'
    <3>1. ~resumed
      BY <2>2, WorkerFrame DEF Base
    <3> QED  BY <2>1, <2>2, <3>1, DriveWorker DEF Alone, DriverInv
  <2>3. ASSUME NEW t \in Threads, ApiStep(t) \/ Timeout(t) PROVE DriveInv'
    <3>1. ~resumed
      BY <2>3
      DEF ApiStep, Timeout, CommonLock, Lock, Check, Post, Wait, Clear, Unlock, Setup,
          UnlockStart, CommonUnlock, Poll, countVars
    <3>2. UNCHANGED <<cur_state, wpc, ret>>
      BY <2>3, CallFrame DEF Base
    <3>3. Alone
      BY <2>1, <3>1 DEF Alone, DriverInv
    <3> QED  BY <2>1, <2>3, <3>2, <3>3, SearchCall DEF DriveInv, Drives, Searching, Alone
  <2>4. ASSUME NEW c \in Callers, NEW op \in Ops, NEW p \in Players, Begin(c, op, p) PROVE DriveInv'
    <3>1. \A q \in Players : call'[q] = call[q]
      BY <2>4, ThreadsAssumption DEF Begin, Base, TypeOK, Threads
    <3>2. UNCHANGED <<cur_state, wpc, g_registers, slot, ret, resumed>>
      BY <2>4 DEF Begin, workerVars, loopVars
    <3> QED  BY <2>1, <3>1, <3>2 DEF DriverInv, DriveInv, Drives, Searching, Ahead, Player
  <2>5. CASE UNCHANGED <<cur_state, wpc, g_registers, slot, ret, call, resumed>>
    BY <2>1, <2>5 DEF DriverInv, DriveInv, Drives, Searching, Ahead, Player
  <2> QED  BY <2>2, <2>3, <2>4, <2>5, DeviceFrame, NextSplit DEF OtherStep
<1> QED
  BY <1>1, <1>2, BaseCorrect, PromptCorrect, RegisterCorrect, ResumedCorrect, RetCorrect, PTL
  DEF Spec

\* The player has never been started.
Untouched(p) == player_handle[p] = 0

\* Who has not been started is at rest.
UntouchedInv ==
  /\ \A q \in Players : Untouched(q) => Resting(q) /\ "START" \notin event[q]
  /\ \A t \in Threads : call[t].pc = "post_start" => ~Untouched(Player(t))

\* A player that plays, or is about to, owns the device if no other has been started.
Owns(p) == \/ wpc[p] = "start_state" /\ ret[p] = "SUCCESS"
           \/ wpc[p] = "resume_state"
           \/ cur_state[p] = "PLAY" /\ wpc[p] # "pause_state"
OwnInv == \A p \in Players :
  (\A q \in Players \ {p} : Untouched(q)) /\ Owns(p) => pcm_owner = p

\* A worker does not move without START.
LEMMA UntouchedWorker ==
  ASSUME Base, UntouchedInv, NEW p \in Players, WorkerStep(p)
  PROVE  UntouchedInv'
<1>1. UNCHANGED player_handle
  BY WorkerFrame DEF Base
<1>2. ASSUME Untouched(p) PROVE Resting(p)' /\ "START" \notin event'[p]
  <2>1. Resting(p) /\ "START" \notin event[p]
    BY <1>2 DEF UntouchedInv
  <2>2. IdleAck(p)
    BY <2>1 DEF WorkerStep, Resting, Step, IdleAck, IdleWait, IdleLeft, IdleGo,
           OpenFile, ScanLook, ScanDeref, ScanCall, ScanReturn, Register, RegisterWrite,
           ComStart, ComWait, StartState, StartAck, PlayWait, PauseCom, PauseState, PauseAck,
           Monitor, PauseWait, ResumeCom, ResumeState, StopCom, Unregister, StopIdle
  <2> QED  BY <2>1, <2>2 DEF IdleAck, Step, Goto, Base, TypeOK, Resting
<1>3. \A q \in Players : Untouched(q) => Resting(q)' /\ "START" \notin event'[q]
  BY <1>2, WorkerFrame DEF UntouchedInv, Resting, Base
<1>4. ASSUME NEW t \in Threads, call'[t].pc = "post_start" PROVE call'[t] = call[t]
  <2>1. p \in Threads /\ call \in [Threads -> Frames]
    BY DEF Base, TypeOK, Threads
  <2>2. CASE t = p /\ ~UNCHANGED call
    <3>1. call'[p].pc = "lock"
      BY <2>1, <2>2, WorkerCalls DEF Base, Enter, StartOps
    <3> QED  BY <1>4, <2>2, <3>1
  <2> QED  BY <2>1, <2>2, WorkerCalls DEF Base
<1> QED  BY <1>1, <1>3, <1>4 DEF UntouchedInv, Untouched, Player

\* START is posted only after the session has its number.
LEMMA UntouchedCall ==
  ASSUME Base, UntouchedInv, NEW t \in Threads, ApiStep(t) \/ Timeout(t)
  PROVE  UntouchedInv' /\ \A q \in Players : Untouched(q)' => Untouched(q)
<1> DEFINE p == Player(t)
<1>1. /\ \A u \in Threads \ {t} : call'[u] = call[u]
      /\ call'[t].pc # "none" => Player(t)' = p
      /\ wpc' = wpc /\ p \in Players /\ TypeOK
  BY CallFrame DEF Player, Base, LockInv, FrameInv, InCall
<1>2. /\ \A q \in Players : player_handle'[q] = player_handle[q] \/ (q = p /\ player_handle'[q] # 0)
      /\ Setup(t) => player_handle'[p] # 0
      /\ ~Setup(t) => player_handle' = player_handle
  <2>1. CASE Setup(t)
    <3>1. g_last_alloc_handle + 1 # 0
      BY <1>1 DEF TypeOK
    <3> QED  BY <1>1, <2>1, <3>1 DEF Setup, TypeOK
  <2>2. CASE ~Setup(t)
    <3>1. player_handle' = player_handle
      BY <2>2
      DEF ApiStep, Timeout, CommonLock, Lock, Check, Post, Wait, Clear, Unlock, UnlockStart,
          CommonUnlock, Poll, sessionVars
    <3> QED  BY <2>2, <3>1
  <2> QED  BY <2>1, <2>2
<1>3. \A q \in Players : Untouched(q)' => Untouched(q)
  BY <1>2 DEF Untouched
<1>4. call'[t].pc = "post_start" => Setup(t)
  <2>1. call'[t].pc = "post_start" => call[t].pc = "setup"
    BY <1>1, Moves DEF StopOps, StartOps
  <2> QED  BY <2>1 DEF ApiStep, Timeout, At, CommonLock, Lock, Check, Post, Wait, Clear, Unlock,
              UnlockStart, CommonUnlock, Poll
<1>5. \A u \in Threads : call'[u].pc = "post_start" => ~Untouched(Player(u))'
  <2>1. \A u \in Threads : call'[u].pc = "post_start" =>
          player_handle'[call'[u].player] # 0
    BY <1>1, <1>2, <1>4 DEF UntouchedInv, Untouched, Player, Base, LockInv, FrameInv, InCall
  <2> QED  BY <2>1 DEF Untouched, Player
<1>6. ASSUME NEW q \in Players, Untouched(q) PROVE "START" \notin event'[q]
  <2>1. "START" \notin event[q] /\ event[q] \subseteq Commands \cup Acks
    BY <1>1, <1>6 DEF UntouchedInv, TypeOK
  <2>2. CASE UNCHANGED event
    BY <2>1, <2>2
  <2>3. CASE Post(t)
    <3>1. q = p => CommandOf(t) # "START"
      BY <1>6, <2>3 DEF UntouchedInv, CommandOf, At
    <3> QED  BY <1>1, <2>1, <2>3, <3>1 DEF Post, SetEvent, TypeOK
  <2>4. CASE Wait(t) \/ Clear(t)
    BY <1>1, <2>1, <2>4 DEF Wait, Clear, TakeEvent, TypeOK
  <2> QED  BY <2>2, <2>3, <2>4
           DEF ApiStep, Timeout, CommonLock, Lock, Check, Unlock, Setup, UnlockStart,
               CommonUnlock, Poll
<1> QED  BY <1>1, <1>3, <1>5, <1>6 DEF UntouchedInv, Resting

\* To call is not yet to start.
LEMMA UntouchedBegin ==
  ASSUME Base, UntouchedInv, NEW c \in Callers, NEW op \in Ops, NEW p \in Players, Begin(c, op, p)
  PROVE  UntouchedInv'
<1>1. c \in Threads /\ call \in [Threads -> Frames]
  BY DEF Base, TypeOK, Threads
<1>2. call'[c].pc # "post_start" /\ \A u \in Threads \ {c} : call'[u] = call[u]
  BY <1>1 DEF Begin, Enter
<1> QED  BY <1>2 DEF Begin, workerVars, sessionVars, UntouchedInv, Untouched, Player, Resting

\* A player without a session is at rest.
THEOREM UntouchedCorrect == Spec => []UntouchedInv
<1>1. Init => UntouchedInv
  BY DEF Init, UntouchedInv, Resting, NoCall
<1>2. Base /\ UntouchedInv /\ [Next]_vars => UntouchedInv'
  <2> SUFFICES ASSUME Base, UntouchedInv, [Next]_vars PROVE UntouchedInv'
    OBVIOUS
  <2>1. CASE UNCHANGED <<wpc, event, call, player_handle>>
    BY <2>1 DEF UntouchedInv, Untouched, Resting, Player
  <2> QED  BY <2>1, UntouchedWorker, UntouchedCall, UntouchedBegin, DeviceFrame, NextSplit
           DEF OtherStep
<1> QED  BY <1>1, <1>2, BaseCorrect, PTL DEF Spec

\* A worker that owns what it plays goes on to own it.
LEMMA OwnWorker ==
  ASSUME Base, RetInv, NEW p \in Players, WorkerStep(p), Owns(p) => pcm_owner = p, Owns(p)'
  PROVE  pcm_owner' = p
<1>1. TypeOK /\ WhereInv /\ RetInv
  BY DEF Base
<1> USE DEF TypeOK, WhereInv, RetInv, IdlePcs, ScanPcs, StartPcs, PlayPcs, HaltPcs, StopPcs,
            Step, Goto, SetState, Entry, States, loopVars, audioVars, Owns
<1>2. CASE IdleAck(p) \/ IdleWait(p) \/ IdleLeft(p) \/ IdleGo(p) \/ OpenFile(p)
  BY <1>1, <1>2 DEF IdleAck, IdleWait, IdleLeft, IdleGo, OpenFile
<1>3. CASE ScanLook(p) \/ ScanDeref(p)
  BY <1>1, <1>3 DEF ScanLook, ScanDeref, ScanNext, ScanDone
<1>4. CASE ScanCall(p) \/ ScanReturn(p)
  BY <1>1, <1>4 DEF ScanCall, ScanReturn, ScanNext, ScanDone
<1>5. CASE Register(p) \/ RegisterWrite(p) \/ ComStart(p) \/ ComWait(p)
  BY <1>1, <1>5 DEF Register, RegisterWrite, ComStart, ComWait
<1>6. CASE StartState(p) \/ StartAck(p)
  BY <1>1, <1>6 DEF StartState, StartAck
<1>7. CASE PlayWait(p) \/ PauseCom(p) \/ PauseState(p) \/ PauseAck(p)
  BY <1>1, <1>7 DEF PlayWait, PauseCom, PauseState, PauseAck, Halted
<1>8. CASE Monitor(p) \/ PauseWait(p) \/ ResumeCom(p) \/ ResumeState(p)
  BY <1>1, <1>8 DEF Monitor, PauseWait, ResumeCom, ResumeState
<1>9. CASE StopCom(p) \/ Unregister(p) \/ StopIdle(p)
  BY <1>1, <1>9 DEF StopCom, Unregister, StopIdle
<1> QED  BY <1>2, <1>3, <1>4, <1>5, <1>6, <1>7, <1>8, <1>9 DEF WorkerStep

\* Who has not been started leaves the device alone.
LEMMA RestingOwner ==
  ASSUME NEW p \in Players, WorkerStep(p), Resting(p)
  PROVE  pcm_owner' = pcm_owner
BY DEF WorkerStep, Resting, Step, audioVars, IdleAck, IdleWait, IdleLeft, IdleGo,
       OpenFile, ScanLook, ScanDeref, ScanCall, ScanReturn, Register, RegisterWrite,
       ComStart, ComWait, StartState, StartAck, PlayWait, PauseCom, PauseState, PauseAck,
       Monitor, PauseWait, ResumeCom, ResumeState, StopCom, Unregister, StopIdle

\* A player on its own owns the device whenever it plays, whatever waits time out.
THEOREM OwnCorrect == Spec => []OwnInv
<1>1. Init => OwnInv
  BY DEF Init, OwnInv, Owns
<1>2. Base /\ RetInv /\ UntouchedInv /\ OwnInv /\ [Next]_vars => OwnInv'
  <2> SUFFICES ASSUME Base, RetInv, UntouchedInv, OwnInv, [Next]_vars,
                      NEW p \in Players, \A q \in Players \ {p} : Untouched(q)', Owns(p)'
               PROVE  pcm_owner' = p
    BY DEF OwnInv
  <2>1. ASSUME NEW r \in Players, WorkerStep(r) PROVE pcm_owner' = p
    <3>1. \A q \in Players \ {p} : Untouched(q)
      BY <2>1, WorkerFrame DEF Base, Untouched
    <3>2. Owns(p) => pcm_owner = p
      BY <3>1 DEF OwnInv
    <3>3. CASE r = p
      BY <2>1, <3>2, <3>3, OwnWorker
    <3>4. CASE r # p
      <4>1. Owns(p)
        BY <2>1, <3>4, WorkerFrame DEF Base, Owns
      <4>2. Resting(r)
        BY <3>1, <3>4 DEF UntouchedInv
      <4> QED  BY <2>1, <3>2, <4>1, <4>2, RestingOwner
    <3> QED  BY <3>3, <3>4
  <2>2. ASSUME OtherStep PROVE pcm_owner' = p
    <3>1. \A q \in Players : Untouched(q)' => Untouched(q)
      BY <2>2, UntouchedCall, DeviceFrame DEF OtherStep, Begin, sessionVars, Untouched
    <3>2. Owns(p) /\ pcm_owner' = pcm_owner
      BY <2>2, OtherFrame DEF Owns
    <3> QED  BY <3>1, <3>2 DEF OwnInv
  <2> QED  BY <2>1, <2>2, NextSplit
<1> QED  BY <1>1, <1>2, BaseCorrect, RetCorrect, UntouchedCorrect, PTL DEF Spec

\* The device has one driver until a resume, if there is a slot for every player, and
\* a player keeps it while no other has been started.
THEOREM DeviceCorrect ==
  ASSUME Fits
  PROVE  Spec => []DeviceKept
<1>1. TypeOK /\ DriverInv /\ OwnInv => DeviceKept
  <2>1. ASSUME TypeOK, DriverInv PROVE OneDriver
    <3>1. timeouts \in Nat
      BY <2>1 DEF TypeOK
    <3> QED  BY <2>1, <3>1 DEF DriverInv, DriveInv, OneDriver
  <2>2. OwnInv => PlaysItsOwn
    BY DEF OwnInv, PlaysItsOwn, Owns, Untouched
  <2> QED  BY <2>1, <2>2 DEF DeviceKept
<1> QED  BY <1>1, DriverCorrect, OwnCorrect, TypeCorrect, PTL
=============================================================================
