# A formal model of the audio player

TLA+ modules for the player in this repository (`src/`): a streaming MP3 player
of about 6 000 lines of C, in which callers and five kinds of tasks command each other
through event groups, message queues, buffers and shared registers. TLC checks
the modules on small instances; TLAPS proves the most important invariants for
every value of the constants.

Run from this directory:

    tlc -workers 2 -config MCPlayer.cfg MCPlayer     # and so on for each .cfg
    tlapm AudioPlayerProcessProofs.tla
    tlapm AudioMsgQueueProofs.tla
    tlapm CommonEventProofs.tla
    tlapm PlayPipelineProofs.tla
    tlapm RingBufferProofs.tla
    tlapm CommonBufferProofs.tla
    tlapm HttpDownloadProofs.tla
    tlapm AudioManagerProofs.tla

In this file paths are below `src/src/` unless they start with `project/`.

## 1. The system

Two players exist, a *prompt* player and a *resource* player (audio_manager.c).
A session runs through this pipeline:

    caller -> audio_mgr_* -> message queue -> audio_mgr_task -> audio_player_*
                                                                    |
                           event group of the player (START, STOP, PAUSE, ...)
                                                                    v
    HTTP server -> http_download_task -> common_buffer -> audio_player_task
                                              |              | com_player_*
                                              v              v
                                        mp3_decoder task -> ring_buffer -> pcm_trans task -> ALSA

| Component | Files | State | Operations | Interacts with |
|---|---|---|---|---|
| player process | media/audio_player_process.c | `cur_state`, `event`, `mutex_handle`, `player_handle`, `last_error` per player; `g_registers`, `g_common_mutex`, `g_last_alloc_handle` shared | start, stop, pause, resume, break, get_play_state; the worker task | is called by the manager and by the workers of other players; calls the common player and the download task |
| common player | media/common_player.c | the decoder and the ring buffer of a player | com_player_start, pause, resume, stop, auto_resume; the PCM callback | decoder, ring buffer, PCM output |
| PCM output | media/pcm_trans.c | `pcm_trans_cur_state`, the callback and its parameter, an event group | init, start_tx, stop_tx, resume_tx, its task | one device for all players; asks its callback for data |
| MP3 decoder task | media/mp3_decoder.c | `cur_state`, `event`, the input and the output position | init, start, pause, resume, stop, deinit, its task | takes data from the input callback, pushes to the ring buffer |
| message queue | media/audio_message_queue.c | `messages[length]`, a mutex, a signal | init, send, recv | manager's API threads and manager's task |
| audio manager | media/audio_manager.c | the two players, the play list, the pending resume | audio_mgr_* and its task, callbacks of the players | queue, player process |
| ring buffer | media/ring_buffer.c | `in`, `out`, `buffer`, a lock | init, push, pop, clear, counts | decoder pushes, PCM callback pops |
| download buffer | network/common_buffer.c | a list of nodes, `count`, a mutex | init, push, pop, clear, counts | download task pushes, decoder's input callback pops |
| download task | network/http_download_process.c | `cur_state`, an event group, the positions | start, stop, pause, resume, wait_buffer, its task | HTTP client, download buffer, player process |
| HTTP client | network/httpclient.c | the socket, the chunk and content lengths | connect, send, recv, redirect | download task |
| event group | com/common_event.c | bits, a mutex, a condition variable | set, wait (any bit, clear on exit), clear | everything above |
| platform layer | com/typedefs.c | - | tasks, semaphores on pthreads | everything above |
| ID3 tag parser | media/id3tag.c | none | length of a tag | decoder |
| libmad, test program | media/mad.h, project/audio_player/*.c | - | - | not part of the player's logic |

### What is hard

* **Commands are bits, answers are bits.** `audio_player_stop` sets STOP and
  waits for STOP_DONE, up to 30 s; then the caller goes on as if it had been
  answered. A bit says nothing about which call or session it belongs to: a
  late answer may be taken by a later call, a command that found no one is
  still there for the next session.
* **The workers call each other.** In STA_START a worker breaks the players that
  play, in STA_STOP it resumes one that is broken. The registry it walks is not
  locked (`taskENTER_CRITICAL` is empty in com/typedefs.h), so a worker tests
  one state and acts on another, and workers wait for each other.
* **One device.** Both players attach themselves to the one PCM task and stop it.
* **Counts without locks.** Both buffers report counts that are read without the
  lock and acted on later.
* **Wake-ups.** The queue's binary semaphore is a pthread mutex that another
  thread unlocks; the event group signals one waiter.
* **Free running counters**, a mask that needs a power of two, a list whose
  nodes are created in the middle of a push.

`PROJECT.json` lists each hazard with its line and the properties that cover it.

### What makes each component correct

* player process: an answer is only set in the state it promises; a session
  starts with no command left over; workers never wait for each other in a ring;
  every call returns; two players never drive the device at once; a player that
  plays can be found by the others.
* common player, PCM output, decoder: all data decoded is played before the end
  is reported; a stop is always answered; an underrun is always followed by a
  resume; a player stops no session but its own.
* message queue: no accepted message is lost, none is received twice or after it
  was freed, the receiver never sleeps on a message.
* audio manager: the prompt is heard before the play list goes on; no circular
  wait between its task and the workers' callbacks; no use of a message after it
  was sent.
* ring buffer, download buffer: first in, first out, each byte once; the counts
  err on the safe side.
* download task: the positions match the bytes delivered, over every answer and failure;
  pause, resume and stop reach the task in each of its states.
* HTTP client: a call returns; an answer is retrieved whole, however it is cut into chunks.
* event group: its operations are atomic; a set bit reaches the thread that waits for it.

## 2. The modules

| Module | Models | Kind |
|---|---|---|
| `AudioPlayerProcess` | the worker, the API, the registry, the locks, the device as the workers see it | detailed |
| `MCPlayer` | its instances for TLC | |
| `AudioPlayerProcessProofs` | type invariant, StopDoneMeansIdle, CrossCallerHidden, NoWaitRing, AnswersKept, OnlyEndedStartsStarve, Visible, DeviceKept | proofs |
| `AudioMsgQueue` | send and recv, loop iteration by loop iteration | detailed |
| `Mailbox` | a place for one message | abstract |
| `MCQueue`, `AudioMsgQueueProofs` | instances; type invariant, NoLostWakeup, the refinement of Mailbox | |
| `ByteFifo` | a bounded stream of bytes: pushed at one end, popped at the other | abstract |
| `RingBuffer` | the ring buffer with wrapping counters and the callback's unlocked reads | detailed, implements ByteFifo |
| `RingBufferInit`, `MCRing` | extends it by ring_buffer_init: any size, the rounding and the mask | algorithm, composition |
| `CommonBuffer`, `MCCommon` | the node list, one loop iteration per step, malloc failures, the unlocked counts | detailed, implements ByteFifo |
| `RingBufferProofs`, `CommonBufferProofs` | CountsSound, ListSound, SizesKept, both refinements of ByteFifo | proofs |
| `PcmTrans`, `MCPcm` | the PCM task and the calls that start, stop and resume it, for any number of workers and decoders; the data callback is abstract | detailed |
| `HttpDownload`, `MCHttp` | the download task and the calls of its player's worker, with the answers of the server and the accounting of httpclient.c | detailed |
| `HttpDownloadProofs` | type invariant, BuffersOutliveUse, NothingStarves, StreamExact | proofs |
| `AudioManager`, `MCManager` | the manager's requests, its task, both players' workers and their callbacks, over `Mailbox` | composition |
| `AudioManagerProofs` | IndexInRange with the type invariant, StopHolds, OnlyReportsDeadlock | proofs |
| `EventGroup` | bits that are set, taken and cleared at once | abstract |
| `CommonEvent`, `MCEvent` | the same over a mutex and a condition variable | detailed, implements EventGroup |
| `CommonEventProofs` | type invariant, SignalReaches, the refinement of EventGroup | proofs |
| `PlayPipeline`, `MCPipe` | extends `PcmTrans` by the decoder task, com_player_* and the real callback: one player, session after session | composition |
| `PlayPipelineProofs` | of `PcmTrans`: type invariant, OneTask, EndIsQuiet, StopAnswered, CrashesOnlyDetaching; of `PlayPipeline`: type invariant, NothingLeftOver, CrashesOnlyInStops, SoundIsHeard, PausedHolds | proofs |

Operators marked `MUTATION` are faulty variants of the definition after them: no
action uses them. Each names the property that fails when it does.

### AudioPlayerProcess

A thread is a *caller* or a *worker* (a player). `wpc[p]` is the place of the
worker of p in `audio_player_task` and the functions it calls; `call[t]` is the
API call that thread t is in, with its own place. Both interleave at every
access to shared state: each change of `cur_state`, each access to the event
group, each lock, each read of `g_registers[i]`.

| Code | Actions |
|---|---|
| STA_IDLE (lines 716-733) | IdleAck, IdleWait, IdleLeft, IdleGo |
| STA_START, audio_player_proc_start | OpenFile, ScanLook, ScanDeref, ScanCall, ScanReturn (before_start), Register, RegisterWrite, ComStart, ComWait, StartState, StartAck |
| STA_PLAY, audio_player_monitor | PlayWait, PauseCom, PauseState, PauseAck, Monitor |
| STA_PAUSE, STA_BREAK | PauseWait, ResumeCom, ResumeState, Monitor |
| STA_STOP, audio_player_proc_stop | StopCom, Unregister, the Scan actions (after_stop), StopIdle |
| audio_player_start .. _break | Begin, CommonLock, Lock, Check, Post, Wait, Timeout, Clear, Unlock, Setup, UnlockStart, CommonUnlock, Poll |
| the decoder and PCM tasks | Drain, DecoderError, DownloadPaused |

A wait that gives up after 30 s is `Timeout`. It may always happen when the
answer can no longer come (`Starved`), and `MaxTimeouts` times when it still
could. `common_wait_event` does not look at the bits again after
`pthread_cond_timedwait` has expired, so a call that had begun to wait may give
up although the bit is being set; the bit then stays set.

A dereference of a registry entry that has become NULL leads to `crashed`. The
model shows that it is reachable; no property excludes it.

### AudioMsgQueue

`xSemaphoreCreateBinary` is a pthread mutex created unlocked (com/typedefs.c):
Take locks it, Give unlocks it although another thread locked it. POSIX leaves
that undefined; the model takes what glibc's normal mutex does, which is what
the program relies on. `i`, `j` are `uint8_t`: the assumption `Length \in 1..255`
comes from there.

### The buffers

`RingBuffer` keeps `in` and `out` modulo `Modulus`, as uint32_t does, with the
modulus made small enough for TLC to reach the wrap. `RingBufferInit` adds ring_buffer_init, which
rounds any size up; those that become `Size` are used. `CommonBuffer` is stepped
per loop iteration since `common_buffer_get_count` and `_get_free_count` read
`count` without the mutex. Both carry numbered bytes, and `ByteFifo` states that
what comes out is what went in, in order.

### PcmTrans and PlayPipeline

`pc[u]` is the place of worker u in pcm_trans_start_tx or _stop_tx, `task` the
place of the PCM task, "none" when there is no such thread. Each load and store of
`pcm_trans_cur_state`, of the callback and each access to the event group is a step
of its own: pcm_trans.c has no lock. Lines 202-204 load the callback twice, which is
what the build (no -O) does. When NULL is called, or a second task is created, the
behaviour ends there (`crashed`, `overlapped`). A start or a resume is possible at any
moment (`CallStart`), also while another worker plays, starts or stops: com_player_start
and com_player_resume look at no other player. What keeps a start from doing so is the
scan of AudioPlayerProcess; nothing keeps a resume from it. `contended` remembers that it
has happened, `rivals` two stops at once and `failed` a write that failed, so that a
property can say when something is safe.

`PlayPipeline` takes these actions as they are (with `OneWorker`: Users = {Player}, Feeders = {Decoder})
and replaces the abstract callback, start and stop by the real ones:

| Code | Actions |
|---|---|
| com_player_start | Begin, DecoderInit, RegisterCallbacks, DecoderStart, WaitDecoder, Started |
| STA_PLAY: commands, play_monitor | Command, Monitor, AutoResume |
| com_player_pause, _resume | Halt, DecoderPause, DecoderPauseSet, Resume |
| com_player_stop | Halt, Unregister, DecoderStop, DecoderStopped, DecoderExit, DecoderJoin, DecoderJoinNothing (a decoder that was never made), Clear |
| mp3_decoder_task | DecTop (the error handler), DecWait, DecSetState, DecAnswer, DecOutput, DecNotify, DecPushed, DecInput, DecRead, DecReadNothing, DecDecode, DecFinish, DecGiveUp |
| __pcm_trans_data_request_callback | CbCount, CbFreeCount, CbOutputDone, CbDecide, CbResume, CbGive |

Sound is counted, not stored: `RingBuffer` shows that the ring buffer keeps its bytes.

### HttpDownload

`pc` is the place of the task in the loop of http_download_task, `rpc` the place of
the player's worker in http_download_start, stop, pause, resume or deinit; `Calls`
says which of them audio_player_process.c makes when. Each access to the event group
and to `cur_state` is a step. Data is positions: `recv_at` is the place in the file of
what lies in the receive buffer, so that a block that is skipped or fetched twice
shows. One block is half of what the receive buffer holds.

| Code | Actions |
|---|---|
| the top of the loop (lines 627-646) | PollEvents, Apply |
| STA_IDLE, STA_START, STA_STOP, STA_PAUSE | IdleAck, IdleWait, IdleLeft, IdleGo; StartBody, Started; StopBody; PauseBody, PauseWait, PauseLeft |
| STA_CONN | ConnOpen, ConnSend (with RangeCount and the server's Answer) |
| STA_RECV | Recv: an outcome of httpclient_recv_response (RecvOutcomes) and what becomes of it (Received); RecvHangs: it does not return |
| STA_PUSH_DATA, STA_WAIT_FREE, STA_WAIT_RANGE | PushData, WaitFree, WaitRange |
| http_download_start, _stop, _pause, _resume, _deinit | Begin, StopCheck .. Delete, Wait, Timeout |
| the decoder's input callback | Pop |

httpclient.c appears as operators on `client`. `Parse` is the headers, `Retrieve` one buffer
of the body: MORE when it is full, OK for the last, shorter piece, `Failed` an error. What lies
beyond a full buffer is kept only inside a chunk, so a chunk that ends just there leaves an
`edge`: the next call meets a malformed length, or goes on (`Rejoined`) with the data in place,
or with some of it lost (`foreign`), or finds no length any more (`LosesLength`). The other
loops without an end, in the headers and where a chunk begins, need a connection that closes
or falls silent (`LosesAnswer`). Both are `RecvHangs`, after which the task looks at no bit.

The server (`Answer`) knows ranges, or sends the whole file with its length, or in chunks.
`MaxFaults` times in all something goes wrong: a connection or an answer that breaks, a
request that cannot be sent, a refusal without a body, a redirection, an answer with a body that
is not the file (`OtherPages`: the page of an error or of a second redirection, of any length in `Pages`,
chunked or not), an allocation or a push that fails, the latter with any part of its bytes pushed.
`spoiled` remembers that data other than the next of the file was taken, or a push has
failed. A download that never ends is followed up to `MaxPos` blocks (`Halt`).

### AudioManager

Three kinds of threads share the manager's variables: the users, the manager's task,
and the workers of both players in their callbacks. `todo[t]` is what thread t has
still to do, as a list of calls in the order of the source; a call is an action, or
becomes the calls it consists of. The calls of a player (`Check`, `Post`, `Refused`,
`Answer`, `Timeout`) and its worker (`WorkerStep`) are those of AudioPlayerProcess,
in coarser steps: looking at the state and taking the lock is one, and so are IDLE and
STOP_DONE. `WaitsFor(t)` is the thread that t cannot go on before, so that circles of
waits can be spoken about; `overrun` remembers the players that audio_player_start has
started although the stop before it had given up on a session that was not over. The card answers with `NumFiles` files; the server that
is asked for a next title answers, if at all, with a call of its own.

### CommonEvent

`pc[t]` is the place of thread t in common_set_event, _clear_event or _wait_event. The
bits are read in one step and written in another, as `|=` does, since that the mutex makes the
two one is what is to be shown. A sleeping thread has released the mutex; it may be woken by a
signal, without one, or by its time-out, after which it does not read the bits again.
The other modules use event groups as `EventGroup` states them, with one thread asleep in a group
at a time; `SignalReaches` says why that matters.

## 3. What the runs check

| Run | Instance | Properties | What it shows |
|---|---|---|---|
| MCPlayer | 2 players, 2 callers, 3 calls, 1 slow wait | TypeOK, CrossCallerHidden, StopDoneMeansIdle, AnswersKept, Visible, OnlyEndedStartsStarve, DeviceKept | the protocol between API and workers and between workers, also when a call overtakes the session it belongs to; who drives the device |
| MCPlayerLive | 2 calls, fair threads | CallsReturn, FinishSeen | no deadlock between API calls and workers; wait_finish ends |
| MCQueue | 5 slots, 4 events (those of the manager) | TypeOK, NoLostWakeup, MailboxSpec, Delivered | no wake-up lost, each message received or replaced; what the queue really is |
| MCQueueLoss | 5 slots | NoSilentLoss (violated) | messages are lost: see below |
| MCRing | 4 bytes, counters modulo 16; sizes around each power of two up to 2^30 | CountsSound, FifoSpec, SizeSound | FIFO across both wraps, stale counts are safe; the mask is always sound |
| MCCommon | nodes of 3 bytes, 5 bytes in all | ListSound, SizesKept, FifoSpec | FIFO across nodes, and with malloc failures; checks without the lock are safe |
| MCPcm | 2 workers, 2 decoders, writes may fail | OneTask, EndIsQuiet, StopAnswered, CrashesOnlyDetaching | starts, resumes and stops at any moment: what must have happened for a stop to hang, a second task to be created, or NULL to be called |
| MCPipe | 2 sessions, 1 pause, 2 frames a chunk, errors, writes may fail, fair threads | TypeOK, NothingLeftOver, CrashesOnlyInStops, PausedHolds, SoundIsHeard, PipelineEnds, StopReturns | a session leaves nothing behind; what is played; decoder and device never both stay paused; a stop returns, also one before the first decoder unless it crashes there |
| MCPipeEnd | 1 session, no pause | NoDataIsLeft (violated) | the end is reported with sound in the buffer: see below |
| MCHttp | a file of each kind, 3 calls, 2 faults, fair threads | StreamExact, BuffersOutliveUse, NothingStarves, DownloadEnds | the file arrives once, whole and in order, up to the named exceptions; stop and resume reach the task; a download that is left alone ends |
| MCManager | 1 user, 2 calls, 2 files, 1 slow wait, fair threads | IndexInRange, StopHolds, OnlyReportsDeadlock, ManagerReturns | the play list, a stop against the end of a title, who waits for whom |
| MCEvent | 3 threads, 2 bits | SignalReaches, EventGroupSpec | event groups are atomic; which wake-ups are lost |

Some properties are conjunctions of named parts, one idea each, stated beside them:
`AnswersKept` of CleanStart, HaltAcked and StartAcked, `DeviceKept` of OneDriver and
PlaysItsOwn, `CountsSound` and `SizesKept` of what the unlocked counts promise to the
writer and to the reader, `NothingLeftOver` of InfoKnown and SessionIsClean.

What the models taught about the code:

* **The message queue drops messages** (finding). The shift in
  audio_message_queue.c:77-80 runs for every slot, not only for one whose message
  was superseded. Its first iteration overwrites slot 0. A queue of two or more
  slots is a mailbox for one message: a send discards the pending message,
  whatever its event, and leaks its data; the "full" branch is never reached.
  `MailboxSpec` holds, `NoSilentLoss` does not.
* **The end of the sound may be cut off** (finding). The PCM callback reads the count
  (common_player.c:215) before it asks whether the decoder is done (line 221). A last
  frame pushed in between is counted as none, the end is reported with it in the
  buffer, and the monitor stops the session. `SoundIsHeard` bounds the loss by what was
  pushed since the count was read.
* **A stop of the PCM output may hang for ever** (portMAX_DELAY), in three cases, which
  `StopAnswered` names: a write failed, so that the task has left without an answer
  (pcm_trans.c:220); two workers stop at once and one TX_STOP_DONE is set; one worker
  starts or resumes the device while another has it or stops it, which clears the TX_STOP
  (line 71). A start may do that since a worker that starts waits for players in STA_PLAY, not for
  one in STA_STOP; a resume since it waits for nobody.
* **A resume beside a player that plays makes a second PCM task**, without any stop. When A is
  paused, B plays and A is resumed, com_player_resume (common_player.c:143) calls
  pcm_trans_start_tx, which looks at no task that exists: both tasks then share one state, one
  event group, one device handle. `OneTask`, `EndIsQuiet` and `StopAnswered` hold as long as nobody
  starts or resumes the device beside another user (`contended`); from the second task on (`overlapped`)
  the model says nothing.
* **NULL may be called** when a worker detaches a callback: the PCM task tests and
  loads it in two steps; the decoder does not test it (mp3_decoder.c:265, 376) although
  com_player_stop removes it while the decoder may run (common_player.c:117-118).
  `CrashesOnlyDetaching` says that, as long as there is one task, the PCM task does so at no other time,
  `CrashesOnlyInStops` that one player's session crashes only in a stop or a pause.
* **A stop before the player's first decoder joins no thread.** com_player_init clears the
  player, so decoder_type is MP3 and the decoder's state IDLE; a session that fails before
  com_player_start is stopped all the same, and mp3_decoder_deinit calls pthread_join with a handle
  of 0 (mp3_decoder.c:65). That is undefined: `DecoderJoinNothing` crashes or goes on.
* **The resume of an underrun may be lost** between the callback and pcm_trans.c:230;
  com_player_auto_resume repairs it, and `PipelineEnds` fails without it.
* **resume is not protected against start.** `audio_player_resume` takes no
  common lock and does not wait; a player resumed while another one starts plays
  together with it. `OneDriver` therefore covers the behaviours without a resume.
* **A session that fails at once** may be back in STA_IDLE, where START_DONE is
  cleared (line 718), before the starter has taken it: `audio_player_start` then
  waits its full 30 s, with the common lock held. `OnlyEndedStartsStarve` says
  that this is the only wait that can starve.
* **A registry entry may be NULL when it is dereferenced** (lines 349, 368).
* **com_player_stop stops the device whoever uses it** (line 630), so `PlaysItsOwn`
  holds as long as no other player has been started.
* **A pause or a resume of the download may be lost or come too late.** The task takes
  the PAUSE bit (http_download_process.c:635) before it sets its state (line 642); a resume
  in between finds no pause and does nothing, and the download stays paused.
  `NothingStarves` says that there is no other way for a task that does not spin (see below). A pause is obeyed in any state: one that
  arrives when the download is over makes the task connect again, with its buffers freed or for data it has.
  A start that finds the task in such a late pause leaves its START bit behind, and the task
  takes it for a second start once the session is over (`Answers` says which start is the one that is waited for).
* **A range may be empty.** After a pause with a full buffer the range asked for is
  the free room, none (line 381); what a server answers to bytes n to n-1 is then taken for the file.
* **A chunk that ends where the receive buffer is full is misread.** Line 691 of
  httpclient.c keeps what has been read beyond the buffer only inside a chunk. The CRLF that ends
  this one is lost with what follows it, and the next call takes something from the middle of the body for
  a length: an error, and the file is asked for again, or data is
  lost (`StreamExact` exempts it as `spoiled`), or the search never ends, all without a failure of the
  network, and although lines 71-72 call the loss of data in chunk mode a bug that is fixed. A chunked file whose
  length is a multiple of the receive buffer always ends so; at best its end comes without
  data, and the file is fetched again (`Endless`).
* **httpclient.c may loop for ever**, in the download task, which then
  obeys no STOP: at a chunk header, when the connection closes or falls silent or the buffer holds no
  CRLF (lines 735-766; the limit of 5 s is in the loop below), and inside the headers when
  the connection closes (lines 952-964; httpclient_recv returns no error then). The
  properties exempt just the state in which the task spins.
* **The page of an error is played as the file.** A status that is not 2xx is only logged
  (httpclient.c:917), and a second redirection is not followed; what comes as their body is pushed,
  and the download ends well with it. `spoiled`, once such data is taken.
* **A chunked answer is never forgotten.** is_chunked (http_download_process.c:507) is not cleared in a
  session: after one such page among ranges the length of the file is not looked at
  any more (line 591), and ranges beyond its end are asked for.
* **A push that fails leaves a gap.** Line 568 does not look at the result of common_buffer_push and counts
  all bytes as pushed; the download ends as if it were whole (`spoiled`).
* **http_download_stop gives up after 30 s** and its caller takes `url` and `http_buffer` away from the
  task that still runs (line 109), because it is slow or because it spins; `BuffersOutliveUse` names both.
  Two such waits in a row let the next start replace the file under a task that is pushing the old one, which the
  proof of `StreamExact` showed; the properties exclude any such wait but that of a task that spins.
* **A wake-up of an event group may go to the wrong thread** when two sleep on
  different bits (common_event.c:21, one signal). In the players it does not: the lock of
  the player lets one caller wait at a time, and the thread that sets a bit is awake, so
  that only one sleeps.
* **The manager's threads wait in a circle** when the worker of the resource player
  reports an error from its callback and waits there for a flash prompt to end, while
  that prompt's worker, in its START scan, waits for the resource player to answer a break. The 30 s of
  the break end it. `OnlyReportsDeadlock` says that no other circle exists.
* **A prompt may be started over the head of another.** When the stop in
  `audio_player_start` gives up after its 30 s (the prompt's worker may wait that long for
  a resource player whose user waits in turn), the start goes on: it replaces
  `player_info` and leaves a START for later, and a worker that reports the error of a web
  prompt finds a flash prompt in `player_info` (audio_manager.c:229) and waits for itself. The proof of
  OnlyReportsDeadlock showed that two users reach this without any slow wait, which MCManager, with one user, does
  not: `StopHolds` and `OnlyReportsDeadlock` exclude the behaviours in which it has happened (`overrun`).
* **A STOP may be lost in the mailbox** to a message that is sent before it is taken (see above);
  `StopHolds` speaks of those the manager has taken.
* **Prompts out of the flash do not play in this source**: the branches that would read
  them are compiled out (audio_player_process.c:432, 530), so com_player_start gives up
  after 15 s and the session ends with an error.
* **A caller of wait_finish on a player that is paused waits until someone resumes it**; and
  a worker whose player is restarted over its head (`overrun`) may wait for
  itself in audio_mgr_player_prompt_wait. `AtRest` admits just these stops.
* **Two threads that move the index of the play list** skip a title; `IndexInRange`
  says that no more comes of it, if the card holds files. With an empty card
  the path of file -1 is asked for.

### Bounds

* Two players: the program has two. Two callers: the manager's task and one
  more, enough for two calls on one player and one on the other at a time. Three
  or four calls: start, then break or pause, then resume or stop of either; a
  start of B that breaks A, and a stop of B that resumes A, are two of them.
  `MaxCalls` bounds calls of callers only, workers call as often as they like.
* One slow wait (`MaxTimeouts`): a call that overtakes its session; what a second one
  could add is covered by the proofs of StopDoneMeansIdle and CrossCallerHidden. Waits that cannot be answered are free.
* `MCQueue*`: two senders; three sends let a sender find a
  message of its own and of another event, before, at and after the slot that is
  emptied.
* `MCRing`: 4 bytes with counters modulo 16 wrap the index four times for each
  wrap of a counter; chunks up to the size. Bytes are numbered modulo one more than the size,
  so two bytes in the buffer never have the same number.
* `MCCommon`: nodes of 3 bytes and 5 bytes in all, so that data spans two or three
  nodes, a node wraps, and the sizes do not divide each other (as 5 KiB nodes
  and any maximum may not).

* `MCPcm` is unbounded in time: its state is finite. Two workers are the program's
  two players; with two, a start or a resume and a stop, two starts or two stops overlap in every order.
* `MCPipe*`: a ring of 3 units, frames of 2 and requests of 2, so that a frame does not
  fit, or fits in part, and the callback's test `free_count > count` goes both ways;
  two chunks of two frames fill the ring more than twice; two errors in a row end the
  session (20 in the code); two sessions, so that the second finds what the first
  left; one pause. MCPipeEnd has one session and no pause.
* `MCHttp`: a receive buffer of 2 blocks and room for 3, so that a file of 5 takes several
  ranges and a range several pieces, and room, range and piece do not divide each other; a plain
  file of 4 is a multiple of the receive buffer and longer than the room; a chunked one of 3 may have an
  edge inside and ends with a short piece (of one of 4 StreamCorrect speaks, and DownloadEnds does not). Pages have 1
  block: the first that is taken is enough for `spoiled`. Three calls: start, pause, resume; start, pause, stop;
  start, stop, start. Two faults and limits of 2 (5 and 15 in the code): one failure that
  is survived and a second that is given up on. No wait gives up on a slow task: all four properties exempt
  that, and the proofs cover any number; waits for a task that spins or rests do give up. MaxPos 6 is more
  than any file: an empty range may push one block too many before the end is seen, and a download that pushes
  still more is spoiled, and followed no further.
* `MCManager`: two calls of one user, next to the manager and two workers that start titles and
  report errors on their own; two files let the index wrap at both ends. The state space with three
  calls was searched for the invariants to more than 20 million states, not to its end.
* `MCEvent`: three threads (one that sets, one woken, one passed over) and two bits.

Symmetry (callers, players, workers, decoders, threads, bits) is used in the runs that check invariants only.
No bound is in Init or in a property; `Quiescent` lets a behaviour stop when the
calls are used up and everyone waits, and only then: any other stop is a deadlock
that TLC reports.

### Fairness

`FairSpec` of AudioPlayerProcess: weak fairness for each worker and each API call,
since each is a pthread that the kernel schedules and that never stays disabled
by choice; and for a wait that cannot be answered, which the clock ends after
30 s. No fairness for the decoder, the device, the end of the music or the waits that
are merely slow: a song may be endless. In AudioMsgQueue the receiver's loop and
a send that has begun are fair; nobody is obliged to send.

`FairSpec` of PlayPipeline: weak fairness for each of the three threads. That the
device takes what is written (no failed write) and that the input callback returns
(it gives up after 17.5 s at most) are part of it. The worker need not get commands.

`FairSpec` of HttpDownload: weak fairness for the task, a call that has begun, a wait that
cannot be answered, and the decoder that goes on reading while the session plays (a download
that nobody reads waits for room by design). It is fairness of the task's steps, not of httpclient.c's
loops: RecvHangs is a step, and a task that spins takes no other, so `DownloadEnds` exempts that state. None
of it is required beyond a crash or MaxPos, where the model stops. `FairSpec` of AudioManager: weak fairness for every
thread's calls and for each worker, but not for the end of a title: a stream may be
endless, and wait_finish may wait for it for ever. EventGroup and the buffers state no liveness.

## 4. What is proved

For every set of players, callers, every number of slots, calls and time-outs:

* `TypeCorrect`: Spec => []TypeOK. It includes that the loops over the registry
  stay within it.
* `StopDoneCorrect`: Spec => []StopDoneMeansIdle, even when waits time out at any
  moment. The invariant is not inductive alone: that IdleAck sets the bit in
  STA_IDLE follows from `WhereInv`, which says which places of the worker belong
  to which `cur_state`.
* `CrossCallerCorrect`: a worker that is in another player's API is not in the
  registry. Inductive strengthening `RegistryInv`: a worker between Unregister and
  RegisterWrite is in no slot, and it calls only from there.
* `NoWaitRingCorrect`: hence no ring of workers that wait for each other: the one
  that is waited for was found in the registry, and is in no call.
* `AnswersCorrect` and `StarveCorrect`: Spec => []AnswersKept, Spec => []OnlyEndedStartsStarve. Both follow
  from `Prompt`, under who holds which lock (`LockInv`): what the bits of a player's event group can be at each
  place of the call that holds its lock and each place of its worker, before a START is taken (`FreshInv`), until
  it is answered (`StartingInv`), and for a stop, pause or break (`StoppingInv`, `HaltingInv`). It
  holds while no wait has given up on a worker that is still at work (timeouts = 0): the late answer to such a wait stays
  set for the next call, and the two properties say nothing of it.
* `VisibleCorrect`: `Fits` => (Spec => []Visible), where `Fits` is that there are as many slots as players (the program
  has two players, audio_manager.c:82-83, and 10 slots). Lines 310 to 315 search for a free slot and
  write it without a lock; `RegisterInv` shows why no other worker does so meanwhile: START is set by who holds
  the common lock, which it keeps until START_DONE (`OneStarter`). That there is a free slot follows by counting (`RegisterFits`).
* `DeviceCorrect`: `Fits` => (Spec => []DeviceKept). For OneDriver, `DriveInv`: while a worker in START goes through the
  registry, whoever drives the device is in a slot it has not yet passed or is being broken. For
  PlaysItsOwn, with any number of given-up waits: `UntouchedInv`, a player never started stays at rest, and
  `OwnInv`, the worker between pcm_trans_start_tx and the end of its session owns the device if the others do rest.

For every length of the queue and every set of senders and events:

* `QueueTypeCorrect`, `NoLostWakeupCorrect`: Spec => []TypeOK and the wake-up
  invariant (inductive as it stands).
* `MailboxCorrect`: Length > 1 => (Spec => MailboxSpec). Initial states map to
  initial states and every step to Put, Take or a stutter, under `BoxInv` =
  TypeOK, `MutexInv` (who is in the loop holds the mutex, so there is one) and
  `OneSlotInv` (outside a send only slot 0 is used, inside none).

For any number of threads and any bits:

* `SignalCorrect`: Spec => []SignalReaches. Inductive together with `TypeOK`, `MutexInv`
  (who is between lock and unlock holds the mutex) and `ReadInv` (what has been read
  there is still what the group holds): without the latter a write could set a bit
  that no signal goes with.
* `GroupCorrect`: Spec => EventGroupSpec, from the same invariant: a set or a clear is the step
  that writes, a wait the step that takes, all others stutter.

For any number of workers and decoder tasks that use the PCM output:

* `PcmTypeCorrect`, `OneTaskCorrect`, `EndIsQuietCorrect`, `StopAnsweredCorrect` and
  `CrashesCorrect`, from one inductive invariant, `IInv`. Most of it holds only while no
  worker starts or resumes the device while another has it, starts it or stops it (~contended), and says
  who answers for what: a task has a worker that will stop it (`OwnerInv`), each TX_STOP, pending or
  taken, one of its own that waits for it (`StopInv`), who starts finds all others at rest (`StartInv`).
  StopAnswered needs more: with one worker stopping, the TX_STOP it has set is pending before
  a task that lives, or taken (`AnswerInv`). And `pcm_trans_stop_tx` skips the wait
  when the state is EXIT, which must be so only when there is no task to stop (`ExitInv`).

For every size of the pipeline's ring buffer, frames, requests and chunks, and any number of sessions,
pauses and errors (one player, as in PlayPipeline):

* `PipeTypeCorrect`, `NothingLeftCorrect`, `CrashesInStopsCorrect`, and the action properties `SoundCorrect`
  and `PausedCorrect`, from one inductive invariant, `DeviceInv /\ PipeInv`. `DeviceInv` is the invariant of
  PcmTrans: `DeviceKeeps` shows that every step of the pipeline is a step of PcmTrans with one worker (which
  cannot contend with itself), or leaves alone what that invariant speaks of. So the device needs
  no second proof, and its task is gone when a stop has returned (`IdleDevice`). `PipeInv` adds where the call of the
  device is at each place of the worker (`UserInv`), when there is a decoder and when it has its callbacks
  (`DecoderInv`), that a DECODER event is of this session (`SessionInv`), and that the ring holds no more than
  what was counted and what was pushed since (`HeardInv`). Both halves hold only up to a crash, after which nothing happens.

For every size of the ring buffer that divides the modulus of its counters:

* `CountsCorrect`: Spec => []CountsSound, inductive with the bound GetCount <= Size.
* `FifoCorrect`: Spec => FifoSpec. What is stored is read off at the positions `out`,
  `out + 1`, .. modulo Size, while the counts are taken modulo Modulus: `AtModulus` shows that the
  two agree across a wrap because Size divides Modulus, `CopyInPlaces` and `CopyOutPlaces`
  that the two halves of a copy (memcpy up to the end, then from the start) are one piece.

For every size of the nodes and of the download buffer, and any sizes of pushes and pops:

* `ListCorrect`, `SizesCorrect`: Spec => []ListSound, Spec => []SizesKept, also when a node
  cannot be allocated. The inductive invariant adds who holds the mutex (`MutexInv`) and how far
  the loop of a push or a pop has got (`PushInv`, `PopInv`: what is copied so far and what is
  left fits what was seen before).
* `FifoCorrect`: Spec => FifoSpec. A push is the step that ends its loop: until then the bytes
  of the nodes change under the mutex, and `PushPassList`, `PopPassList` say by which bytes. What the list stores
  is defined by recursion (FlattenSeq); the first section of the module proves, by an induction over
  sets of numbers (`SetInduction`), how it grows at one end and shrinks at the other.

For every set of files and of other pages, every size of the receive buffer and of the download
buffer, and any number of calls, faults and given-up waits:

* `BuffersCorrect`, `StarvesCorrect`: from `Control`, which says where the task and its player's worker can be
  together. Most of it holds while no wait has been given up, no pause came late and the task does not spin
  (`CalmInv`): who has
  been started and not stopped (`StartInv`, `EndedInv`), who holds the buffers (`HoldsInv`), that a stop that
  waits has its STOP bit or its answer before it (`StopWaitInv`), that a task that is paused has been told
  so by the session it belongs to (`PauseInv`).
* `StreamCorrect`: Spec => []StreamExact, from Control and `DataInv`: where the server is reading, what lies in
  the receive buffer and what has been pushed are parts of the file that follow each other (`Fetch`,
  for each of the states of the task), and a task that has ended a session without an error has pushed all of
  it (`EndInv`). Control is needed so that no new file is attached to a task at work. DataInv holds in the
  behaviours StreamExact is about (`Clean`), and while the task does not spin, which receives and ends nothing. An
  answer that is not the file is in it up to the point where its data is taken.
* `TypesCorrect`: Spec => []TypeOK, with the types of http_proc, client_data and the answers on the wire.

For any number of users, calls, given-up waits and files of the card:

* `ManagerInvariant`: Spec => []IInv. The state of a thread is the sequence of calls it has still to do, and most of
  IInv is about those sequences. `TodoInv`: which calls each thread may come to (the manager never waits for a
  prompt, a worker calls the other player from open or callback only). `CommonInv`: who holds g_common_mutex is between the
  lock and the unlock of audio_player_start, and nobody else is. `LockInv`: who holds a player's lock makes a
  call of that player. `WorkerInv`: the state of a player by the place of its worker; the two workers do not both call each other.
* `IndexInRangeCorrect`: Spec => []IndexInRange, which includes TypeOK. IndexInRange is not inductive: with
  several threads that move the index it may be further out than one look brings back in one go. `IndexInv`: it
  is out of range by no more than the number of threads that have still to look at it.
* `OnlyReportsCorrect`: Spec => []OnlyReportsDeadlock (`NoCircle`). A circle contains a worker, since a thread that
  is no worker waits, over locks, for one in the end: a holder of a player's lock waits for nothing but that player's
  worker, and the holder of g_common_mutex is never at common_lock or prompt_wait. Of the workers only one calls
  the other, and one that has left its session waits only for the prompt.
* `StopHoldsCorrect`: Spec => []StopHolds. `OrderInv` and `QuietInv`: once g_audio_auto_next is clear and no thread is
  about to start, nothing that is left to do begins a session of the resource player. `HeldInv`: the player is held from
  the end of a stop to the start after it. That a stop which gives up has not left it playing (`StopDone`)
  needs NoCircle: such a wait is starved only if its worker rests, or is in a circle, and then it is in its callback.

Assumptions: only the named ASSUMEs of the modules, about the constants; `Fits` and `OneWorker` where they are
stated as hypotheses. `UsersAssumption` of AudioManager has finitely many users, so that the threads that move the
index can be counted. MCPipe states `OneWorker` as an ASSUME, which TLC evaluates. `PcmTrans` is proved about without it.

Only model-checked: liveness (CallsReturn, FinishSeen, Delivered, PipelineEnds,
StopReturns, DownloadEnds, ManagerReturns), which needs ENABLED; the rounding of
ring_buffer_init (SizeSound), which uses bit operations.

## 5. What is not modelled, and why

* audio_player_deinit, audio_mgr_deinit and the EXIT events of the players: the program creates them
  once and never destroys them. The EXIT of the download task is modelled.
* The contents of sound, files and HTTP headers: data. In httpclient.c that is URLs, the characters of headers and
  chunk sizes (what a search for them may come to is modelled), SSL, authentication and POST.
* In HttpDownload: http_download_wait_buffer, a poll of the player's worker; the nodes of the download buffer
  (CommonBuffer has them; here a push that fails keeps any part of its data); a server that announces ranges and
  ignores one that is not empty. A task that spins in httpclient.c is taken to do so for good.
* Two PCM tasks at once: PcmTrans ends when the second is created.
* In AudioManager: `wait_start_timeout` > 0, which no caller passes; `is_rec_do` and allocations
  that fail, which return before anything has changed. The card's functions are stubs (com/typedefs.h:61-62)
  and modelled by NumFiles.
* pcm_trans_pause_tx, which nothing calls; the receive side of pcm_trans; a PCM device
  that does not open (its handle is then used uninitialised).
* id3tag.c: a pure function of bytes. libmad, the socket library, ALSA: external. ALSA's failures appear as outcomes.
* project/audio_player: registration with a server and a menu of test calls.
* get_play_state: reads a variable.

## 6. Plan

Done: the player process (the heart of the system), the message queue, both
buffers, the pipeline from the decoder to the device, the event groups, the download
task, the manager.

1. deinit and EXIT of the players; id3tag as an algorithm.
2. AudioManager over an abstract player that AudioPlayerProcess is shown to implement,
   in place of the coarser players it holds now.
