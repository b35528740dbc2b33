---------------------------- MODULE HttpDownload ----------------------------
(***************************************************************************)
(* src/src/network/http_download_process.c: the task that fetches a file   *)
(* into the download buffer, range by range or as a whole, and the calls   *)
(* by which the player's worker starts, pauses, resumes and stops it.      *)
(*                                                                         *)
(* Lengths and positions count blocks; the receive buffer holds BufSize.   *)
(* httpclient.c is the operators Retrieve, Parse and RecvOutcomes: what a  *)
(* call takes from the connection and what it leaves.  Every access to the *)
(* event group and to cur_state is a step of its own; the fields that only *)
(* the task uses change with the step that ends the function.              *)
(*                                                                         *)
(* An operator marked MUTATION is a faulty variant of the one after it: no *)
(* action uses it, and the property it names fails when it does.           *)
(***************************************************************************)
EXTENDS Integers, FiniteSets

CONSTANTS Files,        \* what may be fetched: [kind, len]
          BufSize,      \* HTTP_DOWNLOAD_RECV_BUF_SIZE - 1
          Pages,        \* lengths of the answers with a body that is not the file
          Capacity,     \* of the download buffer
          MaxErrConn,   \* HTTP_DOWNLOAD_MAX_ERR_CONN_COUNT
          MaxErrRecv,   \* HTTP_DOWNLOAD_MAX_ERR_RECV_COUNT
          MaxCalls,     \* bound: calls of the worker
          MaxFaults,    \* bound: failures of the network and of malloc
          MaxTimeouts,  \* bound: waits of 30 s that give up on a slow task
          MaxPos        \* bound: blocks pushed by a download that may never end

\* A server sends the range it is asked for, or the whole file with its length,
\* or the whole file in chunks.
Kinds == {"ranges", "plain", "chunked"}

ASSUME FilesAssumption  == Files \subseteq [kind : Kinds, len : Nat \ {0}]
ASSUME PagesAssumption  == Pages \subseteq Nat \ {0}
ASSUME SizesAssumption  == BufSize \in Nat \ {0} /\ Capacity \in Nat /\ Capacity >= BufSize
ASSUME ErrorsAssumption == MaxErrConn \in Nat \ {0} /\ MaxErrRecv \in Nat \ {0}
ASSUME BoundsAssumption == /\ MaxCalls \in Nat /\ MaxFaults \in Nat /\ MaxTimeouts \in Nat
                           /\ MaxPos \in Nat /\ \A f \in Files : f.len <= MaxPos

VARIABLES
  file,         \* the file and its server
  cur_state,    \* http_proc->cur_state
  last_error,   \* http_proc->last_error
  attached,     \* url and http_buffer are not NULL
  event,        \* the bits set in the event group
  range_enable,
  count,        \* blocks in the download buffer
  pc,           \* where the task is in the loop of http_download_task
  took,         \* its local `events'
  proc,         \* the fields of http_proc that only the task writes
  allocated,    \* recv_buf and client_data_ext are not NULL
  client,       \* http_opened, client_data and client_data_ext
  wire,         \* the answer the connection holds
  recv_at,      \* history: the place in the file of recv_buf[0]
  empty_range,  \* history: the session has asked for no bytes
  spoiled,      \* history: the session has taken data that is not the next of the file,
                \* or a push has failed
  late_pause,   \* history: PAUSE has been taken when the session was over, and no start
                \* that is waited for has been answered since
  overtaken,    \* history: a resume has come between taking PAUSE and setting PAUSE
  rpc,          \* where the worker is in a call
  op,           \* the call
  session,      \* what the worker has done to the session: "off", "on", "paused"
  calls, faults, timeouts,
  crashed       \* NULL or freed memory was used

\* Groups for UNCHANGED: what only the receiving functions change, what the task
\* and what the worker keeps for itself, and what only the worker writes.
netVars   == <<proc, client, wire, recv_at, empty_range, spoiled>>
loopVars  == <<pc, took, allocated, late_pause>>
callVars  == <<rpc, op, session, calls, timeouts, overtaken>>
shareVars == <<file, attached, range_enable>>
vars == <<cur_state, last_error, event, count, netVars, loopVars, callVars, shareVars, faults,
          crashed>>

States == {"IDLE", "START", "STOP", "PAUSE", "CONN", "RECV", "PUSH_DATA", "WAIT_FREE", "WAIT_RANGE"}
Bits   == {"START", "STOP", "PAUSE", "RESUME", "EXIT", "EXITED", "STOPPED", "STARTED"}
Errors == {"SUCCESS", "ALL_END", "RANGE_END", "REDIRECT", "ERR_PARAM", "ERR_MALLOC", "ERR_CONN",
           "ERR_TRY_CONN", "ERR_SEND", "ERR_RECV", "ERR_RECV_SKIP", "ERR_RESPONSE",
           "ERR_BUF_TOO_SMALL", "ERR_TRY_RECV"}

Smaller(a, b) == IF a < b THEN a ELSE b
Larger(a, b)  == IF a > b THEN a ELSE b
Free          == Capacity - count      \* common_buffer_get_free_count

-----------------------------------------------------------------------------
(* httpclient.c *)

\* client_data after the memset of http_download_proc_conn.  `left' is what has
\* not been read of the body, `next' the place in the file it goes on from; `edge'
\* says that a chunk has ended where the receive buffer was full, `foreign' that
\* the body is not the file or has been misread.
Closed == [opened |-> FALSE, is_more |-> FALSE, content_len |-> 0, left |-> 0, next |-> 0,
           is_chunked |-> FALSE, is_range |-> FALSE, range_len |-> 0,
           edge |-> FALSE, foreign |-> FALSE]
Fresh  == [Closed EXCEPT !.opened = TRUE]

\* The answers of a server, or what else the next response is read from.
NoAnswer == [type |-> "none"]       \* nothing: the request has been answered
Garbage  == [type |-> "garbage"]    \* the rest of the answer before
Refusal  == [type |-> "refusal"]    \* an answer without a length
Moved    == [type |-> "moved"]      \* with a Location header
Body(at, len, ranged, all, chunked) ==
  [type |-> "body", at |-> at, len |-> len, ranged |-> ranged, all |-> all, chunked |-> chunked,
   foreign |-> FALSE]

\* What the status line says is only logged (line 917): the page of an error, or of
\* a second redirection, is an answer like any other.
OtherPages ==
  {[Body(0, len, ranged, 0, chunked) EXCEPT !.foreign = TRUE] :
     len \in Pages, ranged \in BOOLEAN, chunked \in BOOLEAN}

\* A request for the blocks from begin to before end.  A range that is empty is
\* ignored, one beyond the file refused; a server that knows ranges says so in every
\* answer (Accept-Ranges).
Answer(begin, end) ==
  IF file.kind # "ranges" THEN Body(0, file.len, FALSE, 0, file.kind = "chunked")
  ELSE IF ~range_enable \/ end <= begin THEN Body(0, file.len, TRUE, 0, FALSE)
  ELSE IF begin >= file.len THEN Refusal
  ELSE Body(begin, Smaller(end, file.len) - begin, TRUE, file.len, FALSE)

\* httpclient_response_parse: the headers.
Parse(a) ==
  [Fresh EXCEPT !.is_more = TRUE, !.content_len = IF a.chunked THEN 0 ELSE a.len, !.left = a.len,
                !.next = a.at, !.is_chunked = a.chunked, !.is_range = a.ranged, !.range_len = a.all,
                !.foreign = a.foreign]

\* httpclient_retrieve_content: fill the buffer and return MORE, or read what is
\* left, less than a buffer, and return OK.  The length of a chunked body is the
\* sum of the chunks begun so far; a chunk may end where the buffer is full.
Retrieve(c) ==
  LET n == Smaller(c.left, BufSize)
      full == c.left >= BufSize
      Edges == IF ~full \/ ~c.is_chunked THEN {FALSE} ELSE IF c.left = n THEN {TRUE} ELSE BOOLEAN
  IN  {[ret |-> IF full THEN "MORE" ELSE "OK",
        at |-> c.next,
        client |-> [c EXCEPT !.is_more = full, !.left = @ - n, !.next = @ + n, !.edge = e,
                             !.content_len = IF c.is_chunked THEN @ + n ELSE @],
        wire |-> NoAnswer] : e \in Edges}

\* At an edge the next call looks for the length of a chunk where the end of the
\* last one is, and has lost what had been read beyond (line 691 keeps it only
\* inside a chunk).  If exactly that end is lost it goes on rightly; if more is, it
\* goes on with data lost or taken for lengths.
Rejoined(c) ==
  LET d == [c EXCEPT !.edge = FALSE]
  IN  {d} \cup {[d EXCEPT !.left = @ - lost, !.next = @ + lost, !.foreign = TRUE] : lost \in 0..c.left}

Failed(ret, c) == [ret |-> ret, at |-> recv_at, client |-> c, wire |-> NoAnswer]

\* httpclient_recv_response when nothing goes wrong on the way.  With nothing to
\* come it returns OK with client_data as it was when the server has closed the
\* connection, and an error after 3 s when it has not.
RecvOutcomes ==
  IF client.is_more /\ client.edge
  THEN {Failed("ERROR_PRTCL", client)} \cup UNION {Retrieve(d) : d \in Rejoined(client)}
  ELSE IF client.is_more THEN Retrieve(client)
  ELSE CASE wire.type = "none"    -> {Failed("OK", client), Failed("ERROR_CONN", client)}
         [] wire.type = "garbage" -> {Failed("ERROR_PRTCL", [Fresh EXCEPT !.content_len = -1])}
         [] wire.type = "refusal" -> {Failed("OK", [Fresh EXCEPT !.content_len = -1])}
         [] wire.type = "moved"   -> {Failed("MOVED", Fresh)}
         [] wire.type = "body"    -> Retrieve(Parse(wire))

\* What makes a loop of httpclient.c go round for ever.  At an edge: no length of a
\* chunk is found any more (lines 735-766 set no limit to the search).
LosesLength == client.is_more /\ client.edge
\* Else: the connection is closed inside the headers, where no data is no error
\* (lines 952-964), or it is closed or silent where a chunk begins.
LosesAnswer == IF client.is_more THEN client.is_chunked
               ELSE wire.type \in {"refusal", "moved", "body"}

-----------------------------------------------------------------------------
(* http_download_task *)

NoProc == [pre_download_pos |-> 0, cur_download_pos |-> 0, recv_len |-> 0, read_pos |-> 0,
           range_end |-> 0, total_length |-> -1, err_conn_count |-> 0, err_recv_count |-> 0,
           more |-> FALSE, range_forecast |-> FALSE, is_chunked |-> FALSE,
           length_received |-> FALSE, close_if_rang_end |-> FALSE, redirect |-> FALSE]

Init ==
  /\ file \in Files
  /\ cur_state = "IDLE" /\ last_error = "SUCCESS" /\ event = {} /\ count = 0
  /\ attached = FALSE /\ range_enable = TRUE
  /\ proc = NoProc /\ client = Closed /\ wire = NoAnswer /\ recv_at = 0
  /\ empty_range = FALSE /\ spoiled = FALSE
  /\ pc = "poll" /\ took = {} /\ allocated = FALSE /\ late_pause = FALSE
  /\ rpc = "none" /\ op = "none" /\ session = "off"
  /\ calls = 0 /\ timeouts = 0 /\ overtaken = FALSE
  /\ faults = 0 /\ crashed = FALSE

At(place, to) == pc = place /\ pc' = to
Run(state)    == At("body", "poll") /\ cur_state = state
CanFail       == faults < MaxFaults
Fault         == CanFail /\ faults' = faults + 1

\* The top of the loop: take STOP and PAUSE, whatever the state ...
PollEvents ==
  /\ pc = "poll"
  /\ took' = event \cap {"STOP", "PAUSE"}
  /\ event' = event \ took'
  /\ pc' = IF took' = {} THEN "body" ELSE "apply"
  /\ UNCHANGED <<cur_state, last_error, count, netVars, allocated, late_pause, faults, crashed>>

\* ... and enter the state they ask for, STOP first.
Apply ==
  /\ At("apply", "body")
  /\ cur_state' = IF "STOP" \in took THEN "STOP" ELSE "PAUSE"
  /\ took' = {}
  /\ late_pause' = (late_pause \/ (cur_state' = "PAUSE" /\ cur_state \in {"STOP", "IDLE"}))
  /\ UNCHANGED <<last_error, event, count, netVars, allocated, faults, crashed>>

\* STA_IDLE: two calls on distinct bits, the wait, a clear, and the next state.
IdleAck ==
  /\ At("body", "idle_wait") /\ cur_state = "IDLE"
  /\ event' = (event \cup {"STOPPED"}) \ {"STARTED"}
  /\ UNCHANGED <<cur_state, last_error, count, netVars, took, allocated, late_pause, faults, crashed>>

IdleWait ==
  /\ At("idle_wait", "idle_left")
  /\ event \cap {"START", "EXIT"} # {}
  /\ took' = event \cap {"START", "EXIT"}
  /\ event' = event \ took'
  /\ UNCHANGED <<cur_state, last_error, count, netVars, allocated, late_pause, faults, crashed>>

\* MUTATION (BuffersOutliveUse): STOPPED is not cleared.
IdleLeftKeepsStopped ==
  /\ At("idle_left", "idle_go")
  /\ UNCHANGED <<event, cur_state, last_error, count, netVars, took, allocated, late_pause, faults,
                 crashed>>

IdleLeft ==
  /\ At("idle_left", "idle_go")
  /\ event' = event \ {"STOPPED"}
  /\ UNCHANGED <<cur_state, last_error, count, netVars, took, allocated, late_pause, faults, crashed>>

IdleGo ==
  /\ At("idle_go", IF "EXIT" \in took THEN "exited" ELSE "poll")
  /\ IF "EXIT" \in took
     THEN event' = event \cup {"EXITED"} /\ UNCHANGED cur_state
     ELSE cur_state' = "START" /\ UNCHANGED event
  /\ took' = {}
  /\ UNCHANGED <<last_error, count, netVars, allocated, late_pause, faults, crashed>>

\* The worker waits for this start.  It does not when START is left over from a
\* start that found the task in a late pause.
Answers == rpc = "start_wait" /\ "START" \notin event

\* STA_START: http_download_proc_start, then the answer.
StartBody ==
  /\ At("body", "started") /\ cur_state = "START"
  /\ \/ /\ allocated' = TRUE
        /\ last_error' = "SUCCESS" /\ cur_state' = "CONN"
        /\ proc' = [NoProc EXCEPT !.range_forecast = range_enable]
        /\ UNCHANGED faults
     \/ /\ Fault
        /\ last_error' = "ERR_MALLOC" /\ cur_state' = "STOP"
        /\ UNCHANGED <<allocated, proc>>
  /\ client' = Closed /\ empty_range' = FALSE /\ spoiled' = FALSE
  /\ late_pause' = (late_pause /\ ~Answers)
  /\ UNCHANGED <<event, count, wire, recv_at, took, crashed>>

Started ==
  /\ At("started", "poll")
  /\ event' = event \cup {"STARTED"}
  /\ UNCHANGED <<cur_state, last_error, count, netVars, took, allocated, late_pause, faults, crashed>>

\* http_download_proc_close_client: what has not been read is lost.
Close == client' = [client EXCEPT !.opened = FALSE, !.left = 0] /\ wire' = NoAnswer

\* STA_STOP: http_download_proc_stop.
StopBody ==
  /\ Run("STOP")
  /\ Close
  /\ allocated' = FALSE
  /\ cur_state' = "IDLE"
  /\ UNCHANGED <<last_error, event, count, proc, recv_at, empty_range, spoiled, took, late_pause,
                 faults, crashed>>

\* STA_PAUSE: close the connection, wait for RESUME, connect again.
PauseBody ==
  /\ At("body", "pause_wait") /\ cur_state = "PAUSE"
  /\ Close
  /\ UNCHANGED <<cur_state, last_error, event, count, proc, recv_at, empty_range, spoiled, took,
                 allocated, late_pause, faults, crashed>>

PauseWait ==
  /\ At("pause_wait", "pause_left")
  /\ "RESUME" \in event
  /\ event' = event \ {"RESUME"}
  /\ UNCHANGED <<cur_state, last_error, count, netVars, took, allocated, late_pause, faults, crashed>>

PauseLeft ==
  /\ At("pause_left", "poll")
  /\ cur_state' = "CONN"
  /\ UNCHANGED <<last_error, event, count, netVars, took, allocated, late_pause, faults, crashed>>

\* STA_CONN, http_download_proc_conn.  The connection is opened, unless it still is.
ConnOpen ==
  /\ pc = "body" /\ cur_state = "CONN"
  /\ \/ /\ ~attached                                             \* ERR_PARAM
        /\ pc' = "poll" /\ last_error' = "ERR_PARAM" /\ cur_state' = "STOP"
        /\ UNCHANGED <<proc, client, wire, faults>>
     \/ /\ attached
        /\ pc' = "conn_send"
        /\ client' = [client EXCEPT !.opened = TRUE]
        /\ proc' = IF client.opened THEN proc ELSE [proc EXCEPT !.err_conn_count = 0]
        /\ UNCHANGED <<cur_state, last_error, wire, faults>>
     \/ /\ attached /\ ~client.opened /\ Fault                   \* httpclient_connect fails
        /\ pc' = "poll"
        /\ proc' = [proc EXCEPT !.err_conn_count = @ + 1]
        /\ LET last == proc.err_conn_count + 1 >= MaxErrConn
           IN  /\ last_error' = IF last THEN "ERR_TRY_CONN" ELSE "ERR_CONN"
               /\ cur_state' = IF last THEN "STOP" ELSE "CONN"
        /\ UNCHANGED <<client, wire>>
  /\ UNCHANGED <<event, count, recv_at, empty_range, spoiled, took, allocated, late_pause, crashed>>

\* The number of blocks asked for.  1024 bytes are half a receive buffer.
RangeCount ==
  IF proc.length_received THEN Smaller(Free, proc.total_length - proc.pre_download_pos)
  ELSE IF proc.range_forecast THEN Free ELSE BufSize \div 2

\* The request is sent; on a connection that still holds the rest of the answer
\* before, that rest is read for the answer to this one.  http_buffer and
\* client_data_ext are used without being looked at again.
ConnSend ==
  LET begin == proc.pre_download_pos
      end   == begin + RangeCount
  IN  /\ At("conn_send", "poll")
      /\ crashed' = ((~attached /\ range_enable) \/ ~allocated)
      /\ \/ /\ wire' = IF client.left > 0 THEN Garbage ELSE Answer(begin, end)
            /\ client' = Fresh
            /\ last_error' = "SUCCESS" /\ cur_state' = "RECV"
            /\ UNCHANGED faults
         \/ /\ Fault                                             \* another answer
            /\ wire' \in {Refusal, Moved} \cup OtherPages
            /\ client' = Fresh
            /\ last_error' = "SUCCESS" /\ cur_state' = "RECV"
         \/ /\ Fault                                             \* ERR_SEND
            /\ wire' = NoAnswer
            /\ client' = Closed
            /\ last_error' = "ERR_SEND"
            /\ UNCHANGED cur_state
      /\ proc' = [proc EXCEPT !.cur_download_pos = 0,
                              !.range_end = IF range_enable THEN end ELSE @]
      /\ empty_range' = (empty_range \/ (range_enable /\ end <= begin))
      /\ UNCHANGED <<event, count, recv_at, spoiled, took, allocated, late_pause>>

\* STA_RECV, http_download_proc_recv: what becomes of an outcome o.
Counted(o) == proc.err_recv_count + (IF o.ret = "ERROR_CONN" THEN 0 ELSE 1)
Redirects(o)  == o.ret = "MOVED" /\ ~proc.redirect
Malformed(o)  == o.ret # "ERROR_CONN" /\ o.ret # "ERROR_PRTCL" /\ ~Redirects(o)
                 /\ o.client.content_len <= 0
Forgets(o)    == range_enable /\ proc.range_forecast /\ ~o.client.is_range

\* The answer is good: lengths, then where its data goes on.
Ranged(c) == range_enable /\ c.is_range
Measured(c) ==
  IF c.is_chunked THEN [proc EXCEPT !.is_chunked = TRUE, !.total_length = c.content_len]
  ELSE IF proc.length_received THEN proc
  ELSE [proc EXCEPT !.length_received = TRUE,
                    !.total_length = IF Ranged(c) /\ c.range_len > 0 THEN c.range_len
                                     ELSE c.content_len]

\* MUTATION (StreamExact): the part of an unranged answer that has been pushed
\* before is not skipped.
PlacedUnskipped(o) ==
  LET len == IF o.ret = "MORE" THEN BufSize ELSE o.client.content_len % BufSize
  IN  [Measured(o.client) EXCEPT
         !.more = (o.ret = "MORE"), !.recv_len = len, !.read_pos = 0,
         !.cur_download_pos = Larger(@, proc.pre_download_pos)]

Placed(o) ==
  LET len  == IF o.ret = "MORE" THEN BufSize ELSE o.client.content_len % BufSize
      skip == IF Ranged(o.client) THEN 0
              ELSE Smaller(proc.pre_download_pos - proc.cur_download_pos, len)
  IN  [Measured(o.client) EXCEPT
         !.more = (o.ret = "MORE"), !.recv_len = len, !.read_pos = skip,
         !.cur_download_pos = IF Ranged(o.client) THEN Larger(@, proc.pre_download_pos)
                              ELSE @ + skip]

\* What http_download_proc_recv returns, and http_proc as it leaves it.
Received(o) ==
  CASE o.ret \in {"ERROR_CONN", "ERROR_PRTCL"} ->
         [error |-> IF Counted(o) >= MaxErrRecv THEN "ERR_TRY_RECV" ELSE "ERR_RECV",
          proc |-> [proc EXCEPT !.err_recv_count = Counted(o)]]
    [] Redirects(o) -> [error |-> "REDIRECT", proc |-> [proc EXCEPT !.redirect = TRUE]]
    [] Malformed(o) ->
         [error |-> IF Counted(o) >= MaxErrRecv THEN "ERR_RESPONSE" ELSE "ERR_RECV",
          proc |-> [proc EXCEPT !.err_recv_count = Counted(o), !.close_if_rang_end = TRUE]]
    [] OTHER ->
         IF Forgets(o)
         THEN [error |-> "ERR_RECV", proc |-> [proc EXCEPT !.range_forecast = FALSE]]
         ELSE [error |-> IF Placed(o).read_pos >= Placed(o).recv_len THEN "ERR_RECV_SKIP"
                         ELSE "SUCCESS",
               proc |-> Placed(o)]

AfterRecv(error) ==
  CASE error = "SUCCESS"                -> "PUSH_DATA"
    [] error = "ERR_RECV_SKIP"          -> "RECV"
    [] error \in {"ERR_RECV", "REDIRECT"} -> "CONN"
    [] OTHER                            -> "STOP"

Closing(c) == [c EXCEPT !.opened = FALSE, !.left = 0]

\* The answer is taken, and http_proc goes by it.
Taken(error) == error \in {"SUCCESS", "ERR_RECV_SKIP"}

Recv ==
  /\ Run("RECV")
  /\ \/ /\ \E o \in RecvOutcomes :
             /\ last_error' = Received(o).error
             /\ proc' = Received(o).proc
             /\ client' = LET c == [o.client EXCEPT !.is_range = range_enable /\ @]
                          IN  IF AfterRecv(Received(o).error) = "CONN" THEN Closing(c) ELSE c
             /\ recv_at' = o.at
             /\ spoiled' = (spoiled \/ (o.client.foreign /\ Taken(Received(o).error)))
        /\ UNCHANGED <<attached, faults>>
     \/ /\ Fault                           \* the connection breaks, or is misread
        /\ \E o \in {Failed("ERROR_CONN", Closed), Failed("ERROR_PRTCL", Closed)} :
             /\ last_error' = Received(o).error
             /\ proc' = Received(o).proc
        /\ client' = Closing(client)
        /\ UNCHANGED <<attached, recv_at, spoiled>>
     \/ /\ Fault                           \* the new url cannot be allocated
        /\ \E o \in RecvOutcomes : Redirects(o)
        /\ last_error' = "ERR_MALLOC"
        /\ attached' = FALSE
        /\ client' = Fresh
        /\ UNCHANGED <<proc, recv_at, spoiled>>
  /\ wire' = NoAnswer
  /\ cur_state' = AfterRecv(last_error')
  /\ UNCHANGED <<event, count, empty_range, took, allocated, late_pause, crashed>>

\* httpclient_recv_response does not return: the task looks at no bit any more.
RecvHangs ==
  /\ At("body", "spins") /\ cur_state = "RECV"
  /\ \/ LosesLength /\ UNCHANGED faults
     \/ LosesAnswer /\ Fault
  /\ UNCHANGED <<cur_state, last_error, event, count, netVars, took, allocated, late_pause, crashed>>

\* MUTATION (DownloadEnds): the length of the file is not looked at.
PushedToTheEnd(pos) ==
  IF ~client.is_range /\ ~proc.more THEN "ALL_END"
  ELSE IF client.is_range /\ pos >= proc.range_end THEN "RANGE_END"
  ELSE "SUCCESS"

\* STA_PUSH_DATA, http_download_proc_push_data: what it returns once it has pushed
\* up to pos.
Pushed(pos) ==
  IF ~client.is_range /\ ~proc.more THEN "ALL_END"
  ELSE IF ~proc.is_chunked /\ pos >= proc.total_length THEN "ALL_END"
  ELSE IF client.is_range /\ pos >= proc.range_end THEN "RANGE_END"
  ELSE "SUCCESS"

AfterPush(error) ==
  CASE error = "SUCCESS"   -> "RECV"
    [] error = "RANGE_END" -> "WAIT_RANGE"
    [] error = "ALL_END"   -> "STOP"

Pending == proc.recv_len - proc.read_pos

NoRoom == Free < Pending

PushData ==
  /\ Run("PUSH_DATA")
  /\ crashed' = ~attached
  /\ IF NoRoom
     THEN /\ last_error' = "ERR_BUF_TOO_SMALL" /\ cur_state' = "WAIT_FREE"
          /\ UNCHANGED <<count, proc, client, wire, spoiled, faults>>
     ELSE /\ last_error' = Pushed(proc.pre_download_pos + Pending)
          /\ cur_state' = AfterPush(last_error')
          /\ \/ count' = count + Pending /\ UNCHANGED <<spoiled, faults>>
             \/ \E kept \in 0..Pending - 1 :        \* common_buffer_push fails, unnoticed
                  Fault /\ count' = count + kept /\ spoiled' = TRUE
          /\ proc' = [proc EXCEPT !.pre_download_pos = @ + Pending,
                                  !.cur_download_pos = @ + Pending, !.read_pos = proc.recv_len]
          /\ IF last_error' = "RANGE_END" /\ proc.close_if_rang_end THEN Close
             ELSE UNCHANGED <<client, wire>>
  /\ UNCHANGED <<attached, event, recv_at, empty_range, took, allocated, late_pause>>

\* STA_WAIT_FREE, http_download_wait_free
WaitFree ==
  /\ Run("WAIT_FREE")
  /\ crashed' = ~attached
  /\ IF NoRoom THEN last_error' = "ERR_BUF_TOO_SMALL" /\ UNCHANGED cur_state
     ELSE last_error' = "SUCCESS" /\ cur_state' = "PUSH_DATA"
  /\ UNCHANGED <<attached, event, count, netVars, took, allocated, late_pause, faults>>

\* STA_WAIT_RANGE, http_download_wait_range: until more than half is free.
WaitRange ==
  /\ Run("WAIT_RANGE")
  /\ crashed' = ~attached
  /\ IF Free <= count THEN last_error' = "ERR_BUF_TOO_SMALL" /\ UNCHANGED cur_state
     ELSE last_error' = "SUCCESS" /\ cur_state' = "CONN"
  /\ UNCHANGED <<attached, event, count, netVars, took, allocated, late_pause, faults>>

TaskStep ==
  /\ \/ Recv \/ PushData \/ WaitFree \/ WaitRange
     \/ /\ \/ PollEvents \/ Apply \/ IdleAck \/ IdleWait \/ IdleLeft \/ IdleGo
           \/ StartBody \/ Started \/ StopBody \/ PauseBody \/ PauseWait \/ PauseLeft
           \/ ConnOpen \/ ConnSend \/ RecvHangs
        /\ UNCHANGED attached
  /\ UNCHANGED <<file, range_enable, callVars>>

-----------------------------------------------------------------------------
(* The calls, made by the worker of the player; the consumer is its decoder *)

Call(from, to)  == rpc = from /\ rpc' = to
SetEvent(bits)  == event' = event \cup bits
CallVars        == <<op, session, calls, timeouts, overtaken>>
TaskVars        == <<cur_state, count, netVars, loopVars>>

\* What audio_player_process.c calls when: pause from STA_PLAY, resume from
\* STA_PAUSE, stop in STA_STOP, and deinit only after a stop.
Calls == [off |-> {"start", "stop", "deinit"}, on |-> {"pause", "stop"}, paused |-> {"resume", "stop"},
          gone |-> {}]

Begin ==
  /\ rpc = "none" /\ calls < MaxCalls
  /\ calls' = calls + 1
  /\ op' \in Calls[session]
  /\ rpc' = CASE op' = "pause"  -> "pause_clear"
             [] op' = "resume" -> "resume_clear"
             [] OTHER          -> "stop_check"
  /\ UNCHANGED <<TaskVars, last_error, event, shareVars, session, timeouts, overtaken, faults, crashed>>

\* http_download_stop, which is also the beginning of http_download_start, and is
\* called by audio_player_deinit before http_download_deinit.
StopCheck ==
  /\ Call("stop_check", IF cur_state = "IDLE" THEN "stop_detach" ELSE "stop_post")
  /\ UNCHANGED <<TaskVars, last_error, event, shareVars, CallVars, faults, crashed>>

\* MUTATION (NothingStarves): a paused download is not woken.
StopPostAlone ==
  /\ Call("stop_post", "stop_wait")
  /\ SetEvent({"STOP"})
  /\ UNCHANGED <<TaskVars, last_error, shareVars, CallVars, faults, crashed>>

StopPost ==
  /\ Call("stop_post", "stop_wait")
  /\ SetEvent({"STOP", "RESUME"})
  /\ UNCHANGED <<TaskVars, last_error, shareVars, CallVars, faults, crashed>>

StopDetach ==
  /\ Call("stop_detach", "stop_clear")
  /\ attached' = FALSE
  /\ UNCHANGED <<TaskVars, last_error, event, file, range_enable, CallVars, faults, crashed>>

StopClear ==
  /\ Call("stop_clear", CASE op = "start" -> "attach" [] op = "stop" -> "empty"
                             [] op = "deinit" -> "exit_post")
  /\ event' = {}
  /\ UNCHANGED <<TaskVars, last_error, shareVars, CallVars, faults, crashed>>

\* audio_player_proc_stop: common_buffer_clear
Empty ==
  /\ Call("empty", "none")
  /\ count' = 0
  /\ session' = "off"
  /\ UNCHANGED <<cur_state, netVars, loopVars, last_error, event, shareVars, op, calls, timeouts,
                 overtaken, faults, crashed>>

\* The rest of http_download_start.
Attach ==
  /\ \/ /\ Call("attach", "start_post")
        /\ attached' = TRUE
        /\ file' \in Files
        /\ range_enable' \in BOOLEAN
        /\ last_error' = "SUCCESS"
        /\ UNCHANGED faults
     \/ /\ Call("attach", "none")              \* the url cannot be allocated
        /\ Fault
        /\ UNCHANGED <<shareVars, last_error>>
  /\ overtaken' = FALSE
  /\ UNCHANGED <<TaskVars, event, op, session, calls, timeouts, crashed>>

StartPost ==
  /\ Call("start_post", "start_wait")
  /\ SetEvent({"START"})
  /\ UNCHANGED <<TaskVars, last_error, shareVars, CallVars, faults, crashed>>

\* http_download_pause
PauseClear ==
  /\ Call("pause_clear", "pause_check")
  /\ event' = event \ {"RESUME"}
  /\ UNCHANGED <<TaskVars, last_error, shareVars, CallVars, faults, crashed>>

PauseCheck ==
  /\ Call("pause_check", IF cur_state = "PAUSE" THEN "none" ELSE "pause_set")
  /\ session' = "paused"
  /\ UNCHANGED <<TaskVars, last_error, event, shareVars, op, calls, timeouts, overtaken, faults, crashed>>

PauseSet ==
  /\ Call("pause_set", "none")
  /\ SetEvent({"PAUSE"})
  /\ UNCHANGED <<TaskVars, last_error, shareVars, CallVars, faults, crashed>>

\* http_download_resume
ResumeClear ==
  /\ Call("resume_clear", "resume_check")
  /\ event' = event \ {"PAUSE"}
  /\ UNCHANGED <<TaskVars, last_error, shareVars, CallVars, faults, crashed>>

ResumeCheck ==
  /\ Call("resume_check", IF cur_state = "PAUSE" THEN "resume_set" ELSE "none")
  /\ session' = "on"
  /\ overtaken' = (cur_state # "PAUSE" /\ pc = "apply")
  /\ UNCHANGED <<TaskVars, last_error, event, shareVars, op, calls, timeouts, faults, crashed>>

ResumeSet ==
  /\ Call("resume_set", "none")
  /\ SetEvent({"RESUME"})
  /\ UNCHANGED <<TaskVars, last_error, shareVars, CallVars, faults, crashed>>

\* http_download_deinit; the event group is deleted whether the task has exited
\* or not.
ExitPost ==
  /\ Call("exit_post", "exit_wait")
  /\ SetEvent({"EXIT"})
  /\ UNCHANGED <<TaskVars, last_error, shareVars, CallVars, faults, crashed>>

Delete ==
  /\ Call("delete", "none")
  /\ session' = "gone"
  /\ crashed' = (pc # "exited")
  /\ UNCHANGED <<TaskVars, last_error, event, shareVars, op, calls, timeouts, overtaken, faults>>

\* The bit a wait is for, and how the call goes on after it.
Awaited == CASE rpc = "stop_wait" -> "STOPPED" [] rpc = "start_wait" -> "STARTED"
             [] rpc = "exit_wait" -> "EXITED"  [] OTHER -> "none"
AfterWait == CASE rpc = "stop_wait" -> "stop_detach" [] rpc = "start_wait" -> "none"
               [] rpc = "exit_wait" -> "delete"
Resumed == session' = IF rpc = "start_wait" THEN "on" ELSE session

Wait ==
  /\ Awaited \in event
  /\ event' = event \ {Awaited}
  /\ rpc' = AfterWait
  /\ Resumed
  /\ UNCHANGED <<TaskVars, last_error, shareVars, op, calls, timeouts, overtaken, faults, crashed>>

\* The task waits for an event that the worker, waiting itself, will not set, or
\* spins in httpclient.c.
AtRest  == \/ pc = "idle_wait" /\ event \cap {"START", "EXIT"} = {}
           \/ pc = "pause_wait" /\ "RESUME" \notin event
           \/ pc \in {"exited", "spins"}
Starved == Awaited # "none" /\ Awaited \notin event /\ AtRest

\* 30 s without an answer; a slow task may be waited for in vain MaxTimeouts times.
Timeout ==
  /\ Awaited # "none" /\ Awaited \notin event
  /\ IF Starved THEN UNCHANGED timeouts ELSE timeouts < MaxTimeouts /\ timeouts' = timeouts + 1
  /\ rpc' = AfterWait
  /\ Resumed
  /\ UNCHANGED <<TaskVars, last_error, event, shareVars, op, calls, overtaken, faults, crashed>>

\* __player_input_callback pops what is there, while the session plays.
Pop ==
  /\ session = "on" /\ rpc = "none" /\ count > 0
  /\ count' = count - 1
  /\ UNCHANGED <<cur_state, netVars, loopVars, last_error, event, shareVars, callVars, faults, crashed>>

CallStep ==
  \/ StopCheck \/ StopPost \/ StopDetach \/ StopClear \/ Empty
  \/ Attach \/ StartPost
  \/ PauseClear \/ PauseCheck \/ PauseSet
  \/ ResumeClear \/ ResumeCheck \/ ResumeSet
  \/ ExitPost \/ Delete \/ Wait

\* Nothing is left to do.
Quiescent == /\ rpc = "none"
             /\ calls = MaxCalls \/ session = "gone"
             /\ AtRest
             /\ UNCHANGED vars

\* A crash, or a download followed no further: after one answer in chunks the
\* length of the file is not looked at any more (line 591), and ranges are asked for
\* without end.
Halted == crashed \/ proc.pre_download_pos > MaxPos
Halt   == Halted /\ UNCHANGED vars

Next == \/ ~Halted /\ (TaskStep \/ Begin \/ CallStep \/ Timeout \/ Pop \/ Quiescent)
        \/ Halt

\* The task and the worker are scheduled, the decoder goes on reading, and a wait
\* that nobody answers expires.
Fairness == /\ WF_vars(~Halted /\ TaskStep)
            /\ WF_vars(~Halted /\ CallStep)
            /\ WF_vars(~Halted /\ Starved /\ Timeout)
            /\ WF_vars(~Halted /\ Pop)

Spec     == Init /\ [][Next]_vars
FairSpec == Spec /\ Fairness

-----------------------------------------------------------------------------
(* Properties *)

\* http_download_is_finish
IsFinish == cur_state = "IDLE" /\ last_error \in {"SUCCESS", "ALL_END"}

Procs == [pre_download_pos : Nat, cur_download_pos : Nat, recv_len : 0..BufSize,
          read_pos : 0..BufSize, range_end : Nat, total_length : Int,
          err_conn_count : Nat, err_recv_count : Nat,
          more : BOOLEAN, range_forecast : BOOLEAN, is_chunked : BOOLEAN,
          length_received : BOOLEAN, close_if_rang_end : BOOLEAN, redirect : BOOLEAN]
Clients == [opened : BOOLEAN, is_more : BOOLEAN, content_len : Int, left : Nat, next : Nat,
            is_chunked : BOOLEAN, is_range : BOOLEAN, range_len : Nat,
            edge : BOOLEAN, foreign : BOOLEAN]

TypeOK ==
  /\ file \in Files
  /\ cur_state \in States /\ last_error \in Errors /\ event \subseteq Bits
  /\ count \in 0..Capacity
  /\ proc \in Procs /\ client \in Clients
  /\ wire.type \in {"none", "garbage", "refusal", "moved", "body"}
  /\ recv_at \in Nat
  /\ took \subseteq {"STOP", "PAUSE", "START", "EXIT"}
  /\ calls \in 0..MaxCalls /\ faults \in 0..MaxFaults /\ timeouts \in 0..MaxTimeouts
  /\ {attached, range_enable, allocated, empty_range, spoiled, late_pause, overtaken, crashed}
       \subseteq BOOLEAN

\* What is pushed next is the part of the file that follows what has been pushed,
\* and it is in the receive buffer (recv_buf is reused by every answer).
InOrder ==
  cur_state \in {"PUSH_DATA", "WAIT_FREE"} =>
    /\ recv_at + proc.read_pos = proc.pre_download_pos
    /\ recv_at + proc.recv_len <= file.len

\* The decoder is told that nothing more comes only when all has been pushed.
FinishedIsWhole ==
  session = "on" /\ rpc = "none" /\ IsFinish => proc.pre_download_pos = file.len

\* Over ranges, whole files and chunks, broken connections, redirections, refusals,
\* pauses and restarts the player gets the file from its beginning, in order, once
\* and whole, and the download buffer has room for all that is put into it (TypeOK).
\* This is what breaks it: an answer taken that is the page of an error or of a
\* second redirection (httpclient.c:917), a chunk that ends where the receive buffer
\* is full (httpclient.c:691) or a push that fails (line 568), all `spoiled'; a pause
\* taken when the download is over already, which asks for data again (lines
\* 637-643 look at no state); a range that is empty because the buffer is full when
\* a pause ends (line 381); and waits that give up on a slow task, which then goes
\* on with the session before (line 109).
StreamExact ==
  /\ TypeOK
  /\ spoiled \/ late_pause \/ empty_range \/ timeouts > 0 \/ (InOrder /\ FinishedIsWhole)

Spins == pc = "spins"

\* Neither NULL nor freed memory is used, unless a stop or the end of the process
\* gave up waiting for the task, because it was slow or spins (line 109 goes on to
\* take url and http_buffer away), or a pause was taken when the task had freed its
\* buffers already (line 362).
BuffersOutliveUse == crashed => timeouts > 0 \/ late_pause \/ Spins

Stuck == session = "on" /\ rpc = "none" /\ pc = "pause_wait" /\ "RESUME" \notin event

\* Unless the task spins in httpclient.c, a stop or a deinit never waits for an
\* answer that cannot come, and a resumed download stays paused only when the
\* resume came between the PAUSE bit being taken and the state being set (lines 635
\* and 642): then it found no pause to undo.
NothingStarves ==
  \/ timeouts > 0 \/ late_pause \/ Spins
  \/ (Starved => rpc = "start_wait") /\ (Stuck => overtaken)

\* The end of a chunked answer is only seen with its last data.  One whose length is
\* a multiple of the receive buffer ends at an edge: at best the task gets no data
\* with the end, and reads and asks again and again.
Endless == file.kind = "chunked" /\ file.len % BufSize = 0

\* While the decoder reads, a download that is neither paused nor stopped ends,
\* with the whole file or with an error, over all answers, retries and failures
\* that leave the task a way out of httpclient.c and do not spoil what it has taken.
DownloadEnds ==
  session = "on" ~> \/ session # "on" \/ cur_state = "IDLE" \/ Endless \/ Spins \/ spoiled
                    \/ overtaken \/ late_pause \/ timeouts > 0 \/ crashed
=============================================================================
