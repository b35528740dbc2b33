------------------------- MODULE HttpDownloadProofs -------------------------
(***************************************************************************)
(* Theorems about HttpDownload, for every set of files and of other pages, *)
(* every size of the buffers and every bound on calls, faults and given-up *)
(* waits: the types, BuffersOutliveUse, NothingStarves and StreamExact.    *)
(*                                                                         *)
(* Control says where the task and the worker can be together and which    *)
(* bits are set then.  It is inductive by itself, and the first two safety *)
(* properties follow from it.  DataInv says how far the file has come: what *)
(* is pushed, what is in the receive buffer and what is left on the wire   *)
(* are parts of it that follow each other.  It is inductive under Control, *)
(* which keeps a new file away from a task at work.                        *)
(***************************************************************************)
EXTENDS HttpDownload, TLAPS

USE FilesAssumption, PagesAssumption, SizesAssumption, ErrorsAssumption, BoundsAssumption

-----------------------------------------------------------------------------
(* Types *)

\* The answers with a body, and all that the connection can hold.
Bodies == [type : {"body"}, at : Nat, len : Nat, ranged : BOOLEAN, all : Nat, chunked : BOOLEAN,
           foreign : BOOLEAN]
Wires  == {NoAnswer, Garbage, Refusal, Moved} \cup Bodies

\* The fields of http_proc fit together: what has been read of the receive buffer is in
\* it, and a connection does not lead what has been pushed.
Okay(p) == /\ p \in Procs /\ p.read_pos <= p.recv_len /\ p.cur_download_pos <= p.pre_download_pos
           /\ (p.length_received => p.total_length \in Nat)

\* The variables that are true or false.
Flags == {attached, range_enable, allocated, empty_range, spoiled, late_pause, overtaken, crashed}

\* The types, with those of the answers and of http_proc.
TypeInv ==
  /\ TypeOK
  /\ wire \in Wires
  /\ Okay(proc)

\* What httpclient_recv_response can return.
Outcomes == [ret : {"MORE", "OK", "MOVED", "ERROR_CONN", "ERROR_PRTCL"}, at : Nat, client : Clients,
             wire : Wires]

\* The values that client_data is reset to.
LEMMA ClosedTypes ==
  Closed \in Clients /\ Fresh \in Clients /\ [Fresh EXCEPT !.content_len = -1] \in Clients
<1>1. Closed \in Clients
  BY DEF Closed, Clients
<1>2. Fresh \in Clients
  BY <1>1 DEF Fresh, Clients
<1>3. [Fresh EXCEPT !.content_len = -1] \in Clients
  BY <1>2 DEF Clients
<1> QED BY <1>1, <1>2, <1>3

\* A part of the body has been read.
LEMMA ClientUpdates ==
  ASSUME NEW c \in Clients, NEW b \in BOOLEAN, NEW l \in Nat, NEW n \in Nat, NEW k \in Int,
         NEW e \in BOOLEAN
  PROVE  [c EXCEPT !.is_more = b, !.left = l, !.next = n, !.edge = e, !.content_len = k] \in Clients
BY DEF Clients

\* Closing the connection keeps the type of client_data ...
LEMMA ClosingType == \A c \in Clients : Closing(c) \in Clients
BY DEF Clients, Closing

\* ... and so does reading the headers of an answer ...
LEMMA ParseType == \A a \in Bodies : Parse(a) \in Clients
<1> SUFFICES ASSUME NEW a \in Bodies PROVE Parse(a) \in Clients
  OBVIOUS
<1> DEFINE k == IF a.chunked THEN 0 ELSE a.len
<1>1. /\ k \in Int /\ a.len \in Nat /\ a.at \in Nat /\ a.all \in Nat
      /\ a.chunked \in BOOLEAN /\ a.ranged \in BOOLEAN /\ a.foreign \in BOOLEAN
  BY DEF Bodies
<1> HIDE DEF k
<1>2. Parse(a) = [Fresh EXCEPT !.is_more = TRUE, !.content_len = k, !.left = a.len, !.next = a.at,
                               !.is_chunked = a.chunked, !.is_range = a.ranged,
                               !.range_len = a.all, !.foreign = a.foreign]
  BY DEF Parse, k
<1> QED BY <1>1, <1>2, ClosedTypes DEF Clients

\* ... and reading a part of its body, which leaves the rest.
LEMMA Retrieved ==
  ASSUME NEW c \in Clients, NEW r \in Retrieve(c),
         NEW n, n = Smaller(c.left, BufSize), NEW d, d = r.client
  PROVE  /\ r \in Outcomes
         /\ r.at = c.next /\ r.ret = IF c.left >= BufSize THEN "MORE" ELSE "OK"
         /\ d.is_more <=> c.left >= BufSize
         /\ d.left = c.left - n /\ d.next = c.next + n
         /\ d.content_len = IF c.is_chunked THEN c.content_len + n ELSE c.content_len
         /\ (d.is_chunked <=> c.is_chunked) /\ (d.is_range <=> c.is_range)
         /\ d.range_len = c.range_len /\ (d.foreign <=> c.foreign)
<1> DEFINE b == c.left >= BufSize
           l == c.left - n
           m == c.next + n
           k == IF c.is_chunked THEN c.content_len + n ELSE c.content_len
           Edges == IF ~b \/ ~c.is_chunked THEN {FALSE} ELSE IF c.left = n THEN {TRUE} ELSE BOOLEAN
           R(e) == [ret |-> IF b THEN "MORE" ELSE "OK", at |-> c.next,
                    client |-> [c EXCEPT !.is_more = b, !.left = l, !.next = m, !.edge = e,
                                         !.content_len = k],
                    wire |-> NoAnswer]
<1>1. b \in BOOLEAN /\ l \in Nat /\ m \in Nat /\ k \in Int /\ c.next \in Nat
  BY DEF Smaller, Clients
<1>2. Edges \subseteq BOOLEAN
  OBVIOUS
<1>3. r \in {R(e) : e \in Edges}
  BY Zenon DEF Retrieve
<1> HIDE DEF R, Edges
<1>4. PICK e \in BOOLEAN : r = R(e)
  BY <1>2, <1>3
<1> DEFINE f == [c EXCEPT !.is_more = b, !.left = l, !.next = m, !.edge = e, !.content_len = k]
<1>10. r = [ret |-> IF b THEN "MORE" ELSE "OK", at |-> c.next, client |-> f, wire |-> NoAnswer]
  BY <1>4 DEF R
<1> HIDE DEF f
<1>5. r = [ret |-> IF b THEN "MORE" ELSE "OK", at |-> c.next, client |-> d, wire |-> NoAnswer]
      /\ d = f
  BY <1>10
<1> HIDE DEF b, l, m, k
<1>6. d = [c EXCEPT !.is_more = b, !.left = l, !.next = m, !.edge = e, !.content_len = k]
  BY <1>5 DEF f
<1>7. d \in Clients
  <2>1. [c EXCEPT !.is_more = b, !.left = l, !.next = m, !.edge = e, !.content_len = k] \in Clients
    BY <1>1, <1>4, ClientUpdates
  <2> QED BY <1>6, <2>1
<1>8. r \in Outcomes
  BY <1>1, <1>5, <1>7 DEF Outcomes, Wires
<1>9. /\ d.is_more = b /\ d.left = l /\ d.next = m /\ d.content_len = k
      /\ d.is_chunked = c.is_chunked /\ d.is_range = c.is_range
      /\ d.range_len = c.range_len /\ d.foreign = c.foreign
  BY <1>1, <1>6 DEF Clients
<1>11. r.at = c.next /\ r.ret = IF b THEN "MORE" ELSE "OK"
  BY <1>5
<1>12. /\ d.is_more <=> b
       /\ d.is_chunked <=> c.is_chunked
       /\ d.is_range <=> c.is_range
       /\ d.foreign <=> c.foreign
  BY <1>9
<1> QED BY <1>8, <1>9, <1>11, <1>12 DEF b, l, m, k

LEMMA RetrieveType == \A c \in Clients : Retrieve(c) \subseteq Outcomes
BY Retrieved

\* A part of the body has been lost.
LEMMA LosingType ==
  ASSUME NEW b \in Clients, NEW l \in Nat, NEW n \in Nat
  PROVE  /\ [b EXCEPT !.left = l, !.next = n, !.foreign = TRUE] \in Clients
         /\ [b EXCEPT !.left = l, !.next = n, !.foreign = TRUE].foreign
BY DEF Clients

\* What an edge leaves of the body is read on, or part of it is lost.
LEMMA RejoinedType ==
  ASSUME NEW c \in Clients, NEW d \in Rejoined(c)
  PROVE  d \in Clients /\ (d = [c EXCEPT !.edge = FALSE] \/ d.foreign)
<1> DEFINE b == [c EXCEPT !.edge = FALSE]
<1>1. b \in Clients /\ b.left = c.left /\ b.next = c.next /\ c.left \in Nat /\ c.next \in Nat
  BY DEF Clients
<1>2. CASE d = b
  BY <1>1, <1>2
<1>3. ASSUME NEW lost \in 0..c.left,
             d = [b EXCEPT !.left = @ - lost, !.next = @ + lost, !.foreign = TRUE]
      PROVE  d \in Clients /\ d.foreign
  <2> DEFINE l == b.left - lost
             n == b.next + lost
  <2>1. l \in Nat /\ n \in Nat
    BY <1>1
  <2>2. d = [b EXCEPT !.left = l, !.next = n, !.foreign = TRUE]
    BY <1>3
  <2> HIDE DEF l, n, b
  <2> QED BY <1>1, <2>1, <2>2, LosingType
<1> QED BY <1>2, <1>3 DEF Rejoined

\* Whatever the connection holds, a receive returns something of the right type.
LEMMA OutcomesType == TypeInv => RecvOutcomes \subseteq Outcomes
<1> SUFFICES ASSUME TypeInv, NEW o \in RecvOutcomes PROVE o \in Outcomes
  OBVIOUS
<1>1. client \in Clients /\ recv_at \in Nat /\ wire \in Wires
  BY DEF TypeInv, TypeOK
<1>2. CASE client.is_more
  <2>1. o = Failed("ERROR_PRTCL", client) \/ o \in Retrieve(client)
        \/ \E d \in Rejoined(client) : o \in Retrieve(d)
    BY <1>2 DEF RecvOutcomes
  <2>2. Failed("ERROR_PRTCL", client) \in Outcomes
    BY <1>1 DEF Failed, Outcomes, Wires
  <2> QED BY <1>1, <2>1, <2>2, RetrieveType, RejoinedType
<1>3. CASE ~client.is_more /\ wire \in Bodies
  <2>1. wire.type = "body"
    BY <1>3 DEF Bodies
  <2> QED BY <1>1, <1>3, <2>1, ParseType, RetrieveType DEF RecvOutcomes
<1>4. CASE ~client.is_more /\ wire \in {NoAnswer, Garbage, Refusal, Moved}
  BY <1>1, <1>4, ClosedTypes DEF RecvOutcomes, Failed, Outcomes, Wires, NoAnswer,
         Garbage, Refusal, Moved
<1> QED BY <1>1, <1>2, <1>3, <1>4 DEF Wires

\* The length of the file is taken from an answer that has one (lines 505-525).
LEMMA MeasuredType ==
  ASSUME Okay(proc), NEW c \in Clients, c.content_len > 0
  PROVE  /\ Okay(Measured(c)) /\ Measured(c).cur_download_pos = proc.cur_download_pos
         /\ Measured(c).pre_download_pos = proc.pre_download_pos
<1>1. c.content_len \in Nat /\ c.range_len \in Nat
  BY DEF Clients
<1>2. CASE c.is_chunked
  <2> DEFINE k == c.content_len
             m == [proc EXCEPT !.is_chunked = TRUE, !.total_length = k]
  <2>1. Measured(c) = m /\ k \in Nat
    BY <1>1, <1>2 DEF Measured
  <2> HIDE DEF k
  <2>2. k \in Int /\ proc \in Procs
    BY <2>1 DEF Okay
  <2>5. m \in Procs
    BY <2>2 DEF Procs
  <2>3. /\ m.read_pos = proc.read_pos /\ m.recv_len = proc.recv_len /\ m.total_length = k
        /\ m.cur_download_pos = proc.cur_download_pos /\ m.pre_download_pos = proc.pre_download_pos
    BY DEF Okay, Procs
  <2> HIDE DEF m
  <2> QED BY <2>1, <2>3, <2>5 DEF Okay
<1>3. CASE ~c.is_chunked /\ proc.length_received
  BY <1>1, <1>3 DEF Okay, Measured, Procs
<1>4. CASE ~c.is_chunked /\ ~proc.length_received
  <2> DEFINE k == IF Ranged(c) /\ c.range_len > 0 THEN c.range_len ELSE c.content_len
  <2>1. k \in Nat
    BY <1>1
  <2> DEFINE m == [proc EXCEPT !.length_received = TRUE, !.total_length = k]
  <2>2. Measured(c) = m
    BY <1>4 DEF Measured
  <2> HIDE DEF k
  <2>3. k \in Int /\ proc \in Procs
    BY <2>1 DEF Okay
  <2>5. m \in Procs
    BY <2>3 DEF Procs
  <2>4. /\ m.read_pos = proc.read_pos /\ m.recv_len = proc.recv_len /\ m.total_length = k
        /\ m.cur_download_pos = proc.cur_download_pos /\ m.pre_download_pos = proc.pre_download_pos
    BY DEF Okay, Procs
  <2> HIDE DEF m
  <2> QED BY <2>1, <2>2, <2>4, <2>5 DEF Okay
<1> QED BY <1>2, <1>3, <1>4

\* What has been received is placed in the file within the receive buffer.
LEMMA PlacedType ==
  ASSUME Okay(proc), NEW o \in Outcomes, o.client.content_len > 0
  PROVE  Okay(Placed(o))
<1> DEFINE len  == IF o.ret = "MORE" THEN BufSize ELSE o.client.content_len % BufSize
           skip == IF Ranged(o.client) THEN 0
                   ELSE Smaller(proc.pre_download_pos - proc.cur_download_pos, len)
           m    == Measured(o.client)
           more == o.ret = "MORE"
           cur  == IF Ranged(o.client) THEN Larger(m.cur_download_pos, proc.pre_download_pos)
                   ELSE m.cur_download_pos + skip
<1>1. o.client \in Clients /\ o.client.content_len \in Int
  BY DEF Outcomes, Clients
<1>2. len \in 0..BufSize
  BY <1>1
<1>3. proc.pre_download_pos \in Nat /\ proc.cur_download_pos \in Nat
      /\ proc.cur_download_pos <= proc.pre_download_pos
  BY DEF Okay, Procs
<1> HIDE DEF len
<1>4. skip \in 0..len /\ (proc.cur_download_pos + skip <= proc.pre_download_pos \/ skip = 0)
  BY <1>2, <1>3 DEF Smaller
<1>5. skip \in 0..len
  BY <1>2, <1>3 DEF Smaller
<1>6. /\ Okay(m) /\ m.cur_download_pos = proc.cur_download_pos
      /\ m.pre_download_pos = proc.pre_download_pos
  BY <1>1, MeasuredType
<1> HIDE DEF skip, m
<1>7. cur \in Nat /\ cur <= proc.pre_download_pos
  BY <1>2, <1>3, <1>4, <1>5, <1>6 DEF Larger
<1> HIDE DEF cur, more
<1>8. Placed(o) = [m EXCEPT !.more = more, !.recv_len = len, !.read_pos = skip,
                            !.cur_download_pos = cur]
  BY DEF Placed, len, skip, m, cur, more
<1>9. more \in BOOLEAN
  BY DEF more
<1> DEFINE p == [m EXCEPT !.more = more, !.recv_len = len, !.read_pos = skip,
                          !.cur_download_pos = cur]
<1>12. m \in Procs /\ skip \in 0..BufSize
  BY <1>2, <1>5, <1>6 DEF Okay
<1>10. p \in Procs
  BY <1>2, <1>7, <1>9, <1>12 DEF Procs
<1>11. /\ p.read_pos = skip /\ p.recv_len = len /\ p.total_length = m.total_length
       /\ p.length_received = m.length_received
       /\ p.cur_download_pos = cur /\ p.pre_download_pos = m.pre_download_pos
  BY <1>6 DEF Okay, Procs
<1> HIDE DEF p
<1> QED BY <1>2, <1>5, <1>6, <1>7, <1>8, <1>10, <1>11 DEF Okay, p

\* So whatever has been received, http_proc stays sound.
LEMMA ReceivedType ==
  ASSUME Okay(proc), NEW o \in Outcomes
  PROVE  Okay(Received(o).proc) /\ Received(o).error \in Errors
<1> DEFINE n == Counted(o)
           counted   == [proc EXCEPT !.err_recv_count = n]
           redirects == [proc EXCEPT !.redirect = TRUE]
           malformed == [proc EXCEPT !.err_recv_count = n, !.close_if_rang_end = TRUE]
           forgets   == [proc EXCEPT !.range_forecast = FALSE]
<1>1. o.client.content_len \in Int /\ n \in Nat
  BY DEF Outcomes, Clients, Okay, Procs, Counted
<1>2. /\ Received(o).error \in Errors
      /\ \/ Received(o).proc \in {counted, redirects, malformed, forgets}
         \/ o.client.content_len > 0 /\ Received(o).proc = Placed(o)
  BY <1>1 DEF Received, Malformed, Errors
<1> HIDE DEF n
<1>3. Okay(counted)
  BY <1>1 DEF Okay, Procs
<1>4. Okay(redirects)
  BY DEF Okay, Procs
<1>5. Okay(malformed)
  BY <1>1 DEF Okay, Procs
<1>6. Okay(forgets)
  BY DEF Okay, Procs
<1> HIDE DEF counted, redirects, malformed, forgets
<1> QED BY <1>2, <1>3, <1>4, <1>5, <1>6, PlacedType

\* The types of the answers without a body.
LEMMA WireTypes ==
  /\ NoAnswer.type = "none" /\ Garbage.type = "garbage"
  /\ Refusal.type = "refusal" /\ Moved.type = "moved"
BY DEF NoAnswer, Garbage, Refusal, Moved

\* The types hold at first.
LEMMA TypeInit == Init => TypeInv
<1> SUFFICES ASSUME Init PROVE TypeInv
  OBVIOUS
<1>1. NoProc \in Procs
  BY DEF NoProc, Procs
<1>2. Okay(NoProc)
  BY <1>1 DEF Okay, NoProc
<1>3. /\ cur_state \in States /\ last_error \in Errors /\ event \subseteq Bits
      /\ took \subseteq {"STOP", "PAUSE", "START", "EXIT"}
      /\ wire \in Wires /\ wire.type = "none"
  BY WireTypes DEF Init, Wires, Bits, States, Errors
<1>4. /\ file \in Files /\ count \in 0..Capacity /\ recv_at \in Nat
      /\ calls \in 0..MaxCalls /\ faults \in 0..MaxFaults /\ timeouts \in 0..MaxTimeouts
  BY DEF Init
<1>5. Flags \subseteq BOOLEAN
  BY DEF Init, Flags
<1>6. client \in Clients /\ proc \in Procs
  BY <1>1, ClosedTypes DEF Init
<1>7. proc = NoProc
  BY DEF Init
<1> QED BY <1>2, <1>3, <1>4, <1>5, <1>6, <1>7 DEF TypeInv, TypeOK, Flags

\* They are kept by the steps of the loop that move no data ...
LEMMA TypeLoop ==
  ASSUME TypeInv, UNCHANGED <<file, range_enable, callVars>>, UNCHANGED attached
  PROVE  /\ PollEvents \/ Apply \/ IdleAck \/ IdleWait \/ IdleLeft \/ IdleGo => TypeInv'
         /\ Started \/ StopBody \/ PauseBody \/ PauseWait \/ PauseLeft \/ StartBody \/ RecvHangs => TypeInv'
<1> USE DEF TypeInv, TypeOK, Flags, netVars, loopVars, callVars, shareVars, Bits, States, Errors
<1>1. PollEvents => TypeInv'
  BY DEF PollEvents, At, Run
<1>2. Apply => TypeInv'
  BY DEF Apply, At, Run
<1>3. IdleAck => TypeInv'
  BY DEF IdleAck, At, Run
<1>4. IdleWait => TypeInv'
  BY DEF IdleWait, At, Run
<1>5. IdleLeft => TypeInv'
  BY DEF IdleLeft, At, Run
<1>6. IdleGo => TypeInv'
  BY DEF IdleGo, At, Run
<1>7. Started => TypeInv'
  BY DEF Started, At, Run
<1>8. PauseWait => TypeInv'
  BY DEF PauseWait, At, Run
<1>9. PauseLeft => TypeInv'
  BY DEF PauseLeft, At, Run
<1>10. Close => client' \in Clients /\ wire' \in Wires /\ wire'.type = "none"
  <2>1. Closing(client) \in Clients
    BY ClosingType
  <2> QED BY <2>1, WireTypes DEF Close, Closing, Wires
<1>11. StopBody => TypeInv'
  BY <1>10 DEF StopBody, Run, At
<1>12. PauseBody => TypeInv'
  BY <1>10 DEF PauseBody, At
<1>13. Okay([NoProc EXCEPT !.range_forecast = range_enable])
  <2>1. range_enable \in BOOLEAN
    OBVIOUS
  <2>2. NoProc \in Procs
    BY DEF NoProc, Procs
  <2>3. [NoProc EXCEPT !.range_forecast = range_enable] \in Procs
    BY <2>1, <2>2 DEF Procs
  <2> QED BY <2>3 DEF Okay, NoProc
<1>15. RecvHangs => TypeInv'
  <2> SUFFICES ASSUME RecvHangs PROVE TypeInv'
    OBVIOUS
  <2>1. faults' \in 0..MaxFaults
    BY DEF RecvHangs, Fault, CanFail
  <2> QED BY <2>1 DEF RecvHangs, At
<1>14. StartBody => TypeInv'
  <2> SUFFICES ASSUME StartBody PROVE TypeInv'
    OBVIOUS
  <2>1. client' \in Clients /\ Okay(proc') /\ faults' \in 0..MaxFaults
    BY <1>13, ClosedTypes DEF StartBody, Fault, CanFail
  <2>2. cur_state' \in States /\ last_error' \in Errors
    BY DEF StartBody
  <2>3. Flags' \subseteq BOOLEAN
    BY DEF StartBody
  <2> QED BY <2>1, <2>2, <2>3 DEF StartBody, Okay
<1> QED BY <1>1, <1>2, <1>3, <1>4, <1>5, <1>6, <1>7, <1>8, <1>9, <1>11, <1>12, <1>14,
           <1>15

\* A server answers a request with a body, or refuses it.
LEMMA AnswerType ==
  ASSUME TypeInv, NEW begin \in Nat, NEW end \in Nat
  PROVE  Answer(begin, end) \in Bodies \cup {Refusal}
<1>1. file.len \in Nat /\ range_enable \in BOOLEAN
  BY DEF TypeInv, TypeOK
<1> DEFINE n == Smaller(end, file.len) - begin
           chunked == file.kind = "chunked"
<1>2. ~(end <= begin) /\ ~(begin >= file.len) => n \in Nat
  BY <1>1 DEF Smaller
<1>3. \A at, len, all \in Nat, ranged, c \in BOOLEAN : Body(at, len, ranged, all, c) \in Bodies
  BY DEF Body, Bodies
<1>4. /\ Body(0, file.len, FALSE, 0, chunked) \in Bodies
      /\ Body(0, file.len, TRUE, 0, FALSE) \in Bodies
      /\ n \in Nat => Body(begin, n, TRUE, file.len, FALSE) \in Bodies
  BY <1>1, <1>3
<1>5. \/ Answer(begin, end) = Body(0, file.len, FALSE, 0, chunked)
      \/ Answer(begin, end) = Body(0, file.len, TRUE, 0, FALSE)
      \/ Answer(begin, end) = Refusal
      \/ /\ ~(end <= begin) /\ ~(begin >= file.len)
         /\ Answer(begin, end) = Body(begin, n, TRUE, file.len, FALSE)
  BY DEF Answer
<1> HIDE DEF n, chunked
<1> QED BY <1>2, <1>4, <1>5

\* Pages that are not the file have a body, too.
LEMMA PagesType == \A a \in OtherPages : a \in Bodies /\ a.foreign
<1> SUFFICES ASSUME NEW len \in Pages, NEW ranged \in BOOLEAN, NEW chunked \in BOOLEAN,
                    NEW a, a = [Body(0, len, ranged, 0, chunked) EXCEPT !.foreign = TRUE]
             PROVE  a \in Bodies /\ a.foreign
  BY DEF OtherPages
<1>1. len \in Nat
  OBVIOUS
<1> QED BY <1>1 DEF Body, Bodies

\* The type of everything the connection can hold is one of five.
LEMMA WireKinds ==
  \A a \in Wires : a.type \in {"none", "garbage", "refusal", "moved", "body"}
<1>1. \A a \in Bodies : a.type = "body"
  BY DEF Bodies
<1> QED BY <1>1, WireTypes DEF Wires

\* The end of the range asked for is a place in a file.
LEMMA RangeEnd == TypeInv => proc.pre_download_pos + RangeCount \in Nat
BY DEF TypeInv, TypeOK, Okay, Procs, RangeCount, Smaller, Free

\* ... by opening a connection and asking ...
LEMMA TypeConn ==
  ASSUME TypeInv, UNCHANGED <<file, range_enable, callVars>>, UNCHANGED attached
  PROVE  ConnOpen \/ ConnSend => TypeInv'
<1> USE DEF TypeInv, TypeOK, Flags, netVars, loopVars, callVars, shareVars, Bits, States, Errors
<1>1. ASSUME ConnOpen PROVE TypeInv'
  <2>1. [client EXCEPT !.opened = TRUE] \in Clients
    BY DEF Clients
  <2>2. Okay([proc EXCEPT !.err_conn_count = 0]) /\ Okay([proc EXCEPT !.err_conn_count = @ + 1])
    BY DEF Okay, Procs
  <2>3. client' \in Clients /\ Okay(proc')
    BY <1>1, <2>1, <2>2 DEF ConnOpen
  <2>5. faults' \in 0..MaxFaults
    BY <1>1 DEF ConnOpen, Fault, CanFail
  <2>4. cur_state' \in States /\ last_error' \in Errors
    BY <1>1 DEF ConnOpen
  <2> QED BY <1>1, <2>3, <2>4, <2>5 DEF ConnOpen, Okay
<1>2. ASSUME ConnSend PROVE TypeInv'
  <2> DEFINE begin == proc.pre_download_pos
             end   == begin + RangeCount
  <2>1. begin \in Nat /\ end \in Nat
    BY RangeEnd DEF Okay, Procs
  <2>2. proc' = [proc EXCEPT !.cur_download_pos = 0, !.range_end = IF range_enable THEN end ELSE @]
    BY <1>2 DEF ConnSend
  <2>3. empty_range' \in BOOLEAN /\ crashed' \in BOOLEAN
    BY <1>2 DEF ConnSend
  <2>4. Answer(begin, end) \in Wires /\ OtherPages \subseteq Wires
    BY <2>1, AnswerType, PagesType DEF Wires
  <2>5. /\ wire' \in {NoAnswer, Garbage, Refusal, Moved, Answer(begin, end)} \cup OtherPages
        /\ client' \in {Fresh, Closed} /\ faults' \in 0..MaxFaults
        /\ last_error' \in Errors /\ cur_state' \in States
    BY <1>2 DEF ConnSend, Fault, CanFail
  <2> HIDE DEF begin, end
  <2>6. Okay(proc')
    <3>1. proc' \in Procs
      BY <2>1, <2>2 DEF Okay, Procs
    <3>2. /\ proc'.read_pos = proc.read_pos /\ proc'.recv_len = proc.recv_len
          /\ proc'.cur_download_pos = 0 /\ proc'.pre_download_pos = proc.pre_download_pos
          /\ proc'.length_received = proc.length_received /\ proc'.total_length = proc.total_length
      BY <2>2 DEF Okay, Procs
    <3>3. proc.pre_download_pos \in Nat
      BY DEF Okay, Procs
    <3> QED BY <3>1, <3>2, <3>3 DEF Okay
  <2>7. wire' \in Wires /\ client' \in Clients
    BY <2>4, <2>5, ClosedTypes DEF Wires
  <2>8. wire'.type \in {"none", "garbage", "refusal", "moved", "body"}
    BY <2>7, WireKinds
  <2>9. Flags' \subseteq BOOLEAN
    BY <1>2, <2>3 DEF ConnSend
  <2> QED BY <1>2, <2>5, <2>6, <2>7, <2>8, <2>9 DEF ConnSend, Okay
<1> QED BY <1>1, <1>2

\* ... by receiving, pushing and waiting ...
LEMMA TypeData ==
  ASSUME TypeInv, UNCHANGED <<file, range_enable, callVars>>
  PROVE  Recv \/ PushData \/ WaitFree \/ WaitRange => TypeInv'
<1> USE DEF TypeInv, TypeOK, Flags, netVars, loopVars, callVars, shareVars, Bits, States, Errors
<1>1. ASSUME Recv PROVE TypeInv'
  <2>1. Failed("ERROR_CONN", Closed) \in Outcomes /\ Failed("ERROR_PRTCL", Closed) \in Outcomes
    BY ClosedTypes DEF Failed, Outcomes, Wires
  <2>2. \/ \E o \in Outcomes : /\ last_error' = Received(o).error /\ proc' = Received(o).proc
        \/ last_error' = "ERR_MALLOC" /\ proc' = proc
    BY <1>1, <2>1, OutcomesType DEF Recv
  <2>3. last_error' \in Errors /\ Okay(proc')
    BY <2>2, ReceivedType
  <2>4. cur_state' \in States
    BY <1>1 DEF Recv, AfterRecv
  <2>5. client' \in Clients /\ recv_at' \in Nat
    <3>1. CASE \E o \in RecvOutcomes :
                 /\ client' = LET c == [o.client EXCEPT !.is_range = range_enable /\ @]
                              IN  IF AfterRecv(Received(o).error) = "CONN" THEN Closing(c) ELSE c
                 /\ recv_at' = o.at
      <4>1. PICK o \in Outcomes :
                 /\ client' = LET c == [o.client EXCEPT !.is_range = range_enable /\ @]
                              IN  IF AfterRecv(Received(o).error) = "CONN" THEN Closing(c) ELSE c
                 /\ recv_at' = o.at
        BY <3>1, OutcomesType
      <4> DEFINE b == range_enable /\ o.client.is_range
                 c == [o.client EXCEPT !.is_range = b]
      <4>2. b \in BOOLEAN /\ o.client \in Clients /\ o.at \in Nat
        BY DEF Outcomes
      <4>3. client' = IF AfterRecv(Received(o).error) = "CONN" THEN Closing(c) ELSE c
        BY <4>1
      <4> HIDE DEF b
      <4>4. c \in Clients
        BY <4>2 DEF Clients
      <4> HIDE DEF c
      <4> QED BY <4>1, <4>2, <4>3, <4>4, ClosingType
    <3>2. CASE client' \in {Closing(client), Fresh} /\ UNCHANGED recv_at
      BY <3>2, ClosedTypes, ClosingType
    <3> QED BY <1>1, <3>1, <3>2 DEF Recv
  <2>6. faults' \in 0..MaxFaults
    BY <1>1 DEF Recv, Fault, CanFail
  <2>8. Flags' \subseteq BOOLEAN
    BY <1>1 DEF Recv
  <2>7. wire' \in Wires /\ wire'.type = "none"
    BY <1>1, WireTypes DEF Recv, Wires
  <2> QED BY <1>1, <2>3, <2>4, <2>5, <2>6, <2>7, <2>8 DEF Recv, Okay
<1>2. ASSUME PushData PROVE TypeInv'
  <2>1. CASE NoRoom
    BY <1>2, <2>1 DEF PushData, Run, At
  <2>2. CASE ~NoRoom
    <3> DEFINE n == Pending
               m == proc.pre_download_pos + n
               p == [proc EXCEPT !.pre_download_pos = m, !.cur_download_pos = @ + n,
                                 !.read_pos = proc.recv_len]
    <3>1. /\ proc.pre_download_pos \in Nat /\ proc.cur_download_pos \in Nat /\ n \in Nat
          /\ m \in Nat /\ proc.cur_download_pos + n <= m /\ proc.cur_download_pos + n \in Nat
          /\ proc.recv_len \in 0..BufSize
      BY DEF Okay, Procs, Pending
    <3>2. proc' = p
      BY <1>2, <2>2 DEF PushData
    <3>3. count' \in 0..Capacity /\ faults' \in 0..MaxFaults
      BY <1>2, <2>2, <3>1 DEF PushData, NoRoom, Free, Fault, CanFail
    <3> HIDE DEF n, m
    <3>4. p \in Procs
      BY <3>1 DEF Okay, Procs
    <3>5. /\ p.pre_download_pos = m /\ p.cur_download_pos = proc.cur_download_pos + n
          /\ p.read_pos = proc.recv_len /\ p.recv_len = proc.recv_len
          /\ p.length_received = proc.length_received /\ p.total_length = proc.total_length
      BY DEF Okay, Procs
    <3> HIDE DEF p
    <3>6. Okay(proc')
      BY <3>1, <3>2, <3>4, <3>5 DEF Okay
    <3>7. cur_state' \in States /\ last_error' \in Errors
      BY <1>2, <2>2 DEF PushData, AfterPush, Pushed
    <3>8. client' \in {client, Closing(client)} /\ wire' \in {wire, NoAnswer}
      BY <1>2, <2>2 DEF PushData, Close, Closing
    <3>9. /\ client' \in Clients /\ wire' \in Wires
          /\ wire'.type \in {"none", "garbage", "refusal", "moved", "body"}
      BY <3>8, ClosingType, WireTypes DEF Wires
    <3>10. Flags' \subseteq BOOLEAN
      BY <1>2 DEF PushData
    <3> QED BY <1>2, <3>3, <3>6, <3>7, <3>9, <3>10 DEF PushData, Okay
  <2> QED BY <2>1, <2>2
<1>3. ASSUME WaitFree PROVE TypeInv'
  BY <1>3 DEF WaitFree, Run, At
<1>4. ASSUME WaitRange PROVE TypeInv'
  BY <1>4 DEF WaitRange, Run, At
<1> QED BY <1>1, <1>2, <1>3, <1>4

\* ... and by the calls.
LEMMA TypeCalls ==
  ASSUME TypeInv
  PROVE  Begin \/ CallStep \/ Timeout \/ Pop \/ Quiescent \/ Halt => TypeInv'
<1> USE DEF TypeInv, TypeOK, Flags, netVars, loopVars, callVars, shareVars, Bits, States, Errors,
            TaskVars, CallVars, Call, SetEvent
<1>1. Begin => TypeInv'
  BY DEF Begin
<1>2. StopCheck => TypeInv'
  BY DEF StopCheck
<1>3. StopPost => TypeInv'
  BY DEF StopPost
<1>4. StopDetach => TypeInv'
  BY DEF StopDetach
<1>5. StopClear => TypeInv'
  BY DEF StopClear
<1>6. Empty => TypeInv'
  BY DEF Empty
<1>7. Attach => TypeInv'
  <2> SUFFICES ASSUME Attach PROVE TypeInv'
    OBVIOUS
  <2>1. faults' \in 0..MaxFaults /\ file' \in Files /\ last_error' \in Errors
    BY DEF Attach, Fault, CanFail
  <2>2. Flags' \subseteq BOOLEAN
    BY DEF Attach
  <2> QED BY <2>1, <2>2 DEF Attach
<1>8. StartPost => TypeInv'
  BY DEF StartPost
<1>9. PauseClear => TypeInv'
  BY DEF PauseClear
<1>10. PauseCheck => TypeInv'
  BY DEF PauseCheck
<1>11. PauseSet => TypeInv'
  BY DEF PauseSet
<1>12. ResumeClear => TypeInv'
  BY DEF ResumeClear
<1>13. ResumeCheck => TypeInv'
  BY DEF ResumeCheck
<1>14. ResumeSet => TypeInv'
  BY DEF ResumeSet
<1>15. ExitPost => TypeInv'
  BY DEF ExitPost
<1>16. Delete => TypeInv'
  BY DEF Delete
<1>17. Wait => TypeInv'
  BY DEF Wait
<1>18. Timeout => TypeInv'
  BY DEF Timeout
<1>19. Pop => TypeInv'
  BY DEF Pop
<1>20. Quiescent => TypeInv'
  BY DEF Quiescent, vars
<1>21. Halt => TypeInv'
  BY DEF Halt, vars
<1> QED BY <1>1, <1>2, <1>3, <1>4, <1>5, <1>6, <1>7, <1>8, <1>9, <1>10, <1>11, <1>12, <1>13,
           <1>14, <1>15, <1>16, <1>17, <1>18, <1>19, <1>20, <1>21 DEF CallStep

\* So every step keeps the types.
LEMMA TypeStep == TypeInv /\ [Next]_vars => TypeInv'
<1> SUFFICES ASSUME TypeInv, [Next]_vars PROVE TypeInv'
  OBVIOUS
<1>1. CASE TaskStep
  BY <1>1, TypeLoop, TypeConn, TypeData DEF TaskStep
<1>2. CASE Begin \/ CallStep \/ Timeout \/ Pop \/ Quiescent \/ Halt
  BY <1>2, TypeCalls
<1>3. CASE UNCHANGED vars
  BY <1>3 DEF TypeInv, TypeOK, Okay, vars, netVars, loopVars, callVars, shareVars
<1> QED BY <1>1, <1>2, <1>3 DEF Next

\* In every reachable state every variable has its type: the download buffer is never
\* given more than it has room for (count), and the receive buffer is never read or
\* filled beyond its end (recv_len and read_pos).
THEOREM TypesCorrect == Spec => []TypeOK
<1>1. Spec => []TypeInv
  BY TypeInit, TypeStep, PTL DEF Spec
<1>2. TypeInv => TypeOK
  BY DEF TypeInv
<1> QED BY <1>1, <1>2, PTL

-----------------------------------------------------------------------------
(* Who is where: the task, the worker and the bits *)

\* No wait has given up on a slow task, no pause has been taken too late, and the task
\* does not spin in httpclient.c.
Calm == timeouts = 0 /\ ~late_pause /\ ~Spins

StopEnd  == {"stop_detach", "stop_clear"}
StartEnd == {"attach", "start_post", "start_wait"}
Exiting  == {"exit_post", "exit_wait", "delete"}

\* What the rest needs of types.
Ranges ==
  /\ timeouts \in Nat /\ event \subseteq Bits /\ session \in DOMAIN Calls
  /\ cur_state \in States /\ {attached, allocated, crashed, late_pause} \subseteq BOOLEAN
  /\ pc \in {"poll", "apply", "body", "idle_wait", "idle_left", "idle_go", "started", "pause_wait",
            "pause_left", "conn_send", "exited", "spins"}
  /\ rpc \in {"stop_check", "stop_post", "stop_wait"} \cup StopEnd =>
       op \in {"start", "stop", "deinit"}

\* The state in which each place of the task is reached, and the bits it has taken there.
PlaceInv ==
  /\ pc \in {"idle_wait", "idle_left", "idle_go", "exited"} => cur_state = "IDLE"
  /\ pc = "started" => cur_state \in {"CONN", "STOP"}
  /\ pc \in {"pause_wait", "pause_left"} => cur_state = "PAUSE"
  /\ pc = "conn_send" => cur_state = "CONN"
  /\ Spins => cur_state = "RECV"
  /\ cur_state = "PAUSE" => pc \in {"body", "pause_wait", "pause_left"}
  /\ pc \notin {"apply", "idle_left", "idle_go"} => took = {}
  /\ pc = "apply" => took # {} /\ took \subseteq {"STOP", "PAUSE"}
  /\ pc \in {"idle_left", "idle_go"} => took # {} /\ took \subseteq {"START", "EXIT"}

\* When a bit can be set, and which calls are made when: always true, whatever waits gave up.
BitInv ==
  /\ "STOPPED" \in event => pc \in {"idle_wait", "idle_left"}
  /\ pc \in {"idle_wait", "idle_left", "idle_go", "started"} \/ cur_state = "START" =>
       "STARTED" \notin event
  /\ "STOP" \in event => rpc \in {"stop_wait"} \cup StopEnd
  /\ "PAUSE" \in event => rpc \notin StartEnd \cup Exiting \cup {"empty", "resume_check"}
  /\ "EXIT" \in event \cup took \/ pc = "exited" => rpc \in Exiting \/ session = "gone"
  /\ session = "gone" => rpc = "none"
  /\ rpc \in {"stop_post", "stop_wait"} /\ pc = "idle_wait" => "STOPPED" \in event
  /\ rpc \in StartEnd => session = "off"
  /\ rpc \in {"pause_clear", "pause_check", "resume_set"} => session = "on"
  /\ rpc \in {"resume_clear", "resume_check", "pause_set"} => session = "paused"
  /\ op \in {"start", "deinit"} /\ rpc \in {"stop_check", "stop_post", "stop_wait"} \cup StopEnd =>
       session = "off"

\* A start is on its way only while it is waited for, and then once.
StartInv ==
  /\ "START" \in event => rpc = "start_wait" /\ "STARTED" \notin event
  /\ "START" \in took \/ cur_state = "START" \/ pc = "started" =>
       rpc = "start_wait" /\ "START" \notin event

\* From its answer to a stop until the next start or exit the task stays idle.
EndedInv ==
  /\ "STOP" \in took => rpc = "stop_wait"
  /\ rpc \in StopEnd \cup {"attach", "start_post", "empty", "exit_post"} =>
       /\ cur_state = "IDLE"
       /\ pc \in {"poll", "body", "idle_wait"} \/ took = {"PAUSE"}
  /\ rpc \in StopEnd /\ "STOP" \in event => pc = "idle_wait"
  /\ rpc = "exit_wait" =>
       /\ cur_state = "IDLE"
       /\ pc \in {"poll", "body", "idle_wait", "exited"} \/ took \in {{"PAUSE"}, {"EXIT"}}
       /\ "EXIT" \in event \cup took \/ "EXITED" \in event
       /\ pc = "exited" => "EXITED" \in event
       /\ "EXITED" \in event => pc = "exited"
  /\ rpc = "delete" => pc = "exited"
  /\ rpc = "exit_post" => "EXIT" \notin event /\ "EXITED" \notin event

\* A state that uses the buffers has them.
HoldsInv ==
  /\ cur_state \in {"CONN", "RECV", "PUSH_DATA", "WAIT_FREE", "WAIT_RANGE", "PAUSE"} => allocated
  /\ cur_state \in {"RECV", "PUSH_DATA", "WAIT_FREE", "WAIT_RANGE"} \/ pc = "conn_send" => attached

\* A stop that is waited for has yet to be seen, or is being obeyed; a paused task that
\* has not seen it finds RESUME too.
StopWaitInv == rpc = "stop_wait" =>
  \/ {"STOP", "RESUME"} \subseteq event
  \/ "STOP" \in event /\ (pc = "pause_left" \/ (pc = "poll" /\ cur_state = "CONN"))
  \/ "STOP" \in took /\ "PAUSE" \notin event
  \/ cur_state \in {"STOP", "IDLE"} /\ "PAUSE" \notin event \cup took

Held == (cur_state = "PAUSE" /\ pc # "pause_left") \/ "PAUSE" \in took

\* A pause does not outlive its session, and a resume undoes it.
PauseInv ==
  /\ rpc \in {"attach", "start_post"} => "STARTED" \notin event
  /\ rpc = "start_wait" => /\ cur_state # "PAUSE"
                           /\ "PAUSE" \in took => "STARTED" \notin event /\ cur_state = "IDLE"
  /\ session = "on" /\ rpc \in {"none", "resume_set"} => "PAUSE" \notin event
  /\ session = "on" /\ rpc = "none" => (Held => "RESUME" \in event \/ overtaken)

CalmInv == Calm => StartInv /\ EndedInv /\ HoldsInv /\ StopWaitInv /\ PauseInv

Control == Ranges /\ PlaceInv /\ BitInv /\ CalmInv /\ BuffersOutliveUse

\* NothingStarves follows from the control invariant.
LEMMA Starving == Control => NothingStarves
BY DEF Control, Ranges, Bits, States, Calls, Calm, StopEnd, StartEnd, Exiting, Held, PlaceInv,
       BitInv, CalmInv, StartInv, EndedInv, HoldsInv, StopWaitInv, PauseInv, BuffersOutliveUse,
       NothingStarves, Starved, AtRest, Awaited, Stuck, Spins

\* The control invariant holds at first.
LEMMA ControlInit == Init => Control
<1> SUFFICES ASSUME Init PROVE Control
  OBVIOUS
<1> USE DEF Init, Control, Ranges, Bits, States, Calls, Calm, StopEnd, StartEnd, Exiting, Held,
            PlaceInv, BitInv, CalmInv, StartInv, EndedInv, HoldsInv, StopWaitInv, PauseInv,
            BuffersOutliveUse, Spins
<1>1. Ranges
  OBVIOUS
<1>2. PlaceInv /\ BitInv /\ BuffersOutliveUse
  OBVIOUS
<1>3. CalmInv
  OBVIOUS
<1> QED BY <1>1, <1>2, <1>3

\* The task keeps it until it has data ...
LEMMA TaskControl ==
  ASSUME Control, ~crashed, TaskStep, ~(Recv \/ PushData \/ WaitFree \/ WaitRange)
  PROVE  Control'
<1> USE DEF Control, Ranges, Bits, States, Calls, Calm, StopEnd, StartEnd, Exiting, Held, PlaceInv,
            BitInv, CalmInv, StartInv, EndedInv, HoldsInv, StopWaitInv, PauseInv,
            BuffersOutliveUse, Spins, TaskStep, At, Run, Fault, callVars, netVars, loopVars
<1>1. ASSUME PollEvents PROVE Control'
  BY <1>1 DEF PollEvents
<1>2. ASSUME Apply PROVE Control'
  <2> USE <1>2 DEF Apply
  <2>1. Ranges' /\ PlaceInv' /\ BitInv' /\ BuffersOutliveUse'
    OBVIOUS
  <2>2. Calm' => StartInv' /\ EndedInv'
    OBVIOUS
  <2>3. Calm' => HoldsInv' /\ StopWaitInv' /\ PauseInv'
    OBVIOUS
  <2> QED BY <2>1, <2>2, <2>3
<1>3. ASSUME IdleAck PROVE Control'
  BY <1>3 DEF IdleAck
<1>4. ASSUME IdleWait PROVE Control'
  <2> USE <1>4 DEF IdleWait
  <2>1. Ranges' /\ PlaceInv' /\ BitInv' /\ BuffersOutliveUse'
    OBVIOUS
  <2>2. Calm' => StartInv' /\ EndedInv'
    OBVIOUS
  <2>3. Calm' => HoldsInv' /\ StopWaitInv' /\ PauseInv'
    OBVIOUS
  <2> QED BY <2>1, <2>2, <2>3
<1>5. ASSUME IdleLeft PROVE Control'
  BY <1>5 DEF IdleLeft
<1>6. ASSUME IdleGo PROVE Control'
  <2> USE <1>6 DEF IdleGo
  <2>1. Ranges' /\ PlaceInv'
    OBVIOUS
  <2>2. BitInv' /\ BuffersOutliveUse'
    OBVIOUS
  <2>3. Calm' => StartInv' /\ EndedInv'
    OBVIOUS
  <2>4. Calm' => HoldsInv' /\ StopWaitInv' /\ PauseInv'
    OBVIOUS
  <2> QED BY <2>1, <2>2, <2>3, <2>4
<1>7. ASSUME StartBody PROVE Control'
  <2> USE <1>7 DEF StartBody, Answers
  <2>1. Ranges' /\ PlaceInv' /\ BitInv' /\ BuffersOutliveUse'
    OBVIOUS
  <2>2. Calm' => StartInv' /\ EndedInv'
    OBVIOUS
  <2>3. Calm' => HoldsInv' /\ StopWaitInv' /\ PauseInv'
    OBVIOUS
  <2> QED BY <2>1, <2>2, <2>3
<1>8. ASSUME Started PROVE Control'
  BY <1>8 DEF Started
<1>9. ASSUME StopBody PROVE Control'
  <2> USE <1>9 DEF StopBody, Close
  <2>1. Ranges' /\ PlaceInv'
    OBVIOUS
  <2>2. BitInv' /\ BuffersOutliveUse'
    OBVIOUS
  <2>3. Calm' => StartInv' /\ EndedInv'
    OBVIOUS
  <2>4. Calm' => HoldsInv' /\ StopWaitInv' /\ PauseInv'
    OBVIOUS
  <2> QED BY <2>1, <2>2, <2>3, <2>4
<1>10. ASSUME PauseBody PROVE Control'
  BY <1>10 DEF PauseBody, Close
<1>11. ASSUME PauseWait PROVE Control'
  BY <1>11 DEF PauseWait
<1>12. ASSUME PauseLeft PROVE Control'
  BY <1>12 DEF PauseLeft
<1>13. ASSUME ConnOpen PROVE Control'
  BY <1>13 DEF ConnOpen
<1>14. ASSUME ConnSend PROVE Control'
  <2> USE <1>14 DEF ConnSend
  <2>1. Ranges' /\ PlaceInv' /\ BitInv' /\ BuffersOutliveUse'
    OBVIOUS
  <2>2. Calm' => StartInv' /\ EndedInv'
    OBVIOUS
  <2>3. Calm' => HoldsInv' /\ StopWaitInv' /\ PauseInv'
    OBVIOUS
  <2> QED BY <2>1, <2>2, <2>3
<1>15. ASSUME RecvHangs PROVE Control'
  BY <1>15 DEF RecvHangs
<1> QED BY <1>1, <1>2, <1>3, <1>4, <1>5, <1>6, <1>7, <1>8, <1>9, <1>10, <1>11, <1>12, <1>13,
           <1>14, <1>15 DEF TaskStep

\* ... and when it has.
LEMMA DataControl ==
  ASSUME Control, ~crashed, UNCHANGED <<file, range_enable, callVars>>,
         Recv \/ PushData \/ WaitFree \/ WaitRange
  PROVE  Control'
<1> USE DEF Control, Ranges, Bits, States, Calls, Calm, StopEnd, StartEnd, Exiting, Held, PlaceInv,
            BitInv, CalmInv, StartInv, EndedInv, HoldsInv, StopWaitInv, PauseInv,
            BuffersOutliveUse, Spins, Run, At, Fault, callVars, netVars, loopVars
<1>1. ASSUME Recv PROVE Control'
  <2> USE <1>1 DEF Recv, AfterRecv
  <2>1. Ranges' /\ PlaceInv' /\ BitInv' /\ BuffersOutliveUse'
    OBVIOUS
  <2>2. Calm' => StartInv' /\ EndedInv'
    OBVIOUS
  <2>3. Calm' => HoldsInv' /\ StopWaitInv' /\ PauseInv'
    OBVIOUS
  <2> QED BY <2>1, <2>2, <2>3
<1>2. ASSUME PushData PROVE Control'
  <2> USE <1>2 DEF PushData, AfterPush, Pushed
  <2>1. Ranges' /\ PlaceInv' /\ BitInv' /\ BuffersOutliveUse'
    OBVIOUS
  <2>2. Calm' => StartInv' /\ EndedInv'
    OBVIOUS
  <2>3. Calm' => HoldsInv' /\ StopWaitInv' /\ PauseInv'
    OBVIOUS
  <2> QED BY <2>1, <2>2, <2>3
<1>3. ASSUME WaitFree PROVE Control'
  <2> USE <1>3 DEF WaitFree
  <2>1. Ranges' /\ PlaceInv' /\ BitInv' /\ BuffersOutliveUse'
    OBVIOUS
  <2>2. Calm' => StartInv' /\ EndedInv'
    OBVIOUS
  <2>3. Calm' => HoldsInv' /\ StopWaitInv' /\ PauseInv'
    OBVIOUS
  <2> QED BY <2>1, <2>2, <2>3
<1>4. ASSUME WaitRange PROVE Control'
  <2> USE <1>4 DEF WaitRange
  <2>1. Ranges' /\ PlaceInv' /\ BitInv' /\ BuffersOutliveUse'
    OBVIOUS
  <2>2. Calm' => StartInv' /\ EndedInv'
    OBVIOUS
  <2>3. Calm' => HoldsInv' /\ StopWaitInv' /\ PauseInv'
    OBVIOUS
  <2> QED BY <2>1, <2>2, <2>3
<1> QED BY <1>1, <1>2, <1>3, <1>4

\* So do the calls of the worker and the reads of the decoder.
LEMMA CallControl ==
  ASSUME Control, ~crashed, NothingStarves,
         Begin \/ CallStep \/ Timeout \/ Pop \/ Quiescent
  PROVE  Control'
<1> USE DEF Control, Ranges, Bits, States, Calls, Calm, StopEnd, StartEnd, Exiting, Held, PlaceInv,
            BitInv, CalmInv, StartInv, EndedInv, HoldsInv, StopWaitInv, PauseInv,
            BuffersOutliveUse, Spins, Call, SetEvent, CallVars, TaskVars, shareVars, callVars,
            netVars, loopVars
<1>1. ASSUME Begin PROVE Control'
  <2> USE <1>1 DEF Begin
  <2>1. Ranges' /\ PlaceInv' /\ BitInv' /\ BuffersOutliveUse'
    OBVIOUS
  <2>2. Calm' => StartInv' /\ EndedInv'
    OBVIOUS
  <2>3. Calm' => HoldsInv' /\ StopWaitInv' /\ PauseInv'
    OBVIOUS
  <2> QED BY <2>1, <2>2, <2>3
<1>2. ASSUME StopCheck PROVE Control'
  <2> USE <1>2 DEF StopCheck
  <2>1. Ranges' /\ PlaceInv' /\ BitInv' /\ BuffersOutliveUse'
    OBVIOUS
  <2>2. Calm' => StartInv' /\ EndedInv'
    OBVIOUS
  <2>3. Calm' => HoldsInv' /\ StopWaitInv' /\ PauseInv'
    OBVIOUS
  <2> QED BY <2>1, <2>2, <2>3
<1>3. ASSUME StopPost PROVE Control'
  BY <1>3 DEF StopPost
<1>4. ASSUME StopDetach PROVE Control'
  <2> USE <1>4 DEF StopDetach
  <2>1. Ranges' /\ PlaceInv'
    OBVIOUS
  <2>2. BitInv' /\ BuffersOutliveUse'
    OBVIOUS
  <2>3. Calm' => StartInv' /\ EndedInv'
    OBVIOUS
  <2>4. Calm' => HoldsInv' /\ StopWaitInv' /\ PauseInv'
    OBVIOUS
  <2> QED BY <2>1, <2>2, <2>3, <2>4
<1>5. ASSUME StopClear PROVE Control'
  <2> USE <1>5 DEF StopClear
  <2>1. Ranges' /\ PlaceInv' /\ BitInv' /\ BuffersOutliveUse'
    OBVIOUS
  <2>2. Calm' => StartInv' /\ EndedInv'
    OBVIOUS
  <2>3. Calm' => HoldsInv' /\ StopWaitInv' /\ PauseInv'
    OBVIOUS
  <2> QED BY <2>1, <2>2, <2>3
<1>6. ASSUME Empty PROVE Control'
  BY <1>6 DEF Empty
<1>7. ASSUME Attach PROVE Control'
  BY <1>7 DEF Attach, Fault
<1>8. ASSUME StartPost PROVE Control'
  BY <1>8 DEF StartPost
<1>9. ASSUME PauseClear PROVE Control'
  BY <1>9 DEF PauseClear
<1>10. ASSUME PauseCheck PROVE Control'
  BY <1>10 DEF PauseCheck
<1>11. ASSUME PauseSet PROVE Control'
  <2> USE <1>11 DEF PauseSet
  <2>1. Ranges' /\ PlaceInv' /\ BitInv' /\ BuffersOutliveUse'
    OBVIOUS
  <2>2. Calm' => StartInv' /\ EndedInv'
    OBVIOUS
  <2>3. Calm' => HoldsInv' /\ StopWaitInv' /\ PauseInv'
    OBVIOUS
  <2> QED BY <2>1, <2>2, <2>3
<1>12. ASSUME ResumeClear PROVE Control'
  BY <1>12 DEF ResumeClear
<1>13. ASSUME ResumeCheck PROVE Control'
  BY <1>13 DEF ResumeCheck
<1>14. ASSUME ResumeSet PROVE Control'
  BY <1>14 DEF ResumeSet
<1>15. ASSUME ExitPost PROVE Control'
  BY <1>15 DEF ExitPost
<1>16. ASSUME Delete PROVE Control'
  <2> USE <1>16 DEF Delete
  <2>1. Ranges' /\ PlaceInv' /\ BitInv' /\ BuffersOutliveUse'
    OBVIOUS
  <2>2. Calm' => StartInv' /\ EndedInv'
    OBVIOUS
  <2>3. Calm' => HoldsInv' /\ StopWaitInv' /\ PauseInv'
    OBVIOUS
  <2> QED BY <2>1, <2>2, <2>3
<1>17. ASSUME Wait PROVE Control'
  <2> USE <1>17 DEF Wait, Awaited, AfterWait, Resumed
  <2>1. Ranges' /\ PlaceInv' /\ BitInv' /\ BuffersOutliveUse'
    OBVIOUS
  <2>2. Calm' => StartInv' /\ EndedInv'
    OBVIOUS
  <2>3. Calm' => HoldsInv' /\ StopWaitInv' /\ PauseInv'
    OBVIOUS
  <2> QED BY <2>1, <2>2, <2>3
<1>18. ASSUME Timeout PROVE Control'
  BY <1>18 DEF Timeout, Awaited, AfterWait, Resumed, Starved, AtRest, NothingStarves
<1>19. ASSUME Pop PROVE Control'
  BY <1>19 DEF Pop
<1>20. ASSUME Quiescent PROVE Control'
  BY <1>20 DEF Quiescent, AtRest, vars
<1> QED BY <1>1, <1>2, <1>3, <1>4, <1>5, <1>6, <1>7, <1>8, <1>9, <1>10, <1>11, <1>12, <1>13,
           <1>14, <1>15, <1>16, <1>17, <1>18, <1>19, <1>20 DEF CallStep

\* Every step keeps the control invariant.
LEMMA ControlStep == Control /\ [Next]_vars => Control'
<1> SUFFICES ASSUME Control, [Next]_vars PROVE Control'
  OBVIOUS
<1>1. CASE ~crashed /\ TaskStep /\ ~(Recv \/ PushData \/ WaitFree \/ WaitRange)
  BY <1>1, TaskControl
<1>2. CASE ~crashed /\ TaskStep /\ (Recv \/ PushData \/ WaitFree \/ WaitRange)
  <2>1. UNCHANGED <<file, range_enable, callVars>>
    BY <1>2 DEF TaskStep
  <2> QED BY <1>2, <2>1, DataControl
<1>3. CASE ~crashed /\ (Begin \/ CallStep \/ Timeout \/ Pop \/ Quiescent)
  BY <1>3, Starving, CallControl
<1>4. CASE UNCHANGED vars
  BY <1>4 DEF vars, netVars, loopVars, callVars, shareVars, Control, Ranges, PlaceInv, BitInv,
              CalmInv, Calm, StartInv, EndedInv, HoldsInv, StopWaitInv, PauseInv, Held,
              BuffersOutliveUse, Spins
<1> QED BY <1>1, <1>2, <1>3, <1>4 DEF Next, Halt, Halted

\* Neither NULL nor freed memory is used while no wait has given up on a slow task, no
\* pause was late and the task does not spin in httpclient.c: lines 113-120 take url and
\* http_buffer away only from a task that is idle.
THEOREM BuffersCorrect == Spec => []BuffersOutliveUse
<1>1. Spec => []Control
  BY ControlInit, ControlStep, PTL DEF Spec
<1>2. Control => BuffersOutliveUse
  BY DEF Control
<1> QED BY <1>1, <1>2, PTL

\* While the task does not spin in httpclient.c, no wait has given up on it and no pause
\* was late, stop and deinit are always answered, and a resume always wakes the task
\* (lines 101-147), unless it came between the taking of PAUSE and the change of the state.
THEOREM StarvesCorrect == Spec => []NothingStarves
<1>1. Spec => []Control
  BY ControlInit, ControlStep, PTL DEF Spec
<1> QED BY <1>1, Starving, PTL

-----------------------------------------------------------------------------
(* The data *)

\* Nothing has happened that breaks the stream: no wait has been given up, no pause was
\* taken too late, no empty range was asked for, nothing was taken or pushed wrongly and
\* the task does not spin (else a stop gives up on it and a start brings another file).
Clean == timeouts = 0 /\ ~late_pause /\ ~empty_range /\ ~spoiled /\ ~Spins

\* The states in which a download is on its way.
Busy     == {"CONN", "RECV", "PUSH_DATA", "WAIT_FREE", "WAIT_RANGE", "PAUSE"}
\* How the server answers: in chunks, range by range, or (neither) as a whole.
Chunked  == file.kind = "chunked"
InRanges == file.kind = "ranges" /\ range_enable
\* Where the answer that is being read ends in the file.
Bound    == IF InRanges THEN Smaller(proc.range_end, file.len) ELSE file.len

\* The length of an answer that is being read, headers or chunks not yet seen included.
Total(c) == c.content_len + (IF c.is_chunked THEN c.left ELSE 0)

\* c is in the middle of the answer to the last request: it has read a multiple of the
\* receive buffer, and all that it has left is in the file.
Good(c) ==
  /\ c.is_chunked <=> Chunked
  /\ Ranged(c) <=> InRanges
  /\ c.range_len = IF InRanges THEN file.len ELSE 0
  /\ c.next + c.left = Bound
  /\ Total(c) - c.left \in Nat /\ (Total(c) - c.left) % BufSize = 0
  /\ InRanges \/ Total(c) = file.len
  /\ ~c.foreign

\* What c reads next is what http_proc takes it for.
Continues(c) ==
  IF InRanges THEN c.next = proc.pre_download_pos /\ proc.pre_download_pos < proc.range_end
  ELSE c.next = proc.cur_download_pos

\* All of a chunked file has been pushed and its end has not been seen: the next receive
\* finds nothing (Endless).
Over == Chunked /\ proc.pre_download_pos = file.len /\ file.len % BufSize = 0

\* What is known of the length is right, and there is something left to fetch.
BusyInv == cur_state \in Busy =>
  /\ proc.length_received /\ ~Chunked => proc.total_length = file.len
  /\ proc.is_chunked => Chunked
  /\ proc.pre_download_pos < file.len \/ Over

\* What the next receive finds: another answer, the answer to the last request, the rest
\* of the one begun, or nothing.
RecvInv == cur_state = "RECV" =>
  \/ ~client.is_more /\ wire.type \in {"garbage", "refusal", "moved"}
  \/ /\ ~client.is_more /\ wire.type = "body"
     /\ wire.foreign \/ (Good(Parse(wire)) /\ Continues(Parse(wire)))
  \/ client.is_more /\ Good(client) /\ Continues(client)
  \/ /\ ~client.is_more /\ wire.type = "none" /\ Over
     /\ client.content_len % BufSize = 0 /\ ~client.is_range /\ client.is_chunked

\* The receive buffer holds what follows in the file, and the connection what follows
\* that.
PushInv == cur_state \in {"PUSH_DATA", "WAIT_FREE"} =>
  /\ InOrder
  /\ proc.read_pos < proc.recv_len
  /\ recv_at + proc.recv_len = client.next
  /\ client.is_more <=> proc.more
  /\ client.is_range <=> InRanges
  /\ IF proc.more THEN Good(client) ELSE client.next = Bound
  /\ proc.is_chunked <=> Chunked
  /\ ~Chunked => proc.total_length = file.len
  /\ proc.cur_download_pos = proc.pre_download_pos

\* The player has been told that the download is on, or will be when its start returns.
Playing == \/ /\ session \in {"on", "paused"}
              /\ rpc \notin {"stop_wait", "stop_detach", "stop_clear", "empty"}
           \/ rpc = "start_wait" /\ "START" \notin event \cup took /\ cur_state # "START"
\* A download that has ended without an error has pushed all.
EndInv == Playing /\ cur_state \in {"STOP", "IDLE"} /\ last_error \in {"SUCCESS", "ALL_END"}
          => proc.pre_download_pos = file.len

\* What is pushed, received and left to receive are parts of the file, one after the
\* other.
Fetch == BusyInv /\ RecvInv /\ PushInv

\* The remainder of a number that is a multiple of m and a bit.
LEMMA Division ==
  ASSUME NEW m \in Nat \ {0}, NEW x \in Nat, x % m = 0
  PROVE  (x + m) % m = 0 /\ \A y \in 0..m - 1 : (x + y) % m = y
<1>1. \A a \in Nat, k \in Nat, r \in 0..m - 1 : a = k * m + r => a % m = r
  OBVIOUS
<1> DEFINE q == x \div m
<1>2. q \in Nat /\ x = m * q
  OBVIOUS
<1> HIDE DEF q
<1>3. x + m = (q + 1) * m + 0 /\ 0 \in 0..m - 1 /\ x + m \in Nat /\ q + 1 \in Nat
  BY <1>2
<1>4. (x + m) % m = 0
  BY <1>1, <1>3
<1>5. ASSUME NEW y \in 0..m - 1 PROVE (x + y) % m = y
  <2>1. x + y = q * m + y /\ x + y \in Nat
    BY <1>2
  <2> QED BY <1>1, <1>2, <2>1
<1> QED BY <1>4, <1>5

\* What the receive buffer gets of an answer: http_download_proc_recv takes it from the
\* return code and the length of the answer (lines 527-534).
Length(r) == IF r.ret = "MORE" THEN BufSize ELSE r.client.content_len % BufSize

\* Reading an answer leaves the rest of it, and Length is what has been read: the
\* remainder of the whole length, because all reads before filled the buffer.
LEMMA Retrieval ==
  ASSUME NEW c \in Clients, Good(c), NEW r \in Retrieve(c), file.len \in Nat
  PROVE  /\ r.at = c.next /\ Length(r) \in 0..BufSize
         /\ r.client.next = c.next + Length(r)
         /\ (r.client.is_chunked <=> c.is_chunked) /\ (r.client.is_range <=> c.is_range)
         /\ r.client.range_len = c.range_len /\ ~r.client.foreign
         /\ ~c.is_chunked => r.client.content_len = c.content_len
         /\ \/ r.ret = "MORE" /\ r.client.is_more /\ Good(r.client)
            \/ /\ r.ret = "OK" /\ ~r.client.is_more /\ r.client.next = Bound
               /\ r.client.content_len = Total(c)
<1> DEFINE n == Smaller(c.left, BufSize)
           x == Total(c) - c.left
           d == r.client
<1>1. /\ c.left \in Nat /\ c.next \in Nat /\ c.content_len \in Int /\ c.range_len \in Nat
      /\ c.next + c.left = Bound /\ x \in Nat /\ x % BufSize = 0 /\ Total(c) = x + c.left
  BY DEF Clients, Good, Total
<1>2. /\ r.at = c.next /\ r.ret = IF c.left >= BufSize THEN "MORE" ELSE "OK"
      /\ d.is_more <=> c.left >= BufSize
      /\ d.left = c.left - n /\ d.next = c.next + n
      /\ d.content_len = IF c.is_chunked THEN c.content_len + n ELSE c.content_len
      /\ (d.is_chunked <=> c.is_chunked) /\ (d.is_range <=> c.is_range)
      /\ d.range_len = c.range_len /\ ~d.foreign
  BY Retrieved DEF Good
<1> HIDE DEF d
<1>3. CASE c.left >= BufSize
  <2>1. n = BufSize /\ Length(r) = BufSize
    BY <1>1, <1>2, <1>3 DEF Smaller, Length
  <2>2. Total(d) = Total(c) /\ d.left = c.left - BufSize /\ d.next = c.next + BufSize
    BY <1>1, <1>2, <2>1 DEF Total
  <2> HIDE DEF n, x
  <2> DEFINE y == x + BufSize
  <2>3. y \in Nat /\ y = x + BufSize
    BY <1>1
  <2>8. x \in Nat /\ c.left \in Nat /\ BufSize \in Nat /\ Total(c) = x + c.left
    BY <1>1
  <2>4. Total(d) - d.left = y
    BY <2>2, <2>8
  <2>6. d.next + d.left = Bound
    BY <1>1, <2>2
  <2> HIDE DEF y
  <2>7. y % BufSize = 0
    BY <1>1, <2>3, Division
  <2>5. Good(d)
    BY <1>2, <2>2, <2>3, <2>4, <2>6, <2>7 DEF Good, Ranged
  <2> QED BY <1>2, <1>3, <2>1, <2>2, <2>5 DEF d
<1>4. CASE ~(c.left >= BufSize)
  <2>1. n = c.left /\ c.left \in 0..BufSize - 1
    BY <1>1, <1>4 DEF Smaller
  <2>2. d.content_len = x + c.left /\ d.content_len = Total(c) /\ d.next = Bound
    BY <1>1, <1>2, <2>1 DEF Total
  <2>3. (x + c.left) % BufSize = c.left
    BY <1>1, <2>1, Division
  <2>4. Length(r) = n /\ n \in 0..BufSize
    BY <1>2, <1>4, <2>1, <2>2, <2>3 DEF Length, d
  <2> HIDE DEF n, x
  <2> QED BY <1>2, <1>4, <2>2, <2>4 DEF d
<1> QED BY <1>3, <1>4

\* The types of the places in the file.
LEMMA BoundType ==
  ASSUME TypeInv
  PROVE  /\ file.len \in Nat \ {0} /\ Bound \in Nat /\ Bound <= file.len
         /\ proc.range_end \in Nat /\ proc.pre_download_pos \in Nat /\ proc.cur_download_pos \in Nat
         /\ proc.cur_download_pos <= proc.pre_download_pos
<1>1. file.len \in Nat \ {0} /\ proc \in Procs /\ Okay(proc)
  BY DEF TypeInv, TypeOK
<1> QED BY <1>1 DEF Procs, Bound, Smaller, Okay

\* The first part of an answer is still to come, or the rest of it, or nothing.
Nothing(o) ==
  /\ o.ret = "OK" /\ o.client = client /\ ~client.is_more /\ Over
  /\ client.content_len % BufSize = 0 /\ ~client.is_range /\ client.is_chunked
Errs(o) == /\ Received(o).error \notin {"SUCCESS", "ERR_RECV_SKIP", "ALL_END"}
           /\ AfterRecv(Received(o).error) \in {"CONN", "STOP"}

\* A receive that gives nothing to push ends the connection or the download, with an
\* error, and leaves alone what is known of the file.
LEMMA ErrorsEnd ==
  ASSUME TypeInv, NEW o \in Outcomes,
         o.ret \in {"ERROR_CONN", "ERROR_PRTCL"} \/ Redirects(o) \/ Malformed(o) \/ Forgets(o)
  PROVE  Errs(o) /\ LET p == Received(o).proc
                    IN  /\ p.pre_download_pos = proc.pre_download_pos
                        /\ p.total_length = proc.total_length
                        /\ p.length_received <=> proc.length_received
                        /\ p.is_chunked <=> proc.is_chunked
BY DEF Errs, Received, AfterRecv, TypeInv, TypeOK, Procs

\* What a receive returns: an error, a part of the answer, or nothing.
LEMMA OutcomeCases ==
  ASSUME TypeInv, RecvInv, cur_state = "RECV", NEW o \in RecvOutcomes
  PROVE  \/ o.ret \in {"ERROR_CONN", "ERROR_PRTCL"} \/ Redirects(o) \/ Malformed(o)
         \/ o.client.foreign
         \/ \E c \in Clients : Good(c) /\ Continues(c) /\ o \in Retrieve(c)
         \/ Nothing(o)
<1>1. client \in Clients /\ wire \in Wires
  BY DEF TypeInv, TypeOK
<1>2. CASE client.is_more
  <2>1. Good(client) /\ Continues(client)
    BY <1>2 DEF RecvInv
  <2>2. CASE ~client.edge
    BY <1>1, <1>2, <2>1, <2>2 DEF RecvOutcomes
  <2>3. CASE o = Failed("ERROR_PRTCL", client)
    BY <2>3 DEF Failed
  <2>4. ASSUME NEW d \in Rejoined(client), o \in Retrieve(d)
        PROVE  \/ o.client.foreign
               \/ \E c \in Clients : Good(c) /\ Continues(c) /\ o \in Retrieve(c)
    <3>1. d \in Clients /\ (d = [client EXCEPT !.edge = FALSE] \/ d.foreign)
      BY <1>1, RejoinedType
    <3>2. CASE d.foreign
      BY <2>4, <3>1, <3>2, Retrieved
    <3>3. CASE d = [client EXCEPT !.edge = FALSE]
      <4>1. /\ d.next = client.next /\ d.left = client.left /\ d.content_len = client.content_len
            /\ d.is_chunked = client.is_chunked /\ d.is_range = client.is_range
            /\ d.range_len = client.range_len /\ d.foreign = client.foreign
        BY <1>1, <3>3 DEF Clients
      <4>2. Good(d) /\ Continues(d)
        BY <2>1, <4>1 DEF Good, Continues, Total, Ranged
      <4> QED BY <2>4, <3>1, <4>2
    <3> QED BY <3>1, <3>2, <3>3
  <2> QED BY <1>2, <2>2, <2>3, <2>4 DEF RecvOutcomes
<1>3. CASE ~client.is_more /\ wire.type = "body"
  <2>1. wire \in Bodies
    BY <1>1, <1>3, WireTypes DEF Wires
  <2>2. o \in Retrieve(Parse(wire)) /\ Parse(wire) \in Clients
    BY <1>3, <2>1, ParseType DEF RecvOutcomes
  <2>3. Parse(wire).foreign <=> wire.foreign
    BY ClosedTypes DEF Parse, Clients
  <2>4. wire.foreign => o.client.foreign
    BY <2>2, <2>3, Retrieved
  <2> QED BY <1>3, <2>2, <2>4 DEF RecvInv
<1>4. CASE ~client.is_more /\ wire.type = "garbage"
  BY <1>4 DEF RecvOutcomes, Failed
<1>5. CASE ~client.is_more /\ wire.type = "refusal"
  <2>1. o.ret = "OK" /\ o.client.content_len = -1
    <3>1. Fresh \in Clients
      BY ClosedTypes
    <3>2. [Fresh EXCEPT !.content_len = -1].content_len = -1
      BY <3>1 DEF Clients
    <3>3. o = Failed("OK", [Fresh EXCEPT !.content_len = -1])
      BY <1>5 DEF RecvOutcomes
    <3> QED BY <3>2, <3>3 DEF Failed
  <2> QED BY <2>1 DEF Malformed, Redirects
<1>6. CASE ~client.is_more /\ wire.type = "moved"
  <2>1. o.ret = "MOVED" /\ o.client.content_len = 0
    BY <1>6 DEF RecvOutcomes, Failed, Fresh, Closed
  <2> QED BY <2>1 DEF Malformed, Redirects
<1>7. CASE ~client.is_more /\ wire.type = "none"
  BY <1>7 DEF RecvInv, RecvOutcomes, Failed, Nothing
<1> QED BY <1>2, <1>3, <1>4, <1>5, <1>6, <1>7 DEF RecvInv

\* The outcomes that give nothing to push.
Bad(o) == o.ret \in {"ERROR_CONN", "ERROR_PRTCL"} \/ Redirects(o) \/ Malformed(o) \/ Forgets(o)

\* The fields of http_proc after a receive: what has been pushed before is skipped.
LEMMA Placing ==
  ASSUME TypeInv, BusyInv, cur_state \in Busy, NEW o \in Outcomes, ~Bad(o),
         o.client.is_chunked <=> Chunked, Ranged(o.client) <=> InRanges,
         o.client.range_len = (IF InRanges THEN file.len ELSE 0) \/ Chunked,
         InRanges \/ Chunked \/ o.client.content_len = file.len,
         NEW skip, skip = IF InRanges THEN 0
                          ELSE Smaller(proc.pre_download_pos - proc.cur_download_pos, Length(o)),
         NEW p, p = Received(o).proc
  PROVE  /\ Received(o).error = IF skip >= Length(o) THEN "ERR_RECV_SKIP" ELSE "SUCCESS"
         /\ p.recv_len = Length(o) /\ p.read_pos = skip
         /\ p.more <=> o.ret = "MORE"
         /\ p.pre_download_pos = proc.pre_download_pos /\ p.range_end = proc.range_end
         /\ p.cur_download_pos = IF InRanges THEN proc.pre_download_pos
                                 ELSE proc.cur_download_pos + skip
         /\ p.is_chunked <=> Chunked
         /\ ~Chunked => p.total_length = file.len
<1>1. proc \in Procs /\ file.len \in Nat \ {0} /\ proc.cur_download_pos <= proc.pre_download_pos
      /\ proc.cur_download_pos \in Nat /\ proc.pre_download_pos \in Nat
  BY BoundType DEF TypeInv, Okay
<1>2. o.client \in Clients /\ o.client.content_len \in Int /\ o.client.content_len > 0
  BY DEF Outcomes, Clients, Bad, Malformed
<1> DEFINE m    == Measured(o.client)
           len  == Length(o)
           more == o.ret = "MORE"
           cur  == IF InRanges THEN Larger(m.cur_download_pos, proc.pre_download_pos)
                   ELSE m.cur_download_pos + skip
<1>3. /\ m \in Procs
      /\ m.pre_download_pos = proc.pre_download_pos /\ m.cur_download_pos = proc.cur_download_pos
  BY <1>2, MeasuredType DEF TypeInv, Okay
<1>4. m.range_end = proc.range_end
  BY <1>1 DEF Measured, Procs
<1>5. m.is_chunked <=> Chunked
  BY <1>1 DEF Measured, Procs, BusyInv
<1>6. ~Chunked => m.total_length = file.len
  <2>1. Ranged(o.client) /\ o.client.range_len > 0 <=> InRanges
    BY <1>1 DEF InRanges, Chunked
  <2> QED BY <1>1, <2>1 DEF Measured, Procs, BusyInv
<1>7. Placed(o) = [m EXCEPT !.more = more, !.recv_len = len, !.read_pos = skip,
                            !.cur_download_pos = cur]
  BY <1>3 DEF Placed, Length
<1>8. Received(o) = [error |-> IF Placed(o).read_pos >= Placed(o).recv_len THEN "ERR_RECV_SKIP"
                               ELSE "SUCCESS",
                     proc |-> Placed(o)]
  BY DEF Bad, Received
<1>9. cur = IF InRanges THEN proc.pre_download_pos ELSE proc.cur_download_pos + skip
  BY <1>1, <1>3 DEF Larger
<1> HIDE DEF m, len, more, cur
<1> DEFINE q == [m EXCEPT !.more = more, !.recv_len = len, !.read_pos = skip,
                          !.cur_download_pos = cur]
<1>10. /\ q.recv_len = len /\ q.read_pos = skip /\ q.more = more /\ q.cur_download_pos = cur
       /\ q.pre_download_pos = m.pre_download_pos /\ q.range_end = m.range_end
       /\ q.is_chunked = m.is_chunked /\ q.total_length = m.total_length
  BY <1>3 DEF Procs
<1> HIDE DEF q
<1>11. p = q /\ Received(o).error = IF skip >= len THEN "ERR_RECV_SKIP" ELSE "SUCCESS"
  BY <1>7, <1>8, <1>10 DEF q
<1> QED BY <1>3, <1>4, <1>5, <1>6, <1>9, <1>10, <1>11 DEF len, more

\* The answer that is being read changes only with the file and the range.
LEMMA Frame ==
  ASSUME UNCHANGED <<file, range_enable>>, proc'.range_end = proc.range_end
  PROVE  (Chunked' <=> Chunked) /\ (InRanges' <=> InRanges) /\ Bound' = Bound
BY DEF Chunked, InRanges, Bound

\* The rest of an answer is kept as client_data, with is_range set by
\* http_download_proc_recv.
LEMMA GoodNext ==
  ASSUME NEW d \in Clients, Good(d), UNCHANGED <<file, range_enable>>,
         proc'.range_end = proc.range_end,
         client'.is_range <=> Ranged(d), client'.is_chunked <=> d.is_chunked,
         client'.range_len = d.range_len, client'.next = d.next, client'.left = d.left,
         client'.content_len = d.content_len, client'.foreign <=> d.foreign
  PROVE  Good(client)'
<1>1. Total(client)' = Total(d)
  BY DEF Total
<1>2. Ranged(client)' <=> Ranged(d)
  BY DEF Ranged
<1> QED BY <1>1, <1>2, Frame DEF Good

\* A receive keeps the stream, unless what it takes is not the next of the file.
LEMMA RecvFetch ==
  ASSUME TypeInv, Fetch, Recv, ~spoiled', UNCHANGED <<file, range_enable>>
  PROVE  /\ Fetch'
         /\ cur_state' \in {"STOP", "IDLE"} => last_error' \notin {"SUCCESS", "ALL_END"}
<1>1. /\ cur_state = "RECV" /\ cur_state \in Busy /\ BusyInv /\ RecvInv
      /\ cur_state' = AfterRecv(last_error')
      /\ wire' = NoAnswer
  BY DEF Recv, Run, Fetch, Busy
<1>2. proc \in Procs
  BY DEF TypeInv, TypeOK
<1>3. CASE \E o \in Outcomes : Bad(o) /\ last_error' = Received(o).error /\ proc' = Received(o).proc
  <2>1. PICK o \in Outcomes : Bad(o) /\ last_error' = Received(o).error /\ proc' = Received(o).proc
    BY <1>3
  <2>2. /\ cur_state' \in {"CONN", "STOP"} /\ last_error' \notin {"SUCCESS", "ALL_END"}
        /\ proc'.pre_download_pos = proc.pre_download_pos
        /\ proc'.total_length = proc.total_length
        /\ proc'.length_received <=> proc.length_received
        /\ proc'.is_chunked <=> proc.is_chunked
    BY <1>1, <2>1, ErrorsEnd DEF Bad, Errs
  <2> QED BY <1>1, <2>2 DEF Fetch, BusyInv, RecvInv, PushInv, Over, Chunked, Busy
<1>4. CASE last_error' = "ERR_MALLOC"
  BY <1>1, <1>4 DEF Fetch, BusyInv, RecvInv, PushInv, Busy, AfterRecv
<1>5. ASSUME NEW o \in RecvOutcomes, ~Bad(o),
             last_error' = Received(o).error, proc' = Received(o).proc, recv_at' = o.at,
             client' = LET c == [o.client EXCEPT !.is_range = range_enable /\ @]
                       IN  IF AfterRecv(Received(o).error) = "CONN" THEN Closing(c) ELSE c,
             ~(o.client.foreign /\ Taken(Received(o).error))
      PROVE  Fetch' /\ cur_state' \notin {"STOP", "IDLE"}
  <2>1. o \in Outcomes /\ o.client \in Clients
    BY <1>5, OutcomesType DEF Outcomes
  <2>2. \/ \E c \in Clients : Good(c) /\ Continues(c) /\ o \in Retrieve(c)
        \/ Nothing(o)
    <3>1. Taken(Received(o).error)
      BY <1>5 DEF Taken, Received, Bad
    <3> QED BY <1>1, <1>5, <3>1, OutcomeCases DEF Bad
  <2> DEFINE skip == IF InRanges THEN 0
                     ELSE Smaller(proc.pre_download_pos - proc.cur_download_pos, Length(o))
             b    == range_enable /\ o.client.is_range
             d    == [o.client EXCEPT !.is_range = b]
  <2>3. /\ file.len \in Nat \ {0} /\ Bound <= file.len /\ Bound \in Nat
        /\ proc.pre_download_pos \in Nat /\ proc.cur_download_pos \in Nat
        /\ proc.cur_download_pos <= proc.pre_download_pos /\ proc.range_end \in Nat
    BY BoundType
  <2>4. /\ d.is_range <=> Ranged(o.client)
        /\ d.is_chunked = o.client.is_chunked /\ d.range_len = o.client.range_len
        /\ d.next = o.client.next /\ d.left = o.client.left /\ d.content_len = o.client.content_len
        /\ d.is_more = o.client.is_more /\ d.foreign = o.client.foreign
    BY <2>1 DEF Clients, Ranged
  <2>5. client' = IF AfterRecv(Received(o).error) = "CONN" THEN Closing(d) ELSE d
    BY <1>5
  <2> HIDE DEF d
  \* What the next two steps have in common: the answer, or what is left of it, is placed.
  <2>6. ASSUME o.client.is_chunked <=> Chunked, Ranged(o.client) <=> InRanges,
               o.client.range_len = (IF InRanges THEN file.len ELSE 0) \/ Chunked,
               InRanges \/ Chunked \/ o.client.content_len = file.len
        PROVE  /\ last_error' = IF skip >= Length(o) THEN "ERR_RECV_SKIP" ELSE "SUCCESS"
               /\ cur_state' = IF skip >= Length(o) THEN "RECV" ELSE "PUSH_DATA"
               /\ client' = d
               /\ proc'.recv_len = Length(o) /\ proc'.read_pos = skip
               /\ proc'.more <=> o.ret = "MORE"
               /\ proc'.pre_download_pos = proc.pre_download_pos
               /\ proc'.range_end = proc.range_end
               /\ proc'.cur_download_pos = IF InRanges THEN proc.pre_download_pos
                                           ELSE proc.cur_download_pos + skip
               /\ proc'.is_chunked <=> Chunked
               /\ ~Chunked => proc'.total_length = file.len
               /\ BusyInv'
    <3>1. /\ Received(o).error = IF skip >= Length(o) THEN "ERR_RECV_SKIP" ELSE "SUCCESS"
          /\ proc'.recv_len = Length(o) /\ proc'.read_pos = skip
          /\ proc'.more <=> o.ret = "MORE"
          /\ proc'.pre_download_pos = proc.pre_download_pos /\ proc'.range_end = proc.range_end
          /\ proc'.cur_download_pos = IF InRanges THEN proc.pre_download_pos
                                      ELSE proc.cur_download_pos + skip
          /\ proc'.is_chunked <=> Chunked
          /\ ~Chunked => proc'.total_length = file.len
      BY <1>1, <1>5, <2>1, <2>6, Placing
    <3> HIDE DEF skip
    <3>2. /\ cur_state' = IF skip >= Length(o) THEN "RECV" ELSE "PUSH_DATA"
          /\ client' = d
      BY <1>1, <1>5, <2>5, <3>1 DEF AfterRecv
    <3>3. BusyInv'
      BY <1>1, <3>1 DEF BusyInv, Over, Chunked
    <3> QED BY <1>5, <3>1, <3>2, <3>3
  <2>7. ASSUME NEW c \in Clients, Good(c), Continues(c), o \in Retrieve(c)
        PROVE  Fetch' /\ cur_state' \notin {"STOP", "IDLE"}
    <3>1. /\ o.at = c.next /\ Length(o) \in 0..BufSize
          /\ o.client.next = c.next + Length(o)
          /\ (o.client.is_chunked <=> c.is_chunked) /\ (o.client.is_range <=> c.is_range)
          /\ o.client.range_len = c.range_len
          /\ ~c.is_chunked => o.client.content_len = c.content_len
          /\ \/ o.ret = "MORE" /\ o.client.is_more /\ Good(o.client)
             \/ /\ o.ret = "OK" /\ ~o.client.is_more /\ o.client.next = Bound
                /\ o.client.content_len = Total(c)
      BY <2>3, <2>7, Retrieval
    <3>2. /\ o.client.is_chunked <=> Chunked
          /\ Ranged(o.client) <=> InRanges
          /\ o.client.range_len = IF InRanges THEN file.len ELSE 0
          /\ InRanges \/ Chunked \/ o.client.content_len = file.len
          /\ InRanges \/ Total(c) = file.len
          /\ c.next \in Nat
      BY <2>7, <3>1 DEF Good, Ranged, Total, Clients
    <3>3. /\ last_error' = IF skip >= Length(o) THEN "ERR_RECV_SKIP" ELSE "SUCCESS"
          /\ cur_state' = IF skip >= Length(o) THEN "RECV" ELSE "PUSH_DATA"
          /\ client' = d
          /\ proc'.recv_len = Length(o) /\ proc'.read_pos = skip
          /\ proc'.more <=> o.ret = "MORE"
          /\ proc'.pre_download_pos = proc.pre_download_pos
          /\ proc'.range_end = proc.range_end
          /\ proc'.cur_download_pos = IF InRanges THEN proc.pre_download_pos
                                      ELSE proc.cur_download_pos + skip
          /\ proc'.is_chunked <=> Chunked
          /\ ~Chunked => proc'.total_length = file.len
          /\ BusyInv'
      BY <2>6, <3>2
    <3>4. IF InRanges THEN c.next = proc.pre_download_pos /\ proc.pre_download_pos < proc.range_end
          ELSE c.next = proc.cur_download_pos
      BY <2>7 DEF Continues
    <3>5. Good(o.client) => Good(client)'
      BY <2>1, <2>4, <3>3, GoodNext
    <3>6. (Chunked' <=> Chunked) /\ (InRanges' <=> InRanges) /\ Bound' = Bound
      BY <3>3, Frame
    <3>7. /\ skip \in 0..Length(o) /\ (InRanges => skip = 0)
          /\ ~InRanges /\ skip < Length(o) => skip = proc.pre_download_pos - proc.cur_download_pos
          /\ ~InRanges => skip <= proc.pre_download_pos - proc.cur_download_pos
      BY <2>3, <3>1 DEF Smaller
    <3> HIDE DEF skip
    <3>8. CASE skip < Length(o)
      <4>1. cur_state' = "PUSH_DATA"
        BY <3>1, <3>3, <3>7, <3>8
      <4>2. /\ recv_at' + proc'.read_pos = proc'.pre_download_pos
            /\ recv_at' + proc'.recv_len = client'.next
            /\ proc'.cur_download_pos = proc'.pre_download_pos
            /\ proc'.read_pos < proc'.recv_len
        BY <1>5, <2>3, <2>4, <3>1, <3>2, <3>3, <3>4, <3>7, <3>8
      <4>3. client'.next <= file'.len
        <5>1. o.client.next \in Nat /\ (Good(o.client) => o.client.next <= Bound)
          BY <2>1, <2>3 DEF Good, Clients
        <5>2. o.client.next <= Bound
          BY <2>3, <3>1, <5>1
        <5>3. client'.next = o.client.next /\ file'.len = file.len
          BY <2>4, <3>3
        <5> QED BY <2>3, <5>1, <5>2, <5>3
      <4>4. InOrder'
        BY <4>2, <4>3 DEF InOrder
      <4>5. /\ client'.is_more <=> proc'.more
            /\ client'.is_range <=> InRanges'
            /\ IF proc'.more THEN Good(client)' ELSE client'.next = Bound'
        BY <2>4, <3>1, <3>2, <3>3, <3>5, <3>6
      <4> QED BY <3>3, <3>6, <4>1, <4>2, <4>4, <4>5 DEF Fetch, PushInv, RecvInv
    <3>9. CASE skip >= Length(o)
      <4>1. cur_state' = "RECV" /\ skip = Length(o)
        BY <3>1, <3>3, <3>7, <3>9
      <4>2. CASE o.ret = "MORE"
        <5>1. Length(o) = BufSize /\ BufSize > 0
          BY <4>2 DEF Length
        <5>2. ~InRanges /\ proc'.cur_download_pos = client'.next
          BY <2>3, <2>4, <3>1, <3>3, <3>4, <3>7, <4>1, <5>1
        <5>3. client'.is_more /\ Good(client)'
          BY <2>4, <3>1, <3>3, <3>5, <4>2
        <5>4. Continues(client)'
          BY <3>6, <5>2 DEF Continues
        <5> QED BY <3>3, <4>1, <5>3, <5>4 DEF Fetch, PushInv, RecvInv
      <4>3. CASE o.ret = "OK"
        <5>1. o.client.next = Bound /\ ~o.client.is_more /\ o.client.content_len = Total(c)
          BY <3>1, <4>3
        <5>2. InRanges => proc.pre_download_pos = Bound /\ proc.pre_download_pos < file.len
          BY <1>1, <2>3, <3>1, <3>2, <3>4, <3>7, <4>1, <5>1 DEF BusyInv, Over, Chunked, InRanges
        <5>3. ~InRanges
          BY <2>3, <3>4, <5>2 DEF Bound, Smaller
        <5>4. Bound = file.len
          BY <5>3 DEF Bound
        <5>5. proc.pre_download_pos >= file.len
          BY <2>3, <3>1, <3>4, <3>7, <4>1, <5>1, <5>3, <5>4
        <5>6. Over
          BY <1>1, <2>3, <5>5 DEF BusyInv
        <5>7. Over' /\ client'.content_len % BufSize = 0
          BY <2>4, <3>2, <3>3, <5>1, <5>3, <5>6 DEF Over, Chunked
        <5>8. ~client'.is_range /\ client'.is_chunked /\ ~client'.is_more
          BY <2>4, <3>2, <3>3, <5>1, <5>3, <5>6 DEF Over
        <5> QED BY <1>1, <3>3, <4>1, <5>7, <5>8, WireTypes DEF Fetch, PushInv, RecvInv
      <4> QED BY <3>1, <4>2, <4>3
    <3> QED BY <3>1, <3>7, <3>8, <3>9
  <2>8. ASSUME Nothing(o) PROVE  Fetch' /\ cur_state' \notin {"STOP", "IDLE"}
    <3>1. /\ o.client = client /\ Chunked /\ ~InRanges /\ Length(o) = 0
          /\ o.client.is_chunked /\ ~o.client.is_range /\ o.client.content_len % BufSize = 0
      BY <2>8 DEF Nothing, Over, Chunked, InRanges, Length
    <3>2. skip = 0
      BY <2>3, <3>1 DEF Smaller
    <3>3. ~Ranged(o.client)
      BY <3>1 DEF Ranged
    <3>4. /\ cur_state' = "RECV" /\ client' = d /\ BusyInv'
          /\ proc'.pre_download_pos = proc.pre_download_pos
      BY <2>6, <3>1, <3>2, <3>3
    <3>5. ~client.is_more
      BY <2>8 DEF Nothing
    <3>6. Over'
      BY <2>8, <3>4 DEF Nothing, Over, Chunked
    <3> QED BY <1>1, <2>4, <3>1, <3>3, <3>4, <3>5, <3>6, WireTypes DEF Fetch, RecvInv, PushInv
  <2> QED BY <2>2, <2>7, <2>8
<1> QED
  <2>1. Failed("ERROR_CONN", Closed) \in Outcomes /\ Failed("ERROR_PRTCL", Closed) \in Outcomes
    BY ClosedTypes DEF Failed, Outcomes, Wires, TypeInv, TypeOK
  <2>2. Bad(Failed("ERROR_CONN", Closed)) /\ Bad(Failed("ERROR_PRTCL", Closed))
    BY DEF Bad, Failed
  <2> QED BY <1>3, <1>4, <1>5, <2>1, <2>2, OutcomesType DEF Recv

\* So does a request: the answer to it begins where http_proc will take it to begin.
LEMMA SendFetch ==
  ASSUME TypeInv, Fetch, ConnSend, pc = "conn_send" => cur_state = "CONN", ~empty_range',
         UNCHANGED <<file, range_enable>>
  PROVE  /\ Fetch'
         /\ cur_state' \notin {"STOP", "IDLE"}
<1> DEFINE begin == proc.pre_download_pos
           end   == begin + RangeCount
<1>1. /\ cur_state = "CONN" /\ cur_state \in Busy /\ BusyInv
      /\ cur_state' \in {"RECV", "CONN"} /\ proc \in Procs
      /\ proc' = [proc EXCEPT !.cur_download_pos = 0, !.range_end = IF range_enable THEN end ELSE @]
      /\ range_enable => ~(end <= begin)
  BY DEF ConnSend, At, Fetch, Busy, TypeInv, TypeOK
<1>2. begin \in Nat /\ end \in Nat
  BY RangeEnd, BoundType
<1> HIDE DEF begin, end
<1>3. /\ proc'.pre_download_pos = begin /\ proc'.cur_download_pos = 0
      /\ proc'.total_length = proc.total_length /\ proc'.length_received = proc.length_received
      /\ proc'.is_chunked = proc.is_chunked /\ (range_enable => proc'.range_end = end)
  BY <1>1 DEF Procs, begin
<1>4. BusyInv'
  BY <1>1, <1>3 DEF BusyInv, Over, Chunked, begin
<1>5. CASE cur_state' = "CONN"
  BY <1>4, <1>5 DEF Fetch, RecvInv, PushInv
<1>6. CASE cur_state' = "RECV" /\ wire' \in {Garbage, Refusal, Moved} \cup OtherPages
  <2>1. \/ wire'.type \in {"garbage", "refusal", "moved"}
        \/ wire'.type = "body" /\ wire'.foreign
    BY <1>6, WireTypes, PagesType DEF Bodies
  <2>2. ~client'.is_more
    BY <1>1, <1>6 DEF ConnSend, Fresh, Closed
  <2> QED BY <1>4, <1>6, <2>1, <2>2 DEF Fetch, RecvInv, PushInv
<1>7. CASE cur_state' = "RECV" /\ wire' = Answer(begin, end)
  <2>1. client' = Fresh /\ ~client'.is_more
    BY <1>1, <1>7 DEF ConnSend, Fresh, Closed
  <2>2. file.len \in Nat \ {0} /\ (InRanges => begin < file.len /\ begin < end)
    BY <1>1, <1>2, BoundType DEF BusyInv, Over, Chunked, InRanges, begin
  <2>3. /\ Chunked' <=> Chunked
        /\ InRanges' <=> InRanges
        /\ Bound' = IF InRanges THEN Smaller(end, file.len) ELSE file.len
    BY <1>3 DEF Chunked, InRanges, Bound
  <2> DEFINE a == Answer(begin, end)
             all == IF InRanges THEN file.len ELSE 0
             at  == IF InRanges THEN begin ELSE 0
             len == IF InRanges THEN Smaller(end, file.len) - begin ELSE file.len
  <2>4. /\ a.type = "body" /\ a.at = at /\ a.len = len /\ a.all = all
        /\ (a.chunked <=> Chunked) /\ (range_enable /\ a.ranged <=> InRanges) /\ ~a.foreign
    <3>1. InRanges => ~(begin >= file.len) /\ ~(end <= begin)
      BY <1>2, <2>2
    <3>2. CASE InRanges
      <4>1. a = Body(begin, Smaller(end, file.len) - begin, TRUE, file.len, FALSE)
        BY <3>1, <3>2 DEF Answer, InRanges
      <4> QED BY <3>2, <4>1 DEF Body, InRanges, Chunked
    <3>3. CASE file.kind # "ranges"
      <4>1. a = Body(0, file.len, FALSE, 0, Chunked)
        BY <3>3 DEF Answer, Chunked
      <4>2. /\ a.type = "body" /\ a.at = 0 /\ a.len = file.len /\ a.all = 0
            /\ a.chunked = Chunked /\ a.ranged = FALSE /\ a.foreign = FALSE
        BY <4>1 DEF Body
      <4> QED BY <3>3, <4>2 DEF InRanges
    <3>4. CASE file.kind = "ranges" /\ ~range_enable
      <4>1. a = Body(0, file.len, TRUE, 0, FALSE)
        BY <3>4 DEF Answer
      <4> QED BY <3>4, <4>1 DEF Body, InRanges, Chunked
    <3>5. InRanges \/ file.kind # "ranges" \/ (file.kind = "ranges" /\ ~range_enable)
      BY DEF InRanges
    <3> QED BY <3>2, <3>3, <3>4, <3>5
  <2> HIDE DEF a
  <2> DEFINE c == Parse(a)
  <2>5. /\ c.next = at /\ c.left = len /\ c.range_len = all
        /\ c.content_len = IF Chunked THEN 0 ELSE len
        /\ (c.is_chunked <=> Chunked) /\ (range_enable /\ c.is_range <=> InRanges) /\ ~c.foreign
    <3>1. Fresh \in Clients
      BY ClosedTypes
    <3>2. /\ c.next = a.at /\ c.left = a.len /\ c.range_len = a.all
          /\ c.content_len = IF a.chunked THEN 0 ELSE a.len
          /\ c.is_chunked = a.chunked /\ c.is_range = a.ranged /\ c.foreign = a.foreign
      BY <3>1 DEF Parse, Clients
    <3> QED BY <2>4, <3>2
  <2> HIDE DEF c
  <2>6. len \in Nat /\ at + len = Bound' /\ (InRanges => ~Chunked)
    BY <1>2, <2>2, <2>3 DEF Smaller, InRanges, Chunked
  <2>7. Parse(wire') = c
    BY <1>7 DEF a, c
  <2>8. len - len = 0 /\ 0 % BufSize = 0
    BY <2>6
  <2> HIDE DEF at, len, all
  <2>9. Total(Parse(wire))' = len
    BY <2>5, <2>6, <2>7 DEF Total
  <2>10. Good(Parse(wire))'
    <3>1. Ranged(Parse(wire))' <=> InRanges
      BY <2>5, <2>7 DEF Ranged
    <3>2. InRanges \/ len = file.len
      BY DEF len
    <3>3. all = IF InRanges THEN file.len ELSE 0
      BY DEF all
    <3> QED BY <2>3, <2>5, <2>6, <2>7, <2>8, <2>9, <3>1, <3>2, <3>3 DEF Good
  <2>11. Continues(Parse(wire))'
    BY <1>3, <2>2, <2>3, <2>5, <2>7 DEF Continues, InRanges, at
  <2>12. wire'.type = "body"
    BY <1>7, <2>4 DEF a
  <2> QED BY <1>4, <1>7, <2>1, <2>10, <2>11, <2>12 DEF Fetch, RecvInv, PushInv
<1>8. \/ cur_state' = "CONN"
      \/ cur_state' = "RECV" /\ wire' \in {Garbage, Refusal, Moved} \cup OtherPages
      \/ cur_state' = "RECV" /\ wire' = Answer(begin, end)
  BY <1>1 DEF ConnSend, begin, end
<1> QED BY <1>1, <1>5, <1>6, <1>7, <1>8

\* So does a push, and one that ends the download has pushed all.
LEMMA PushFetch ==
  ASSUME TypeInv, Fetch, PushData, UNCHANGED <<file, range_enable>>
  PROVE  /\ Fetch'
         /\ cur_state' \in {"STOP", "IDLE"} => proc'.pre_download_pos = file'.len
<1>1. /\ cur_state = "PUSH_DATA" /\ cur_state \in Busy /\ BusyInv /\ PushInv
      /\ UNCHANGED recv_at /\ proc \in Procs /\ client \in Clients
  BY DEF PushData, Run, Fetch, Busy, TypeInv, TypeOK
<1>2. CASE NoRoom
  <2>1. cur_state' = "WAIT_FREE" /\ UNCHANGED <<proc, client, wire>>
    BY <1>2 DEF PushData
  <2> QED BY <1>1, <2>1 DEF Fetch, BusyInv, RecvInv, PushInv, Busy, InOrder, Over, Chunked,
         InRanges, Bound, Good, Ranged, Total
<1>3. CASE ~NoRoom
  <2> DEFINE pos == proc.pre_download_pos + Pending
  <2>1. /\ last_error' = Pushed(pos) /\ cur_state' = AfterPush(last_error')
        /\ proc' = [proc EXCEPT !.pre_download_pos = @ + Pending, !.cur_download_pos = @ + Pending,
                                !.read_pos = proc.recv_len]
        /\ last_error' # "RANGE_END" => UNCHANGED <<client, wire>>
    BY <1>3 DEF PushData
  <2>2. /\ proc'.pre_download_pos = pos /\ proc'.cur_download_pos = pos
        /\ proc'.total_length = proc.total_length /\ proc'.length_received = proc.length_received
        /\ proc'.is_chunked = proc.is_chunked /\ proc'.range_end = proc.range_end
    BY <1>1, <2>1 DEF Procs, PushInv
  <2>3. /\ pos = client.next /\ pos <= file.len /\ pos \in Nat
    <3>1. /\ recv_at \in Nat /\ file.len \in Nat /\ client.next \in Nat /\ proc.recv_len \in Nat
          /\ proc.read_pos \in Nat /\ proc.pre_download_pos \in Nat
      BY <1>1, BoundType DEF Procs, Clients, TypeInv, TypeOK
    <3>2. /\ recv_at + proc.read_pos = proc.pre_download_pos
          /\ recv_at + proc.recv_len <= file.len
          /\ recv_at + proc.recv_len = client.next
      BY <1>1 DEF PushInv, InOrder
    <3> QED BY <3>1, <3>2 DEF Pending
  <2>4. (Chunked' <=> Chunked) /\ (InRanges' <=> InRanges) /\ Bound' = Bound
    BY <2>2, Frame
  <2>5. file.len \in Nat \ {0} /\ proc.range_end \in Nat
    BY BoundType
  <2> HIDE DEF pos
  <2>6. CASE last_error' = "ALL_END"
    <3>1. cur_state' = "STOP"
      BY <2>1, <2>6 DEF AfterPush
    <3>2. \/ ~client.is_range /\ ~proc.more
          \/ ~proc.is_chunked /\ pos >= proc.total_length
      BY <2>1, <2>6 DEF Pushed
    <3>3. pos = file.len
      BY <1>1, <2>3, <2>5, <3>2 DEF PushInv, Bound
    <3> QED BY <2>2, <3>1, <3>3 DEF Fetch, BusyInv, RecvInv, PushInv, Busy
  <2>7. CASE last_error' = "RANGE_END"
    <3>1. cur_state' = "WAIT_RANGE"
      BY <2>1, <2>7 DEF AfterPush
    <3>2. client.is_range /\ ~(~proc.is_chunked /\ pos >= proc.total_length)
      BY <2>1, <2>7 DEF Pushed
    <3>3. ~Chunked /\ pos < file.len
      BY <1>1, <2>3, <2>5, <3>2 DEF PushInv, InRanges, Chunked
    <3>4. BusyInv'
      BY <1>1, <2>2, <2>4, <3>3 DEF BusyInv, PushInv
    <3> QED BY <3>1, <3>4 DEF Fetch, RecvInv, PushInv
  <2>8. CASE last_error' = "SUCCESS"
    <3>1. cur_state' = "RECV" /\ UNCHANGED <<client, wire>>
      BY <2>1, <2>8 DEF AfterPush
    <3>2. /\ client.is_range \/ proc.more
          /\ ~(~proc.is_chunked /\ pos >= proc.total_length)
          /\ ~(client.is_range /\ pos >= proc.range_end)
      BY <2>1, <2>8 DEF Pushed
    <3>3. /\ ~Chunked => pos < file.len
          /\ InRanges => ~Chunked /\ pos < proc.range_end
      BY <1>1, <2>3, <2>5, <3>2 DEF PushInv, InRanges, Chunked
    <3>4. proc.more
      BY <1>1, <2>3, <2>5, <3>2, <3>3 DEF PushInv, Bound, Smaller
    <3>5. client.is_more /\ Good(client)
      BY <1>1, <3>4 DEF PushInv
    <3>6. Good(client)' /\ client'.is_more
      <4>1. client'.is_range <=> Ranged(client)
        BY <1>1, <3>1, <3>5 DEF PushInv, Good
      <4>2. proc'.range_end = proc.range_end
        BY <2>2
      <4> QED BY <1>1, <3>1, <3>5, <4>1, <4>2, GoodNext
    <3>7. Continues(client)'
      BY <2>2, <2>3, <2>4, <3>1, <3>3 DEF Continues
    <3>8. Chunked /\ pos = file.len => file.len % BufSize = 0
      BY <1>1, <2>3, <2>5, <3>5 DEF Good, InRanges, Chunked, Bound, Clients
    <3>9. pos < file.len \/ (Chunked /\ pos = file.len /\ file.len % BufSize = 0)
      BY <2>3, <2>5, <3>3, <3>8
    <3>10. BusyInv'
      BY <1>1, <2>2, <2>4, <3>9 DEF BusyInv, PushInv, Over
    <3> QED BY <3>1, <3>6, <3>7, <3>10 DEF Fetch, RecvInv, PushInv
  <2> QED BY <2>1, <2>6, <2>7, <2>8 DEF Pushed
<1> QED BY <1>2, <1>3

\* The data invariant.
DataInv == Clean => Fetch /\ EndInv

\* A step that leaves the stream alone keeps what is known of it.
LEMMA FetchKept ==
  ASSUME Fetch, UNCHANGED <<cur_state, file, range_enable, proc, client, wire, recv_at>>
  PROVE  Fetch'
<1>1. (Chunked' <=> Chunked) /\ (InRanges' <=> InRanges) /\ Bound' = Bound
  BY Frame
<1>2. \A c : Good(c)' <=> Good(c)
  BY <1>1 DEF Good, Ranged, Total
<1>3. \A c : Continues(c)' <=> Continues(c)
  BY <1>1 DEF Continues
<1>4. Over' <=> Over
  BY <1>1 DEF Over
<1>5. BusyInv'
  BY <1>1, <1>4 DEF Fetch, BusyInv
<1>6. RecvInv'
  BY <1>2, <1>3, <1>4 DEF Fetch, RecvInv
<1>7. InOrder' <=> InOrder
  BY DEF InOrder
<1>8. PushInv'
  BY <1>1, <1>2, <1>7 DEF Fetch, PushInv
<1> QED BY <1>5, <1>6, <1>8 DEF Fetch

\* Neither does a change of the state, as long as the session goes on.
LEMMA FetchRest ==
  ASSUME Fetch, UNCHANGED file, cur_state' \notin {"RECV", "PUSH_DATA", "WAIT_FREE"},
         cur_state' \in Busy => /\ cur_state \in Busy
                                /\ proc'.pre_download_pos = proc.pre_download_pos
                                /\ proc'.total_length = proc.total_length
                                /\ proc'.length_received <=> proc.length_received
                                /\ proc'.is_chunked <=> proc.is_chunked
  PROVE  Fetch'
BY DEF Fetch, BusyInv, RecvInv, PushInv, Over, Chunked, Busy

\* The steps of the loop that move no data keep it ...
LEMMA LoopData ==
  ASSUME Control, DataInv, TypeInv, TaskStep, ~StartBody, ~ConnSend, ~Recv, ~PushData, Clean'
  PROVE  Fetch' /\ EndInv'
<1>1. UNCHANGED <<file, range_enable, rpc, op, session, timeouts>>
  BY DEF TaskStep, callVars
<1>11. (late_pause => late_pause') /\ UNCHANGED <<empty_range, spoiled>> /\ (Spins => Spins')
  <2>1. CASE PollEvents \/ IdleAck \/ IdleWait \/ IdleLeft \/ IdleGo \/ Started
    BY <2>1 DEF PollEvents, IdleAck, IdleWait, IdleLeft, IdleGo, Started, netVars, Spins, At
  <2>2. CASE Apply
    BY <2>2 DEF Apply, netVars, Spins, At
  <2>3. CASE StopBody \/ PauseBody \/ PauseWait \/ PauseLeft \/ ConnOpen
    BY <2>3 DEF StopBody, PauseBody, PauseWait, PauseLeft, ConnOpen, netVars, Spins, At, Run
  <2>4. CASE WaitFree \/ WaitRange
    BY <2>4 DEF WaitFree, WaitRange, netVars, loopVars, Spins, At, Run
  <2>5. ~RecvHangs
    BY DEF RecvHangs, Clean, Spins, At
  <2> QED BY <2>1, <2>2, <2>3, <2>4, <2>5 DEF TaskStep
<1>12. Clean
  BY <1>1, <1>11 DEF Clean
<1>2. Clean /\ Fetch /\ EndInv /\ Calm
  BY <1>12 DEF Clean, Calm, DataInv
<1> USE DEF EndInv, Playing, Control, Ranges, PlaceInv, BitInv, CalmInv, StartInv, EndedInv,
            PauseInv, StopEnd, Exiting, StartEnd, At, Run, netVars
<1>3. CASE PollEvents
  <2>1. Fetch'
    BY <1>1, <1>2, <1>3, FetchKept DEF PollEvents
  <2>2. EndInv'
    BY <1>1, <1>2, <1>3 DEF PollEvents
  <2> QED BY <2>1, <2>2
<1>4. CASE IdleAck \/ IdleWait \/ IdleLeft \/ Started \/ PauseWait
  <2>1. Fetch'
    BY <1>1, <1>2, <1>4, FetchKept DEF IdleAck, IdleWait, IdleLeft, Started, PauseWait
  <2>2. EndInv'
    BY <1>1, <1>2, <1>4 DEF IdleAck, IdleWait, IdleLeft, Started, PauseWait
  <2> QED BY <2>1, <2>2
<1>5. CASE Apply
  <2>1. "STOP" \in took => rpc = "stop_wait"
    BY <1>2
  <2>2. "STOP" \notin took => cur_state' = "PAUSE" /\ cur_state \in Busy
    BY <1>2, <1>5 DEF Apply, Clean, Busy, States
  <2>3. Fetch'
    BY <1>1, <1>2, <1>5, <2>2, FetchRest DEF Apply, Busy
  <2>4. EndInv'
    BY <1>1, <1>2, <1>5, <2>1, <2>2 DEF Apply
  <2> QED BY <2>3, <2>4
<1>6. CASE IdleGo
  <2>1. Fetch'
    BY <1>1, <1>2, <1>6, FetchRest DEF IdleGo, Busy
  <2>2. EndInv'
    BY <1>1, <1>2, <1>6 DEF IdleGo
  <2> QED BY <2>1, <2>2
<1>7. CASE StopBody \/ PauseBody \/ PauseLeft
  <2>1. Fetch'
    BY <1>1, <1>2, <1>7, FetchRest DEF StopBody, PauseBody, PauseLeft, Busy
  <2>2. EndInv'
    BY <1>1, <1>2, <1>7 DEF StopBody, PauseBody, PauseLeft
  <2> QED BY <2>1, <2>2
<1>8. CASE ConnOpen
  <2>1. /\ proc'.pre_download_pos = proc.pre_download_pos
        /\ proc'.total_length = proc.total_length
        /\ proc'.length_received <=> proc.length_received
        /\ proc'.is_chunked <=> proc.is_chunked
    BY <1>8 DEF ConnOpen, TypeInv, TypeOK, Procs
  <2>2. /\ cur_state = "CONN" /\ cur_state' \in {"CONN", "STOP"}
        /\ cur_state' = "STOP" => last_error' \in {"ERR_PARAM", "ERR_TRY_CONN"}
    BY <1>8 DEF ConnOpen
  <2>3. Fetch'
    BY <1>1, <1>2, <2>1, <2>2, FetchRest DEF Busy
  <2>4. EndInv'
    BY <2>2
  <2> QED BY <2>3, <2>4
<1>9. CASE WaitFree
  <2>1. /\ cur_state = "WAIT_FREE" /\ cur_state' \in {"WAIT_FREE", "PUSH_DATA"}
        /\ UNCHANGED <<file, range_enable, proc, client, wire, recv_at>>
    BY <1>1, <1>9 DEF WaitFree
  <2>2. (Chunked' <=> Chunked) /\ (InRanges' <=> InRanges) /\ Bound' = Bound
    BY <2>1, Frame
  <2>3. Good(client)' <=> Good(client)
    BY <2>1, <2>2 DEF Good, Ranged, Total
  <2>4. PushInv'
    BY <1>2, <2>1, <2>2, <2>3 DEF Fetch, PushInv, InOrder
  <2>5. BusyInv'
    BY <1>2, <2>1, <2>2 DEF Fetch, BusyInv, Busy, Over
  <2> QED BY <2>1, <2>4, <2>5 DEF Fetch, RecvInv
<1>10. CASE WaitRange
  BY <1>1, <1>2, <1>10, FetchRest DEF WaitRange, Busy
<1>13. ~RecvHangs
  BY DEF RecvHangs, Clean, Spins
<1> QED BY <1>3, <1>4, <1>5, <1>6, <1>7, <1>8, <1>9, <1>10, <1>13 DEF TaskStep

\* ... and so do those that do.
LEMMA SessionData ==
  ASSUME Control, DataInv, TypeInv, TypeInv', TaskStep, Clean',
         StartBody \/ ConnSend \/ Recv \/ PushData
  PROVE  Fetch' /\ EndInv'
<1>1. UNCHANGED <<file, range_enable, rpc, op, session, timeouts>>
  BY DEF TaskStep, callVars
<1>2. CASE StartBody
  <2>1. /\ file'.len > 0 /\ NoProc \in Procs
    BY <1>1, BoundType DEF NoProc, Procs
  <2>2. /\ cur_state' \in {"CONN", "STOP"}
        /\ cur_state' = "STOP" => last_error' = "ERR_MALLOC"
        /\ cur_state' = "CONN" => proc' = [NoProc EXCEPT !.range_forecast = range_enable]
    BY <1>2 DEF StartBody
  <2>3. cur_state' = "CONN" => /\ proc'.pre_download_pos = 0 /\ ~proc'.length_received
                               /\ ~proc'.is_chunked
    BY <2>2 DEF NoProc
  <2> QED BY <2>1, <2>2, <2>3 DEF Fetch, BusyInv, RecvInv, PushInv, EndInv, Busy
<1>3. CASE ConnSend
  <2>1. Fetch
    BY <1>1, <1>3 DEF ConnSend, Clean, DataInv, Spins, At
  <2>2. Fetch' /\ cur_state' \notin {"STOP", "IDLE"}
    BY <1>1, <1>3, <2>1, SendFetch DEF Clean, Control, PlaceInv
  <2> QED BY <2>2 DEF EndInv
<1>4. CASE Recv
  <2>1. Fetch
    BY <1>1, <1>4 DEF Recv, Clean, DataInv, Spins, Run, At
  <2>2. /\ Fetch'
        /\ cur_state' \in {"STOP", "IDLE"} => last_error' \notin {"SUCCESS", "ALL_END"}
    BY <1>1, <1>4, <2>1, RecvFetch DEF Clean
  <2> QED BY <2>2 DEF EndInv
<1>5. CASE PushData
  <2>1. Fetch
    BY <1>1, <1>5 DEF PushData, Clean, DataInv, Spins, Run, At, NoRoom
  <2>2. /\ Fetch'
        /\ cur_state' \in {"STOP", "IDLE"} => proc'.pre_download_pos = file'.len
    BY <1>1, <1>5, <2>1, PushFetch
  <2> QED BY <2>2 DEF EndInv
<1> QED BY <1>2, <1>3, <1>4, <1>5

\* The worker and the decoder leave the stream alone; a new file comes only when the
\* task is idle and the session is over.
LEMMA CallData ==
  ASSUME Control, DataInv, ~crashed, Begin \/ CallStep \/ Timeout \/ Pop \/ Quiescent, Clean'
  PROVE  Fetch' /\ EndInv'
<1> USE DEF Call, CallVars, TaskVars, shareVars, callVars, netVars, loopVars
<1>1. /\ UNCHANGED <<cur_state, proc, client, wire, recv_at, took, pc, late_pause, empty_range,
                 spoiled>>
      /\ (Timeout /\ ~Starved) \/ UNCHANGED timeouts
  <2>1. CASE \/ Begin \/ StopCheck \/ StopPost \/ StopDetach \/ StopClear
             \/ Empty \/ Attach \/ StartPost
    BY <2>1 DEF Begin, StopCheck, StopPost, StopDetach, StopClear, Empty, Attach, StartPost
  <2>2. CASE PauseClear \/ PauseCheck \/ PauseSet \/ ResumeClear \/ ResumeCheck \/ ResumeSet
    BY <2>2 DEF PauseClear, PauseCheck, PauseSet, ResumeClear, ResumeCheck, ResumeSet
  <2>3. CASE ExitPost \/ Delete \/ Wait \/ Timeout \/ Pop \/ Quiescent
    BY <2>3 DEF ExitPost, Delete, Wait, Timeout, Pop, Quiescent, vars
  <2> QED BY <2>1, <2>2, <2>3 DEF CallStep
<1>2. Clean /\ UNCHANGED timeouts /\ (Timeout => Starved)
  BY <1>1 DEF Clean, Control, Ranges, Timeout, Spins
<1>3. /\ Fetch /\ EndInv /\ Ranges /\ PlaceInv /\ BitInv
      /\ StartInv /\ EndedInv /\ StopWaitInv /\ PauseInv
  BY <1>2 DEF DataInv, Control, CalmInv, Calm, Clean
<1>4. ASSUME UNCHANGED <<file, range_enable, last_error>>, Playing' => Playing
      PROVE  Fetch' /\ EndInv'
  BY <1>1, <1>3, <1>4, FetchKept DEF EndInv
<1> USE DEF Playing
<1>5. CASE Begin
  BY <1>3, <1>4, <1>5 DEF Begin
<1>6. CASE StopCheck \/ StopPost \/ StopDetach
  BY <1>3, <1>4, <1>6 DEF StopCheck, StopPost, StopDetach
<1>7. CASE StopClear
  BY <1>3, <1>4, <1>7 DEF StopClear, BitInv, StopEnd, Ranges
<1>8. CASE Empty
  BY <1>3, <1>4, <1>8 DEF Empty
<1>9. CASE Attach
  <2>1. cur_state = "IDLE" /\ session = "off" /\ rpc' # "start_wait" /\ UNCHANGED session
    BY <1>3, <1>9 DEF Attach, EndedInv, BitInv, StartEnd
  <2> QED BY <1>1, <2>1 DEF Fetch, BusyInv, RecvInv, PushInv, EndInv, Busy
<1>10. CASE StartPost
  BY <1>3, <1>4, <1>10 DEF StartPost, BitInv, StartEnd, SetEvent
<1>11. CASE PauseClear \/ PauseCheck \/ PauseSet
  BY <1>3, <1>4, <1>11 DEF PauseClear, PauseCheck, PauseSet, BitInv
<1>12. CASE ResumeClear \/ ResumeCheck \/ ResumeSet
  BY <1>3, <1>4, <1>12 DEF ResumeClear, ResumeCheck, ResumeSet, BitInv
<1>13. CASE ExitPost \/ Delete
  BY <1>3, <1>4, <1>13 DEF ExitPost, Delete
<1>14. CASE Wait
  <2>1. CASE rpc = "start_wait"
    <3>1. "STARTED" \in event
      BY <1>14, <2>1 DEF Wait, Awaited
    <3>2. "START" \notin event \cup took /\ cur_state # "START"
      BY <1>3, <3>1 DEF StartInv, BitInv, PlaceInv, Ranges
    <3> QED BY <1>4, <1>14, <2>1, <3>2 DEF Wait
  <2>2. CASE rpc \in {"stop_wait", "exit_wait"}
    BY <1>3, <1>4, <1>14, <2>2 DEF Wait, AfterWait, Resumed
  <2> QED BY <1>3, <1>14, <2>1, <2>2 DEF Wait, Awaited, Ranges, Bits
<1>15. CASE Timeout
  <2>1. CASE rpc = "start_wait"
    <3>1. pc \in {"idle_wait", "pause_wait", "exited"} /\ (pc = "idle_wait" => "START" \notin event)
      BY <1>2, <1>15 DEF Starved, AtRest, Clean, Spins
    <3>2. pc = "idle_wait" /\ cur_state = "IDLE" /\ took = {}
      BY <1>3, <2>1, <3>1 DEF PlaceInv, BitInv, PauseInv, StartEnd, Exiting
    <3> QED BY <1>4, <1>15, <2>1, <3>1, <3>2 DEF Timeout
  <2>2. CASE rpc \in {"stop_wait", "exit_wait"}
    BY <1>3, <1>4, <1>15, <2>2 DEF Timeout, AfterWait, Resumed
  <2> QED BY <1>3, <1>15, <2>1, <2>2 DEF Timeout, Awaited
<1>16. CASE Pop \/ Quiescent
  BY <1>3, <1>4, <1>16 DEF Pop, Quiescent, vars
<1> QED BY <1>5, <1>6, <1>7, <1>8, <1>9, <1>10, <1>11, <1>12, <1>13,
           <1>14, <1>15, <1>16 DEF CallStep

\* The data invariant holds at first.
LEMMA DataInit == Init => DataInv
BY DEF Init, DataInv, Fetch, BusyInv, RecvInv, PushInv, EndInv, Playing, Busy

\* Every step keeps it.
LEMMA DataStep == Control /\ TypeInv /\ TypeInv' /\ DataInv /\ [Next]_vars => DataInv'
<1> SUFFICES ASSUME Control, TypeInv, TypeInv', DataInv, [Next]_vars, Clean' PROVE Fetch' /\ EndInv'
  BY DEF DataInv
<1>1. CASE TaskStep /\ ~(StartBody \/ ConnSend \/ Recv \/ PushData)
  BY <1>1, LoopData
<1>2. CASE TaskStep /\ (StartBody \/ ConnSend \/ Recv \/ PushData)
  BY <1>2, SessionData
<1>3. CASE ~crashed /\ (Begin \/ CallStep \/ Timeout \/ Pop \/ Quiescent)
  BY <1>3, CallData
<1>4. CASE UNCHANGED vars
  <2>1. UNCHANGED <<cur_state, file, range_enable, proc, client, wire, recv_at, took, event, rpc,
                    session, last_error, timeouts, late_pause, empty_range, spoiled, pc>>
    BY <1>4 DEF vars, netVars, loopVars, callVars, shareVars
  <2>2. Fetch /\ EndInv
    BY <2>1 DEF Clean, DataInv, Spins
  <2> QED BY <2>1, <2>2, FetchKept DEF EndInv, Playing
<1> QED BY <1>1, <1>2, <1>3, <1>4 DEF Next, Halt, Halted

\* Over ranges, whole files and chunks, broken connections, redirections, refusals,
\* pauses and restarts the player gets the file from its beginning, in order, once and
\* whole, unless a page that is not the file or a chunk misread at an edge was taken for
\* it, a push failed, a wait was given up, a pause was taken too late or an empty range
\* was asked for (http_download_proc_recv and http_download_proc_push_data, lines
\* 430-605).
THEOREM StreamCorrect == Spec => []StreamExact
<1>1. Spec => [](TypeInv /\ Control /\ DataInv)
  <2>1. Init => TypeInv /\ Control /\ DataInv
    BY TypeInit, ControlInit, DataInit
  <2>2. TypeInv /\ Control /\ DataInv /\ [Next]_vars => (TypeInv /\ Control /\ DataInv)'
    BY TypeStep, ControlStep, DataStep
  <2> QED BY <2>1, <2>2, PTL DEF Spec
<1>2. TypeInv /\ Control /\ DataInv => StreamExact
  <2> SUFFICES ASSUME TypeInv, Control, DataInv PROVE StreamExact
    OBVIOUS
  <2>1. ASSUME Clean PROVE InOrder
    BY <2>1 DEF DataInv, Fetch, PushInv, InOrder
  <2>2. ASSUME Clean PROVE FinishedIsWhole
    BY <2>2 DEF DataInv, EndInv, Playing, FinishedIsWhole, IsFinish
  <2>3. timeouts \in Nat
    BY DEF Control, Ranges
  <2>4. ASSUME Spins PROVE InOrder /\ FinishedIsWhole
    BY <2>4 DEF Control, PlaceInv, InOrder, FinishedIsWhole, IsFinish
  <2> QED BY <2>1, <2>2, <2>3, <2>4 DEF StreamExact, Clean, TypeInv
<1> QED BY <1>1, <1>2, PTL
=============================================================================
