------------------------------ MODULE SseStream ------------------------------
(***************************************************************************)
(* One streaming mode of the dashboard's server-sent-event path:           *)
(*                                                                         *)
(*   publisher -> SSEEventLog + MessageAnnouncer -> stream handler -> page *)
(*                                                                         *)
(* messaging.py holds the replay log and the per-listener bounded queues,  *)
(* routes/stocks/stream.py the generator that serves one connection, and   *)
(* static/js/api_client.js the page that keeps the id of the last event it *)
(* received and presents it when it reconnects.                            *)
(*                                                                         *)
(* A frame is the number of its emission in this server process: what the  *)
(* frame says is left out (MarketPublish is about that), the order and the *)
(* loss of frames is not.  The number that travels on the wire is CodeId,  *)
(* which wraps like the 32-bit id of the source.                           *)
(***************************************************************************)
EXTENDS Naturals, Sequences, SequencesExt

CONSTANTS Clients,      \* the pages that open a stream
          Cap,          \* MAX_SSE_QUEUE_SIZE: frames a listener queue holds
          LogMax,       \* SSE_EVENT_LOG_MAX: frames the replay log holds
          IdMod,       \* 2^32 in the source: where the wire id wraps
          Sentinel,     \* the None that ends a listener's stream
          KeepAlive,    \* the ": keepalive" comment frame, which has no id
          MaxSeq,       \* bound of the model: emissions per process
          MaxRestarts   \* bound of the model: server restarts

ASSUME QueueAssumption == Cap \in Nat \ {0} /\ LogMax \in Nat \ {0}
ASSUME SeqAssumption == IdMod \in Nat \ {0, 1} /\ LogMax < IdMod
ASSUME MarksAssumption == Sentinel \notin Nat /\ KeepAlive \notin Nat
                             /\ Sentinel # KeepAlive
ASSUME BoundsAssumption == MaxSeq \in Nat /\ MaxRestarts \in Nat

VARIABLES
  seq,        \* emissions so far; CodeId(seq) is SSEEventLog._seq
  log,        \* SSEEventLog._entries[mode]: the sliding window
  listeners,  \* MessageAnnouncer.listeners
  q,          \* q[c]: the queue the announcer holds for c's connection
  pub,        \* the broadcast in progress: its item, the targets still to do
  pc,         \* pc[c]: where c's stream generator stands
  out,        \* out[c]: frames the generator is about to yield
  need,       \* need[c]: replay_requires_initial
  last,       \* last[c]: APIClient.lastEventId, kept by the page
  closed,     \* MessageAnnouncer.close() ran: the server is shutting down
  restarts,   \* server restarts so far
  \* What follows is history, read by the properties only.
  sent,       \* frames that were broadcast (initial snapshots are not)
  got,        \* got[c]: broadcast frames of this process c received
  joined,     \* joined[c]: seq when c's queue was registered
  resume,     \* resume[c]: where c's connection starts: the cursor it
              \* presented, or joined[c] once it is given a snapshot
  floor       \* floor[c]: the id of the last snapshot c was given

server  == <<seq, log, listeners, q, pub>>
streams == <<pc, out, need, last>>
history == <<sent, got, joined, resume, floor>>
vars    == <<server, streams, closed, restarts, history>>

Live(c)  == pc[c] # "off"
Idle     == [item |-> Sentinel, to |-> {}]
CodeId(n) == n % IdMod
Items    == Nat \cup {Sentinel, KeepAlive}
Ids(items) == ToSet(items) \ {Sentinel, KeepAlive}

TypeOK ==
  /\ seq \in Nat /\ restarts \in Nat /\ closed \in BOOLEAN
  /\ log \in Seq(Nat) /\ Len(log) <= LogMax
  /\ listeners \subseteq Clients
  /\ q \in [Clients -> Seq(Items)] /\ \A c \in Clients : Len(q[c]) <= Cap
  /\ pub \in [item : Items, to : SUBSET Clients]
  /\ pc \in [Clients -> {"off", "check", "fetch", "yield", "initial", "loop"}]
  /\ out \in [Clients -> Seq(Nat)]
  /\ need \in [Clients -> BOOLEAN]
  /\ last \in [Clients -> Nat]
  /\ sent \subseteq Nat /\ got \in [Clients -> SUBSET Nat]
  /\ joined \in [Clients -> Nat] /\ resume \in [Clients -> Nat]
  /\ floor \in [Clients -> Nat]

(***************************************************************************)
(* SSEEventLog.                                                            *)
(***************************************************************************)
\* deque(maxlen): appending to a full window drops its oldest entry.
Recorded(lg, n) == IF Len(lg) < LogMax THEN Append(lg, n) ELSE Append(Tail(lg), n)

\* contains(): the id is that of a recorded event.
LogContains(lg, n) == \E m \in ToSet(lg) : CodeId(m) = CodeId(n)

\* replay_after() does not return None: the window reaches back to the cursor.
Covered(lg, n) == /\ CodeId(n) <= CodeId(seq)
                  /\ lg # <<>>
                  /\ CodeId(Head(lg)) <= CodeId(n)

ReplayAfterMutant(lg, n) ==  \* the event after the cursor is taken as seen
  SelectSeq(lg, LAMBDA m : CodeId(m) > CodeId(n) + 1)

\* replay_after(): the recorded events behind the cursor, in their order.
ReplayAfter(lg, n) ==
  LET kept   == {i \in DOMAIN lg : CodeId(lg[i]) > CodeId(n)}
      Nth(k) == CHOOSE i \in kept : Cardinality({j \in kept : j <= i}) = k
  IN  [k \in 1 .. Cardinality(kept) |-> lg[Nth(k)]]

\* The ids wrap after 2^32 emissions; the model's bound on how far the counter
\* may run ahead of an id that is recorded, that some page still holds or that is
\* on its way to one.
MayEmit == \A c \in Clients :
             \A n \in {last[c]} \cup ToSet(log) \cup Ids(q[c]) \cup ToSet(out[c]) \cup
                      (IF c \in pub.to THEN Ids(<<pub.item>>) ELSE {}) :
               seq + 1 < n + IdMod

WithSentinelMutant(items) ==  \* a full queue gives up an item for nothing
  IF Len(items) < Cap THEN Append(items, Sentinel) ELSE Tail(items)

(***************************************************************************)
(* MessageAnnouncer.                                                       *)
(***************************************************************************)
\* Terminating a listener: put None, evicting the oldest item when full.
WithSentinel(items) ==
  IF Len(items) < Cap THEN Append(items, Sentinel) ELSE Append(Tail(items), Sentinel)

Overloaded == {c \in listeners : Len(q[c]) >= Cap}

\* announce(), under its lock: overloaded listeners are terminated and the
\* others become the targets.  The callers in bg/common.py hold a lock around
\* the call, so one broadcast of a mode ends before the next one starts.
StartAnnounce(item) ==
  /\ pub = Idle
  /\ listeners' = listeners \ Overloaded
  /\ q' = [c \in Clients |-> IF c \in Overloaded THEN WithSentinel(q[c]) ELSE q[c]]
  /\ pub' = IF listeners = Overloaded THEN Idle
            ELSE [item |-> item, to |-> listeners \ Overloaded]

\* _announce_frame: the frame is recorded and announced under one lock.
Publish ==
  /\ seq < MaxSeq /\ MayEmit
  /\ StartAnnounce(seq + 1)
  /\ seq' = seq + 1
  /\ log' = Recorded(log, seq + 1)
  /\ sent' = sent \cup {seq + 1}
  /\ UNCHANGED <<streams, closed, restarts, got, joined, resume, floor>>

\* Nothing changed since the last build: only a comment frame is announced.
PublishKeepAlive ==
  /\ StartAnnounce(KeepAlive)
  /\ UNCHANGED <<seq, log, streams, closed, restarts, history>>

\* announce(), outside the lock: put_nowait on one target.  A queue that filled
\* up meanwhile ends its listener like an overloaded one.  The removal, under the
\* lock, and the put of None after it are one step: between them nobody but the
\* page touches the queue, which can only make room in it.
Put(c) ==
  /\ c \in pub.to
  /\ pub' = IF pub.to = {c} THEN Idle ELSE [pub EXCEPT !.to = @ \ {c}]
  /\ IF Len(q[c]) < Cap
     THEN /\ q' = [q EXCEPT ![c] = Append(@, pub.item)]
          /\ UNCHANGED listeners
     ELSE /\ q' = [q EXCEPT ![c] = WithSentinel(@)]
          /\ listeners' = listeners \ {c}
  /\ UNCHANGED <<seq, log, streams, closed, restarts, history>>

\* The other mode draws its ids from the same counter.
OtherModeEmit ==
  /\ seq < MaxSeq /\ MayEmit
  /\ seq' = seq + 1
  /\ UNCHANGED <<log, listeners, q, pub, streams, closed, restarts, history>>

\* MessageAnnouncer.close() on shutdown.
Close ==
  /\ ~closed
  /\ closed' = TRUE
  /\ q' = [c \in Clients |-> IF c \in listeners THEN WithSentinel(q[c]) ELSE q[c]]
  /\ listeners' = {}
  /\ UNCHANGED <<seq, log, pub, streams, restarts, history>>

(***************************************************************************)
(* api_stocks_stream: the generator of one connection.                     *)
(***************************************************************************)
\* The page connects; listener_context registers the queue before anything is
\* read from the log.
Connect(c) ==
  /\ pc[c] = "off" /\ ~closed /\ seq < MaxSeq
  /\ listeners' = listeners \cup {c}
  /\ q' = [q EXCEPT ![c] = <<>>]
  /\ pc' = [pc EXCEPT ![c] = "check"]
  /\ joined' = [joined EXCEPT ![c] = seq]
  /\ resume' = [resume EXCEPT ![c] = last[c]]
  /\ UNCHANGED <<seq, log, pub, out, need, last, closed, restarts, sent, got, floor>>

\* A cursor of 0 means there is nothing to resume.  Otherwise contains() says
\* whether the id was ever recorded; the log is unlocked again afterwards.
CheckCursor(c) ==
  /\ pc[c] = "check"
  /\ need' = [need EXCEPT ![c] = ~LogContains(log, last[c])]
  /\ pc' = [pc EXCEPT ![c] = IF CodeId(last[c]) > 0 THEN "fetch" ELSE "initial"]
  /\ UNCHANGED <<server, out, last, closed, restarts, history>>

FetchReplayMutant(c) ==  \* a cursor the window does not cover is tried again
  /\ pc[c] = "fetch"
  /\ \E idle \in BOOLEAN :
       LET lg == IF idle THEN <<>> ELSE log
       IN /\ log' = lg
          /\ IF Covered(lg, last[c])
             THEN /\ out' = [out EXCEPT ![c] = ReplayAfter(lg, last[c])]
                  /\ pc' = [pc EXCEPT ![c] = "yield"]
             ELSE UNCHANGED <<pc, out>>
  /\ UNCHANGED <<seq, listeners, q, pub, need, last, closed, restarts, history>>

\* replay_after(); a window nobody wrote to for five minutes is dropped first,
\* which time alone decides (idle).
FetchReplay(c) ==
  /\ pc[c] = "fetch"
  /\ \E idle \in BOOLEAN :
       LET lg == IF idle THEN <<>> ELSE log
       IN /\ log' = lg
          /\ IF Covered(lg, last[c])
             THEN /\ out' = [out EXCEPT ![c] = ReplayAfter(lg, last[c])]
                  /\ pc' = [pc EXCEPT ![c] = "yield"]
             ELSE /\ pc' = [pc EXCEPT ![c] = "initial"]
                  /\ UNCHANGED out
  /\ UNCHANGED <<seq, listeners, q, pub, need, last, closed, restarts, history>>

\* A yielded frame reaches the page, which takes its id as the new cursor.
Receive(c, n) ==
  /\ last' = [last EXCEPT ![c] = n]
  /\ got' = [got EXCEPT ![c] = @ \cup ({n} \cap sent)]

Yield(c) ==
  /\ pc[c] = "yield" /\ out[c] # <<>>
  /\ Receive(c, Head(out[c]))
  /\ out' = [out EXCEPT ![c] = Tail(@)]
  /\ UNCHANGED <<server, pc, need, closed, restarts, sent, joined, resume, floor>>

YieldDone(c) ==
  /\ pc[c] = "yield" /\ out[c] = <<>>
  /\ pc' = [pc EXCEPT ![c] = IF need[c] THEN "initial" ELSE "loop"]
  /\ UNCHANGED <<server, out, need, last, closed, restarts, history>>

\* The initial snapshot takes an id of its own and is recorded like a frame.
EmitInitial(c) ==
  /\ pc[c] = "initial" /\ MayEmit
  /\ seq' = seq + 1
  /\ log' = Recorded(log, seq + 1)
  /\ out' = [out EXCEPT ![c] = <<seq + 1>>]
  /\ need' = [need EXCEPT ![c] = FALSE]
  /\ pc' = [pc EXCEPT ![c] = "yield"]
  /\ floor' = [floor EXCEPT ![c] = seq + 1]
  /\ resume' = [resume EXCEPT ![c] = joined[c]]
  /\ UNCHANGED <<listeners, q, pub, last, closed, restarts, sent, got, joined>>

\* The connection ends: the queue is unlistened and nobody reads it again, so
\* what an unfinished broadcast may still put into it is lost with it.
Hangup(c) ==
  /\ pc' = [pc EXCEPT ![c] = "off"]
  /\ listeners' = listeners \ {c}
  /\ q' = [q EXCEPT ![c] = <<>>]
  /\ pub' = IF pub.to \subseteq {c} THEN Idle ELSE [pub EXCEPT !.to = @ \ {c}]
  /\ out' = [out EXCEPT ![c] = <<>>]
  /\ need' = [need EXCEPT ![c] = FALSE]
  /\ joined' = [joined EXCEPT ![c] = 0]
  /\ resume' = [resume EXCEPT ![c] = 0]

TakeMutant(c) ==  \* None is skipped like an empty read
  /\ pc[c] = "loop" /\ q[c] # <<>>
  /\ q' = [q EXCEPT ![c] = Tail(@)]
  /\ IF Head(q[c]) \in {Sentinel, KeepAlive} THEN UNCHANGED <<last, got>>
     ELSE Receive(c, Head(q[c]))
  /\ UNCHANGED <<seq, log, listeners, pub, pc, out, need, closed, restarts>>
  /\ UNCHANGED <<sent, joined, resume, floor>>

\* One item of the queue: a frame is yielded, None ends the stream.
Take(c) ==
  /\ pc[c] = "loop" /\ q[c] # <<>>
  /\ LET item == Head(q[c])
     IN IF item = Sentinel
        THEN /\ Hangup(c)
             /\ UNCHANGED <<last, got>>
        ELSE /\ q' = [q EXCEPT ![c] = Tail(@)]
             /\ IF item = KeepAlive THEN UNCHANGED <<last, got>> ELSE Receive(c, item)
             /\ UNCHANGED <<listeners, pub, pc, out, need, joined, resume>>
  /\ UNCHANGED <<seq, log, closed, restarts, sent, floor>>

\* The page goes away or the network does, at any point of the generator.
Disconnect(c) ==
  /\ Live(c)
  /\ Hangup(c)
  /\ UNCHANGED <<seq, log, last, closed, restarts, sent, got, floor>>

\* A page that switches the mode or turns streaming off forgets its cursor.
ForgetCursor(c) ==
  /\ pc[c] = "off" /\ last[c] # 0
  /\ last' = [last EXCEPT ![c] = 0]
  /\ got' = [got EXCEPT ![c] = {}]
  /\ floor' = [floor EXCEPT ![c] = seq]
  /\ UNCHANGED <<server, pc, out, need, closed, restarts, sent, joined, resume>>

\* The server process ends and starts again.  Its memory is gone, the pages
\* and their cursors are not; what they are owed starts anew.
Restart ==
  /\ restarts < MaxRestarts
  /\ restarts' = restarts + 1
  /\ seq' = 0 /\ log' = <<>> /\ listeners' = {} /\ pub' = Idle
  /\ q' = [c \in Clients |-> <<>>]
  /\ pc' = [c \in Clients |-> "off"]
  /\ out' = [c \in Clients |-> <<>>]
  /\ need' = [c \in Clients |-> FALSE]
  /\ closed' = FALSE
  /\ sent' = {}
  /\ got' = [c \in Clients |-> {}]
  /\ joined' = [c \in Clients |-> 0]
  /\ resume' = [c \in Clients |-> 0]
  /\ floor' = [c \in Clients |-> 0]
  /\ UNCHANGED last

Init ==
  /\ seq = 0 /\ log = <<>> /\ listeners = {} /\ pub = Idle
  /\ q = [c \in Clients |-> <<>>]
  /\ pc = [c \in Clients |-> "off"]
  /\ out = [c \in Clients |-> <<>>]
  /\ need = [c \in Clients |-> FALSE]
  /\ last = [c \in Clients |-> 0]
  /\ closed = FALSE /\ restarts = 0
  /\ sent = {}
  /\ got = [c \in Clients |-> {}]
  /\ joined = [c \in Clients |-> 0]
  /\ resume = [c \in Clients |-> 0]
  /\ floor = [c \in Clients |-> 0]

\* What the thread that serves c does by itself.
StreamStep(c) == \/ CheckCursor(c)
                 \/ FetchReplay(c)
                 \/ Yield(c)
                 \/ YieldDone(c)
                 \/ EmitInitial(c)
                 \/ Take(c)

Next ==
  \/ Publish
  \/ PublishKeepAlive
  \/ OtherModeEmit
  \/ Close
  \/ Restart
  \/ \E c \in Clients : \/ Put(c)
                        \/ Connect(c)
                        \/ StreamStep(c)
                        \/ Disconnect(c)
                        \/ ForgetCursor(c)

\* The gthread worker of a connection and the broadcasting thread keep running;
\* nothing says that data changes, that pages connect or that they leave.
Fairness == \A c \in Clients : WF_vars(StreamStep(c)) /\ WF_vars(Put(c))

Spec == Init /\ [][Next]_vars /\ Fairness

(***************************************************************************)
(* Properties.                                                             *)
(***************************************************************************)
\* Where a broadcast frame may be that c will still get without reconnecting,
\* or has got.
Held(c, n) == \/ n \in got[c]
              \/ n \in Ids(q[c]) \cup ToSet(out[c])
              \/ n = pub.item /\ c \in pub.to

Resumed(c) == pc[c] \in {"yield", "loop"} /\ ~need[c] /\ c \in listeners

\* The replay window is a run of emissions without a hole: strictly increasing
\* and holding every broadcast frame not older than its first one.  replay_after
\* and contains take this for granted.
LogSound ==
  /\ \A i, j \in DOMAIN log : i < j => log[i] < log[j]
  /\ \A i \in DOMAIN log : log[i] <= seq
  /\ log # <<>> => \A n \in sent : n >= Head(log) => n \in ToSet(log)

\* Between the replay and the live queue nothing falls through: a listener that
\* has resumed holds or has received every frame broadcast after the cursor it
\* presented (or after its registration, when it was given a snapshot instead).
NoFrameBetweenReplayAndQueue ==
  \A c \in Clients : Resumed(c) =>
    \A n \in sent : n > resume[c] => Held(c, n)

\* A connection the announcer dropped is told so: the None is in its queue, it
\* can not stay attached to a queue that nobody fills any more.  Nothing the
\* page could have used follows the None, unless the server closes.
DroppedIsTold ==
  \A c \in Clients :
    /\ Live(c) /\ c \notin listeners => Sentinel \in ToSet(q[c])
    /\ ~closed => \A i \in DOMAIN q[c] : q[c][i] = Sentinel => i = Len(q[c])

\* A dropped connection ends, which is what makes its page reconnect and replay.
DroppedStreamEnds ==
  \A c \in Clients : (Live(c) /\ c \notin listeners) ~> ~Live(c)

\* A stream that was opened gets past replay and snapshot into its loop, or the
\* connection goes away.
StreamReachesLoop ==
  \A c \in Clients : (pc[c] = "check") ~> (pc[c] \in {"loop", "off"})

\* messaging.py:162-168 promise: an overflowing listener reconnects and replays,
\* so that no event is quietly evicted and leaves a hole in the stream.  A page
\* that has resumed misses no broadcast frame since its last snapshot.
NoStreamHole ==
  \A c \in Clients : Resumed(c) => \A n \in sent : n > floor[c] => Held(c, n)
=============================================================================
