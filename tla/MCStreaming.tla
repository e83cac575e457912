------------------------------ MODULE MCStreaming -----------------------------
(***************************************************************************)
(* Admission to the streams, and one stream over a restart of the server,  *)
(* checked in one run for what must happen.  Each behaviour is a behaviour *)
(* of one part, chosen at the start.                                       *)
(***************************************************************************)
EXTENDS SseLimiter, Sequences

CONSTANTS Sentinel, KeepAlive

VARIABLE which   \* the part that runs, chosen at the start

\* One page that keeps its cursor over a restart.
VARIABLES streamSeq, streamLog, streamListeners, streamQ, streamPub, streamPc, streamOut,
          streamNeed, streamLast, streamClosed, streamRestarts, streamSent, streamGot,
          streamJoined, streamResume, streamFloor
Ss == INSTANCE SseStream WITH
    Clients <- {"c"}, Cap <- 2, LogMax <- 2, IdMod <- 100, Sentinel <- Sentinel,
    KeepAlive <- KeepAlive, MaxSeq <- 3, MaxRestarts <- 1, seq <- streamSeq, log <- streamLog,
    listeners <- streamListeners, q <- streamQ, pub <- streamPub, pc <- streamPc,
    out <- streamOut, need <- streamNeed, last <- streamLast, closed <- streamClosed,
    restarts <- streamRestarts, sent <- streamSent, got <- streamGot, joined <- streamJoined,
    resume <- streamResume, floor <- streamFloor
streamVars == <<streamSeq, streamLog, streamListeners, streamQ, streamPub, streamPc, streamOut,
      streamNeed, streamLast, streamClosed, streamRestarts, streamSent, streamGot,
      streamJoined, streamResume, streamFloor>>

allVars == <<which, vars, streamVars>>

-----------------------------------------------------------------------------
\* A part that is not chosen stays in one of its initial states.
MCInit ==
    /\ which \in {"limiter", "stream"}
    /\ Init
    /\ Ss!Init

LimiterRuns == which = "limiter" /\ Next /\ UNCHANGED <<which, streamVars>>
StreamRuns == which = "stream" /\ Ss!Next /\ UNCHANGED <<which, vars>>

MCNext ==
    LimiterRuns \/ StreamRuns

\* The fairness of the chosen part, as its module states it.
MCFairness ==
    /\ Fairness
    /\ Ss!Fairness

MCSpec == MCInit /\ [][MCNext]_allVars /\ MCFairness

-----------------------------------------------------------------------------
\* messaging.py: the replay window has no hole, and a dropped connection ends,
\* so that its page reconnects.
DroppedStreamEnds == [](Ss!TypeOK /\ Ss!LogSound) /\ Ss!DroppedStreamEnds

\* stream.py: an opened stream gets into its loop, or the connection goes.
StreamReachesLoop == Ss!StreamReachesLoop
=============================================================================
