------------------------------ MODULE ChatJobs ------------------------------
(***************************************************************************)
(* POST /api/chat: one question is one operation token, and a page asks    *)
(* with the same token again until it has the answer.  The first request   *)
(* of a token claims it, writes the question into the history and starts a *)
(* job of the executor, or streams the answer itself; the others wait for  *)
(* the job or are told that it is still running.                           *)
(*                                                                         *)
(* The outcome of a job is kept longer than any page polls, so it does not *)
(* expire here.  The texts of two questions or answers are not the same.   *)
(***************************************************************************)
EXTENDS ChatHistory

CONSTANTS
    Requests,       \* requests served during the run
    TokenOf,        \* [Requests -> operation tokens]
    KeyOf,          \* [tokens -> Keys], the conversation of a token
    Streaming,      \* the requests that ask for a stream
    Slots,          \* STREAM_CHAT_MAX_CONCURRENT
    MaxDbFailures   \* bound: transactions that fail for good

None == "none"
Tokens == {TokenOf[r] : r \in Requests}

VARIABLES
    db,
    pc,         \* where each request is
    holder,     \* the request whose job a request waits for
    job,        \* the job a request started
    inflight,   \* chat_fetch_inflight: the request that claimed the token
    outcome,    \* chat_result_cache
    slots,      \* free permits of stream_chat_slots
    releasers,  \* who still runs for a response: its generator, call_on_close
    asked,      \* questions written per token
    failures,
    lost        \* tokens whose claim was not released by the code

vars == <<db, pc, holder, job, inflight, outcome, slots, releasers, asked, failures, lost>>

PCs == {"new", "missed", "claimed", "recorded", "waiting", "over"}
Jobs == {"none", "queued", "streaming", "complete", "ok", "empty", "error"}
Messages == [role : {"system", "user", "assistant"},
             content : (Tokens \cup {None}) \X {"intro", "question", "answer"}]

TypeOK ==
    /\ pc \in [Requests -> PCs] /\ job \in [Requests -> Jobs]
    /\ holder \in [Requests -> Requests \cup {None}]
    /\ inflight \in [Tokens -> Requests \cup {None}]
    /\ outcome \in [Tokens -> {None, "ok", "empty", "error"}]
    /\ slots \in 0 .. Slots
    /\ releasers \in [Requests -> SUBSET {"generator", "close"}]
    /\ asked \in [Tokens -> 0 .. Cardinality(Requests)]
    /\ failures \in 0 .. MaxDbFailures /\ lost \subseteq Tokens
    /\ ToSet(db.lru) \subseteq Keys /\ Len(db.lru) <= MaxSessions
    /\ \A k \in Keys : db.msgs[k] \in Seq(Messages) /\ Len(db.msgs[k]) <= MaxRows

Init ==
    /\ db = EmptyStore /\ pc = [r \in Requests |-> "new"]
    /\ holder = [r \in Requests |-> None] /\ job = [r \in Requests |-> "none"]
    /\ inflight = [t \in Tokens |-> None] /\ outcome = [t \in Tokens |-> None]
    /\ slots = Slots /\ releasers = [r \in Requests |-> {}]
    /\ asked = [t \in Tokens |-> 0] /\ failures = 0 /\ lost = {}

(***************************************************************************)
(* Helpers.                                                                *)
(***************************************************************************)
Tok(r) == TokenOf[r]
Key(r) == KeyOf[Tok(r)]
\* init_history: what the model is, and an exchange about the symbol.
IntroRow(role) == [role |-> role, content |-> <<None, "intro">>]
Intro == <<IntroRow("system"), IntroRow("user"), IntroRow("assistant")>>
Question(r) == [role |-> "user", content |-> <<Tok(r), "question">>]
Answer(r) == [role |-> "assistant", content |-> <<Tok(r), "answer">>]

Goes(r, label) == pc' = [pc EXCEPT ![r] = label]
Ended(r, how) == job' = [job EXCEPT ![r] = how]
Freed(t) == inflight' = [inflight EXCEPT ![t] = None]
Kept(r, how) == outcome' = [outcome EXCEPT ![Tok(r)] = how]

\* A transaction happens, or it fails for good and is logged or answered.
Written(new) == \/ db' = new /\ failures' = failures
                \/ failures < MaxDbFailures /\ failures' = failures + 1 /\ db' = db

\* _rollback_chat_user_message
RolledBack(r) == PopLastUser(db, Key(r), Question(r).content)

(***************************************************************************)
(* One request.                                                            *)
(***************************************************************************)
\* The outcome is looked up; an answer is written unless it is the last turn.
CheckOutcome(r) ==
    /\ pc[r] = "new"
    /\ Goes(r, IF outcome[Tok(r)] = None THEN "missed" ELSE "over")
    /\ IF outcome[Tok(r)] = "ok" THEN Written(AppendUnlessLast(db, Key(r), Answer(r)))
                                 ELSE UNCHANGED <<db, failures>>
    /\ UNCHANGED <<holder, job, inflight, outcome, slots, releasers, asked, lost>>

\* Under the lock of the in-flight table: claim the token or join its owner.
Claim(r) ==
    /\ pc[r] = "missed" /\ Goes(r, "claimed")
    /\ LET owner == IF inflight[Tok(r)] = None THEN r ELSE inflight[Tok(r)]
       IN /\ holder' = [holder EXCEPT ![r] = owner]
          /\ inflight' = [inflight EXCEPT ![Tok(r)] = owner]
    /\ UNCHANGED <<db, job, outcome, slots, releasers, asked, failures, lost>>

Mine(r) == holder[r] = r

Record(r) ==
    /\ pc[r] = "claimed" /\ Goes(r, "recorded")
    /\ db' = RecordTurn(db, Key(r), Intro, IF Mine(r) THEN <<Question(r)>> ELSE <<>>)
    /\ asked' = IF Mine(r) THEN [asked EXCEPT ![Tok(r)] = @ + 1] ELSE asked
    /\ UNCHANGED <<holder, job, inflight, outcome, slots, releasers, failures, lost>>

\* The transaction raises: the request fails, and nobody releases its claim.
RecordFails(r) ==
    /\ pc[r] = "claimed" /\ failures < MaxDbFailures /\ failures' = failures + 1
    /\ Goes(r, "over")
    /\ lost' = IF Mine(r) THEN lost \cup {Tok(r)} ELSE lost
    /\ UNCHANGED <<db, holder, job, inflight, outcome, slots, releasers, asked>>

\* A request that joined: a stream is refused, any other waits.
Join(r) ==
    /\ pc[r] = "recorded" /\ ~Mine(r)
    /\ Goes(r, IF r \in Streaming THEN "over" ELSE "waiting")
    /\ UNCHANGED <<db, holder, job, inflight, outcome, slots, releasers, asked,
                   failures, lost>>

\* The executor takes the job, or refuses it: the claim and the question go.
Submit(r) ==
    /\ pc[r] = "recorded" /\ Mine(r) /\ r \notin Streaming
    /\ \/ /\ Goes(r, "waiting") /\ Ended(r, "queued")
          /\ UNCHANGED <<db, failures, inflight>>
       \/ /\ Goes(r, "over") /\ Ended(r, "error") /\ Freed(Tok(r))
          /\ Written(RolledBack(r))
    /\ UNCHANGED <<holder, outcome, slots, releasers, asked, lost>>

\* The answer streams from the request's own thread if a permit is free.
StartStream(r) ==
    /\ pc[r] = "recorded" /\ Mine(r) /\ r \in Streaming /\ Goes(r, "over")
    /\ IF slots > 0
       THEN /\ slots' = slots - 1 /\ Ended(r, "streaming")
            /\ \E started \in {{"close"}, {"generator", "close"}} :
                  releasers' = [releasers EXCEPT ![r] = started]
            /\ UNCHANGED <<db, failures, inflight>>
       ELSE /\ Freed(Tok(r)) /\ Written(RolledBack(r))
            /\ UNCHANGED <<slots, job, releasers>>
    /\ UNCHANGED <<holder, outcome, asked, lost>>

\* The wait ends: with an answer, which goes into the history (an empty one as
\* a stock phrase), with an error, or with its time limit.
Wake(r) ==
    /\ pc[r] = "waiting" /\ job[holder[r]] \in {"ok", "empty", "error"} /\ Goes(r, "over")
    /\ IF job[holder[r]] = "error" THEN UNCHANGED <<db, failures>>
       ELSE Written(AppendUnlessLast(db, Key(r), Answer(r)))
    /\ UNCHANGED <<holder, job, inflight, outcome, slots, releasers, asked, lost>>

StillFetching(r) ==
    /\ pc[r] = "waiting" /\ job[holder[r]] \notin {"ok", "empty", "error"} /\ Goes(r, "over")
    /\ UNCHANGED <<db, holder, job, inflight, outcome, slots, releasers, asked,
                   failures, lost>>

(***************************************************************************)
(* The jobs.                                                               *)
(***************************************************************************)
\* The model answers, answers nothing twice, or fails; the claim is dropped
\* and the outcome kept under one lock, then the waiters are woken.
RunJob(r) ==
    /\ job[r] = "queued"
    /\ \E how \in {"ok", "empty", "error"} : Ended(r, how) /\ Kept(r, how)
    /\ Freed(Tok(r))
    /\ UNCHANGED <<db, pc, holder, slots, releasers, asked, failures, lost>>

\* The provider's last event reached the page.
StreamCompletes(r) ==
    /\ job[r] = "streaming" /\ "generator" \in releasers[r] /\ Ended(r, "complete")
    /\ UNCHANGED <<db, pc, holder, inflight, outcome, slots, releasers, asked,
                   failures, lost>>

\* _finish_stream, for the first of the two who call it.  Only a complete
\* answer with a text is kept.  It writes the history, frees the claim and gives
\* the permit back one after the other; here they are one step, since both closers
\* run in the thread that serves the response.
FinishStream(r) ==
    /\ Freed(Tok(r))
    /\ \E how \in IF job[r] = "complete" THEN {"ok", "empty"} ELSE {"error"} :
          /\ Written(IF how = "ok" THEN AppendUnlessLast(db, Key(r), Answer(r)) ELSE RolledBack(r))
          /\ Ended(r, how) /\ Kept(r, how)

CloseStreamMutant(r) ==  \* each closer gives the permit back
    /\ \E who \in releasers[r] : releasers' = [releasers EXCEPT ![r] = @ \ {who}]
    /\ slots' = slots + 1
    /\ IF job[r] \in {"streaming", "complete"} THEN FinishStream(r)
       ELSE UNCHANGED <<db, job, inflight, outcome, failures>>
    /\ UNCHANGED <<pc, holder, asked, lost>>

\* The generator unwinds or the response is closed: each finishes the stream
\* and gives the permit back, and only the first of them does.
CloseStream(r) ==
    /\ \E who \in releasers[r] : releasers' = [releasers EXCEPT ![r] = @ \ {who}]
    /\ IF job[r] \in {"streaming", "complete"}
       THEN FinishStream(r) /\ slots' = slots + 1
       ELSE UNCHANGED <<db, job, inflight, outcome, slots, failures>>
    /\ UNCHANGED <<pc, holder, asked, lost>>

Handle(r) == CheckOutcome(r) \/ Claim(r) \/ Record(r) \/ Join(r) \/ Submit(r)
                \/ StartStream(r) \/ Wake(r) \/ StillFetching(r)
Next == \E r \in Requests :
            Handle(r) \/ RecordFails(r) \/ RunJob(r) \/ StreamCompletes(r) \/ CloseStream(r)

\* The server handles its requests, the executor runs its jobs, and the server
\* closes every response.  A job that never answers runs into its timeouts.
Fairness == \A r \in Requests :
                WF_vars(Handle(r)) /\ WF_vars(RunJob(r)) /\ WF_vars(CloseStream(r))

Spec == Init /\ [][Next]_vars /\ Fairness

(***************************************************************************)
(* Properties                                                              *)
(***************************************************************************)
\* The permits that are out are exactly those of the streams that are not
\* finished: neither an abandoned response nor its two closers leak one or
\* return it twice.
SlotsExact ==
    slots + Cardinality({r \in Requests : job[r] \in {"streaming", "complete"}}) = Slots

\* A transcript that is not empty begins with the system message of its
\* introduction: no trim, prune, rollback or eviction of a session leaves answers
\* without it.
IntroLeads == \A k \in Keys : db.msgs[k] # <<>> => Head(db.msgs[k]) = Intro[1]

\* A claimed token is free again in the end, whatever its job does, unless the
\* history failed while its question was written: otherwise every later poll
\* of the token is told that it is still being fetched.
ClaimIsReleased == \A t \in Tokens : inflight[t] # None ~> (inflight[t] = None \/ t \in lost)

\* A question is put to the model once, and stands in the history once,
\* however often its token is polled while the outcome is kept.  A request
\* that looked for the outcome before the job ended and claims after it
\* refutes this.
AskedOnce == \A t \in Tokens : asked[t] <= 1
=============================================================================
