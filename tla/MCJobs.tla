-------------------------------- MODULE MCJobs --------------------------------
(***************************************************************************)
(* Work that concurrent requests claim for one another, checked in one     *)
(* run: single-flight fetches, chat jobs and the chat store, and the jobs  *)
(* of analyses, news and AI portfolios.  Each behaviour is a behaviour of  *)
(* one part, chosen at the start.                                          *)
(***************************************************************************)
EXTENDS CacheFetch, Integers, Sequences, FiniteSets

VARIABLE which   \* the part that runs, chosen at the start

CONSTANTS Sessions, MaxSessions, MaxRows, MaxMsgs, ChatRequests, TokenOf, SessionOf,
          StreamingRequests, StreamSlots,
          MaxDbFailures   \* bound: transactions that fail for good
ASSUME ChatAssumption ==
    /\ IsFiniteSet(ChatRequests) /\ StreamingRequests \subseteq ChatRequests
    /\ DOMAIN TokenOf = ChatRequests
    /\ \A r \in ChatRequests : SessionOf[TokenOf[r]] \in Sessions
    /\ MaxSessions \in Nat /\ MaxRows \in Nat \ {0} /\ MaxMsgs \in Nat \ {0}
    /\ StreamSlots \in Nat /\ MaxDbFailures \in Nat

\* Of the checked requests two have one token.
CheckedTokenOf == [r1 |-> "t1", r2 |-> "t1", r3 |-> "t2"]
CheckedSessionOf == [t1 |-> "k1", t2 |-> "k2"]

VARIABLES chatDb, chatPc, chatHolder, chatJob, chatInflight, chatOutcome, chatSlots,
          chatReleasers, chatAsked, chatFailures, chatLost
Cj == INSTANCE ChatJobs WITH
    Keys <- Sessions, Requests <- ChatRequests, KeyOf <- SessionOf,
    Streaming <- StreamingRequests, Slots <- StreamSlots, db <- chatDb, pc <- chatPc,
    holder <- chatHolder, job <- chatJob, inflight <- chatInflight, outcome <- chatOutcome,
    slots <- chatSlots, releasers <- chatReleasers, asked <- chatAsked,
    failures <- chatFailures, lost <- chatLost
chatVars == <<chatDb, chatPc, chatHolder, chatJob, chatInflight, chatOutcome, chatSlots,
      chatReleasers, chatAsked, chatFailures, chatLost>>

\* What the pages ask for: news, forced or not, and analyses.
CONSTANTS Pages, PageKey, NewsKeys, ForcedPages,
          MaxJobs,     \* bound: jobs that are started
          MaxExpiries  \* bound: entries of the caches that grow old
ASSUME JobsAssumption ==
    ForcedPages \subseteq Pages /\ MaxJobs \in Nat /\ MaxExpiries \in Nat

\* Of the checked pages one asks for the news, one forces them, and one asks
\* for an analysis.
CheckedPageKey == [r1 |-> "n", r2 |-> "n", r3 |-> "a"]

VARIABLES analysisPc, analysisForce, analysisHolder, analysisJobs, analysisInflight,
          analysisKept, analysisExpiries
Aj == INSTANCE AnalysisJobs WITH
    KeyOf <- PageKey, News <- NewsKeys, Forced <- ForcedPages, pc <- analysisPc,
    force <- analysisForce, holder <- analysisHolder, jobs <- analysisJobs,
    inflight <- analysisInflight, kept <- analysisKept, expiries <- analysisExpiries
analysisVars == <<analysisPc, analysisForce, analysisHolder, analysisJobs, analysisInflight,
      analysisKept, analysisExpiries>>

\* What the user edits meanwhile is in MCRequests.
VARIABLES portfolioSaved, portfolioInflight, portfolioResults, portfolioSlot, portfolioJob,
          portfolioTab, portfolioEdits, portfolioEdited
Ap == INSTANCE AiPortfolios WITH
    Tabs <- {"c1"}, Themes <- {"custom-1"}, Presets <- {}, MaxSaved <- 1, Attempts <- 2,
    None <- NoOne, MaxEdits <- 0, saved <- portfolioSaved, inflight <- portfolioInflight,
    results <- portfolioResults, slot <- portfolioSlot, job <- portfolioJob,
    tab <- portfolioTab, edits <- portfolioEdits, edited <- portfolioEdited
portfolioVars == <<portfolioSaved, portfolioInflight, portfolioResults, portfolioSlot,
      portfolioJob, portfolioTab, portfolioEdits, portfolioEdited>>

allVars == <<which, vars, chatVars, analysisVars, portfolioVars>>

-----------------------------------------------------------------------------
\* A part that is not chosen stays in one of its initial states.
MCInit ==
    /\ which \in {"cache", "chat", "analysis", "portfolio"}
    /\ Init
    /\ Cj!Init
    /\ Aj!Init /\ (which # "analysis" => \A k \in Aj!Keys : analysisKept[k] = "none")
    /\ Ap!Init

CacheRuns ==
    /\ which = "cache" /\ Next
    /\ UNCHANGED <<which, chatVars, analysisVars, portfolioVars>>
ChatRuns == which = "chat" /\ Cj!Next /\ UNCHANGED <<which, vars, analysisVars, portfolioVars>>
AnalysisRuns ==
    /\ which = "analysis" /\ Aj!Next
    /\ UNCHANGED <<which, vars, chatVars, portfolioVars>>
PortfolioRuns ==
    /\ which = "portfolio" /\ Ap!Next
    /\ UNCHANGED <<which, vars, chatVars, analysisVars>>
\* The bounds of these parts run out; the others may never stop.
Stops == which \in {"chat", "analysis", "portfolio"} /\ UNCHANGED allVars

MCNext ==
    CacheRuns \/ ChatRuns \/ AnalysisRuns \/ PortfolioRuns \/ Stops

\* The fairness of the chosen part, as its module states it.
MCFairness ==
    /\ Fairness
    /\ \A r \in ChatRequests :
         /\ WF_chatVars(which = "chat" /\ Cj!Handle(r))
         /\ WF_chatVars(which = "chat" /\ Cj!RunJob(r))
         /\ WF_chatVars(which = "chat" /\ Cj!CloseStream(r))
    /\ Aj!Fairness
    /\ Ap!Fairness

MCSpec == MCInit /\ [][MCNext]_allVars /\ MCFairness

-----------------------------------------------------------------------------
\* routes/api_analysis.py, chat_history.py: no permit of a stream leaks or is
\* returned twice, and no trim leaves a transcript without its system message.
SlotsExact == Cj!TypeOK /\ Cj!SlotsExact /\ Cj!IntroLeads

\* routes/api_analysis.py: one job per key, which holds the claim of its key.
OneJobPerKey == Aj!TypeOK /\ Aj!OneJobPerKey

\* A claimed cache key, chat token, news, analysis or portfolio key is free again
\* in the end, whatever becomes of the fetch or the job.
ClaimsAreReleased == KeyIsFreed /\ Cj!ClaimIsReleased /\ Aj!KeyIsReleased /\ Ap!JobsEnd
=============================================================================
