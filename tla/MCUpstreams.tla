------------------------------ MODULE MCUpstreams -----------------------------
(***************************************************************************)
(* The calls to other services, checked in one run: the circuit of the AI  *)
(* service, the chain of quote scrapers, the pool of Yahoo sessions, and   *)
(* the pace and slots of AI calls.  Each behaviour is a behaviour of one   *)
(* part, chosen at the start.                                              *)
(***************************************************************************)
EXTENDS CircuitBreaker, FiniteSets, Sequences

VARIABLE which   \* the part that runs, chosen at the start

VARIABLES scraperKind, scraperSteady, scraperAsked, scraperStreak, scraperReported,
          scraperPause, scraperCool, scraperCoolPage, scraperBlock, scraperBlockStreak,
          scraperBlocks, scraperQuote
Sc == INSTANCE ScraperChain WITH
    Threshold <- 2, PauseMax <- 4, Recovery <- 3, Cooldown <- 2, BlockMax <- 3, MaxBlocks <- 2,
    kind <- scraperKind, steady <- scraperSteady, asked <- scraperAsked,
    streak <- scraperStreak, reported <- scraperReported, pause <- scraperPause,
    cool <- scraperCool, coolPage <- scraperCoolPage, block <- scraperBlock,
    blockStreak <- scraperBlockStreak, blocks <- scraperBlocks, quote <- scraperQuote
scraperVars == <<scraperKind, scraperSteady, scraperAsked, scraperStreak, scraperReported,
      scraperPause, scraperCool, scraperCoolPage, scraperBlock, scraperBlockStreak,
      scraperBlocks, scraperQuote>>

\* In the run there are two threads and one slot, so that a thread that needs a
\* second one would wait for itself.
CONSTANTS YahooThreads, YahooPoolMax, YahooSlots, YahooRetries,
          YahooBlocks,  \* bound: blocked answers
          YahooReaps    \* bound: rounds of the reaper
ASSUME YahooAssumption ==
    /\ IsFiniteSet(YahooThreads) /\ YahooThreads \cap {"free", "reaper"} = {}
    /\ {YahooPoolMax, YahooSlots, YahooRetries, YahooBlocks, YahooReaps} \subseteq Nat

VARIABLES yahooPc, yahooOpen, yahooFresh, yahooPool, yahooActive, yahooLock, yahooSeen,
          yahooHolding, yahooExcluded, yahooTries, yahooAtStart, yahooBlocks, yahooReaps
Yp == INSTANCE YahooPool WITH
    Threads <- YahooThreads, PoolMax <- YahooPoolMax, Slots <- YahooSlots,
    MaxRetries <- YahooRetries, MaxBlocks <- YahooBlocks, MaxReaps <- YahooReaps, pc <- yahooPc, open <- yahooOpen, fresh <- yahooFresh, pool <- yahooPool,
    active <- yahooActive, lock <- yahooLock, seen <- yahooSeen, holding <- yahooHolding,
    excluded <- yahooExcluded, tries <- yahooTries, atStart <- yahooAtStart,
    blocks <- yahooBlocks, reaps <- yahooReaps
yahooVars == <<yahooPc, yahooOpen, yahooFresh, yahooPool, yahooActive, yahooLock, yahooSeen,
      yahooHolding, yahooExcluded, yahooTries, yahooAtStart, yahooBlocks, yahooReaps>>

\* Callers of the models, paced and not.
CONSTANTS ChatCallers, StreamCallers, CompatCallers, CallSlots, CallInterval, WaitCap, Backoffs,
          MaxCalls,   \* bound: calls begun
          MaxBlocks   \* bound: answers 429
ASSUME CallsAssumption ==
    /\ IsFiniteSet(ChatCallers) /\ IsFiniteSet(StreamCallers) /\ IsFiniteSet(CompatCallers)
    /\ ChatCallers \cap StreamCallers = {}
    /\ (ChatCallers \cup StreamCallers) \cap CompatCallers = {}
    /\ CallSlots \in Nat /\ CallInterval \in Nat /\ WaitCap \in Nat /\ Backoffs \subseteq Nat
    /\ MaxCalls \in Nat /\ MaxBlocks \in Nat

VARIABLES callsNext, callsAllowed, callsLongest, callsShutdown, callsPc, callsWait, callsOver, callsHolding,
          callsSecond, callsCalls, callsBlocks
Ai == INSTANCE AiCalls WITH
    Chats <- ChatCallers, Streams <- StreamCallers, Compats <- CompatCallers, Slots <- CallSlots,
    Interval <- CallInterval, Cap <- WaitCap, next <- callsNext, allowed <- callsAllowed,
    longest <- callsLongest, shutdown <- callsShutdown, pc <- callsPc, wait <- callsWait, over <- callsOver,
    holding <- callsHolding, second <- callsSecond, calls <- callsCalls, blocks <- callsBlocks
callsVars == <<callsNext, callsAllowed, callsLongest, callsShutdown, callsPc, callsWait, callsOver,
      callsHolding, callsSecond, callsCalls, callsBlocks>>

allVars == <<which, vars, scraperVars, yahooVars, callsVars>>

-----------------------------------------------------------------------------
\* A part that is not chosen stays in one of its initial states.
MCInit ==
    /\ which \in {"circuit", "scraper", "yahoo", "calls"}
    /\ Init
    /\ Sc!Init /\ (which # "scraper" => scraperKind = "regular" /\ scraperSteady = "primary")
    /\ Yp!Init /\ (which # "yahoo" => ~yahooExcluded)
    /\ Ai!Init

CircuitRuns ==
    /\ which = "circuit" /\ Next
    /\ UNCHANGED <<which, scraperVars, yahooVars, callsVars>>
ScraperRuns == which = "scraper" /\ Sc!Next /\ UNCHANGED <<which, vars, yahooVars, callsVars>>
YahooRuns == which = "yahoo" /\ Yp!Next /\ UNCHANGED <<which, vars, scraperVars, callsVars>>
CallsRuns == which = "calls" /\ Ai!Next /\ UNCHANGED <<which, vars, scraperVars, yahooVars>>
\* The bounds of these parts run out; the others may never stop.
Stops == which \in {"yahoo", "calls"} /\ UNCHANGED allVars

MCNext ==
    CircuitRuns \/ ScraperRuns \/ YahooRuns \/ CallsRuns \/ Stops

\* The fairness of the chosen part, as its module states it.
MCFairness ==
    /\ Fairness
    /\ WF_scraperVars(which = "scraper" /\ Sc!Ask)
    /\ SF_scraperVars(which = "scraper" /\ Sc!Tick)
    /\ SF_scraperVars(which = "scraper" /\ Sc!Cycle)
    /\ Yp!Fairness
    /\ WF_callsVars(which = "calls" /\ Ai!Tick)
    /\ \A c \in Ai!Callers : WF_callsVars(Ai!Proceeds(c))

MCSpec == MCInit /\ [][MCNext]_allVars /\ MCFairness

-----------------------------------------------------------------------------
\* scrapers.py: no combination of pauses, cooldowns and blocks keeps a symbol
\* for ever from the provider that answers.
QuotesKeepComing == [](Sc!TypeOK) /\ (which = "scraper" => Sc!QuotesKeepComing)

\* session_manager.py: no sweep, reaper or eviction closes the session of a
\* request that has been sent.
NoCloseInFlight == [](Yp!TypeOK) /\ Yp!NoCloseInFlight

\* ai_service.py: while nobody waits the pace is not ahead of the clock, so
\* that no call waits behind a slot nobody uses.
NoPhantomSlot == Ai!TypeOK /\ Ai!NoPhantomSlot

\* retry.py, ai_service.py, openai_service.py: every call to Yahoo and to a
\* model comes back, a second attempt inside the slot of the first included.
CallsReturn == Yp!CallsReturn /\ Ai!CallsReturn
=============================================================================
