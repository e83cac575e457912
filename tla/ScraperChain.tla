---------------------------- MODULE ScraperChain ----------------------------
(***************************************************************************)
(* The chain of quote providers of one JP symbol: the primary (Kabutan,    *)
(* then Yahoo JP), SBI, Nikkei225JP and Minkabu.  A fallback rests for a   *)
(* cooldown after each failure; the primary is paused after a streak of    *)
(* failures; an answer that means "blocked" stops every provider for a     *)
(* window that grows while it is open.                                     *)
(*                                                                         *)
(* Time is counted in ticks.  One provider, chosen at the start, answers   *)
(* whenever it is asked; the others do as they please, and the number of   *)
(* blocks they cause is bounded.                                           *)
(***************************************************************************)
EXTENDS Naturals

CONSTANTS Threshold,    \* STRUCTURE_CHANGE_THRESHOLD of the primary
          PauseMax,     \* PAUSE_COOLDOWN_MAX; PAUSE_COOLDOWN_INITIAL is a tick
          Recovery,     \* RECOVERY_COOLDOWN_SECONDS of the primary
          Cooldown,     \* FALLBACK_COOLDOWN_SECONDS
          BlockMax,     \* scraper_max_backoff_sec; scraper_backoff_initial is a tick
          MaxBlocks     \* bound: answers that block

Fallbacks == {"sbi", "nikkei", "minkabu"}
Providers == Fallbacks \cup {"primary"}

VARIABLES
    kind,      \* the quote asked for: "regular" or "pts"
    steady,    \* the provider that answers
    asked,     \* the provider to ask next in this cycle, "none" between cycles
    streak,    \* _consecutive_failures of the primary
    reported,  \* ticks since _structure_change_reported, 0 when not reported
    pause,     \* ticks until _pause_until
    cool,      \* ticks until each fallback's cooldown of this kind is over
    coolPage,  \* ... of Minkabu's regular page, which serves its PTS quote too
    block,     \* ticks until scraper_block_until
    blockStreak, blocks,
    quote      \* the last cycle ended with a quote

vars == <<kind, steady, asked, streak, reported, pause, cool, coolPage, block,
          blockStreak, blocks, quote>>

MaxStreak == Threshold + 4
TypeOK ==
    /\ kind \in {"regular", "pts"} /\ steady \in Providers
    /\ asked \in Providers \cup {"none"}
    /\ streak \in 0 .. MaxStreak /\ reported \in 0 .. Recovery + 1
    /\ pause \in 0 .. PauseMax
    /\ cool \in [Fallbacks -> 0 .. Cooldown] /\ coolPage \in 0 .. Cooldown
    /\ block \in 0 .. BlockMax /\ blockStreak \in 0 .. 6 /\ blocks \in 0 .. MaxBlocks
    /\ quote \in BOOLEAN

Init ==
    /\ kind \in {"regular", "pts"} /\ steady \in Providers /\ asked = "none"
    /\ streak = 0 /\ reported = 0 /\ pause = 0
    /\ cool = [f \in Fallbacks |-> 0] /\ coolPage = 0
    /\ block = 0 /\ blockStreak = 0 /\ blocks = 0 /\ quote = FALSE

Least(a, b) == IF a < b THEN a ELSE b
Largest(a, b) == IF a < b THEN b ELSE a
Minus1(n) == IF n = 0 THEN 0 ELSE n - 1

(***************************************************************************)
(* One answer.                                                             *)
(***************************************************************************)
\* A provider that is not the steady one fails or blocks as it likes.
Answers(p) == IF p = steady THEN {"ok"} ELSE {"ok", "fail", "blocked"}

\* mark_scraper_blocked: the streak starts over unless a block is open; the
\* window never shrinks.
MarkBlocked ==
    /\ blocks < MaxBlocks /\ blocks' = blocks + 1
    /\ LET s == IF block = 0 THEN 1 ELSE Least(blockStreak + 1, 6)
       IN /\ blockStreak' = s
          /\ block' = Largest(block, Least(2 ^ (s - 1), BlockMax))

Marked(answer) ==
    IF answer = "blocked" THEN MarkBlocked ELSE UNCHANGED <<block, blockStreak, blocks>>

After == [primary |-> "sbi", sbi |-> "nikkei", nikkei |-> "minkabu", minkabu |-> "none"]

Ends(ok) == /\ asked' = IF ok THEN "none" ELSE After[asked]
            /\ quote' = IF ok THEN TRUE ELSE IF asked = "minkabu" THEN FALSE ELSE quote

(***************************************************************************)
(* The primary.                                                            *)
(***************************************************************************)
\* A report older than the recovery time starts the streak over.
Failures == (IF reported > Recovery THEN 0 ELSE streak) + 1

\* _record_fetch_failure: from the threshold on, a pause that doubles.
PrimaryFails ==
    /\ streak' = Least(Failures, MaxStreak)
    /\ reported' = IF Failures >= Threshold
                   THEN (IF reported > Recovery THEN 1 ELSE Largest(reported, 1))
                   ELSE IF reported > Recovery THEN 0 ELSE reported
    /\ pause' = IF Failures >= Threshold
                THEN Least(2 ^ Least(Failures - Threshold, 3), PauseMax) ELSE pause

\* Kabutan's page, then Yahoo's, as one answer.
PrimaryAnswers == Answers("primary")

\* Refused without a record in a block.
AskPrimary ==
    /\ asked = "primary"
    /\ \E answer \in PrimaryAnswers :
          IF block > 0
          THEN Ends(FALSE) /\ UNCHANGED <<streak, reported, pause, block, blockStreak, blocks>>
          ELSE /\ Marked(answer)
               /\ Ends(answer = "ok")
               /\ IF answer = "ok" THEN streak' = 0 /\ reported' = 0 /\ pause' = 0
                                   ELSE PrimaryFails
    /\ UNCHANGED <<kind, steady, cool, coolPage>>
FetchJpSymbol == kind = "regular" /\ AskPrimary
FetchPtsSymbol == kind = "pts" /\ AskPrimary

(***************************************************************************)
(* The fallbacks.                                                          *)
(***************************************************************************)
\* Nothing is asked and nothing recorded while the provider rests; in a block
\* Nikkei225JP and Minkabu's regular page record nothing either, SBI and
\* Minkabu's PTS quote record a failure.
Rests(f) ==
    \/ cool[f] > 0
    \/ block > 0 /\ (f = "nikkei" \/ (f = "minkabu" /\ kind = "regular"))

\* _record_fetch_failure and _record_fetch_success of a fallback.
Recorded(f, ok) == cool' = [cool EXCEPT ![f] = IF ok THEN 0 ELSE Cooldown]

AskFallbackMutant(f) ==  \* a provider that is refused starts its cooldown over
    /\ asked = f
    /\ \E answer \in Answers(f) :
          IF Rests(f)
          THEN Ends(FALSE) /\ Recorded(f, FALSE) /\ UNCHANGED <<block, blockStreak, blocks>>
          ELSE LET ok == answer = "ok" /\ block = 0
               IN /\ IF block > 0 THEN UNCHANGED <<block, blockStreak, blocks>> ELSE Marked(answer)
                  /\ Recorded(f, ok)
                  /\ Ends(ok)
    /\ UNCHANGED <<kind, steady, streak, reported, pause, coolPage>>

AskFallback(f) ==
    /\ asked = f
    /\ \E answer \in Answers(f) :
          IF Rests(f)
          THEN Ends(FALSE) /\ UNCHANGED <<cool, block, blockStreak, blocks>>
          ELSE LET ok == answer = "ok" /\ block = 0
               IN /\ IF block > 0 THEN UNCHANGED <<block, blockStreak, blocks>> ELSE Marked(answer)
                  /\ Recorded(f, ok)
                  /\ Ends(ok)
    /\ UNCHANGED <<kind, steady, streak, reported, pause, coolPage>>
AskSbi == AskFallback("sbi")
AskNikkei == AskFallback("nikkei")

\* Minkabu's PTS quote is its regular page under another name: the page's own
\* cooldown applies as well.
AskMinkabu ==
    /\ asked = "minkabu"
    /\ \E answer \in Answers("minkabu") :
          LET pageRests == block > 0 \/ (kind = "pts" /\ coolPage > 0)
              ok == answer = "ok" /\ ~pageRests
          IN IF Rests("minkabu")
             THEN Ends(FALSE) /\ UNCHANGED <<cool, coolPage, block, blockStreak, blocks>>
             ELSE /\ IF pageRests THEN UNCHANGED <<block, blockStreak, blocks>> ELSE Marked(answer)
                  /\ Recorded("minkabu", ok)
                  /\ coolPage' = IF kind = "pts" /\ ~pageRests
                                 THEN (IF ok THEN 0 ELSE Cooldown) ELSE coolPage
                  /\ Ends(ok)
    /\ UNCHANGED <<kind, steady, streak, reported, pause>>

(***************************************************************************)
(* The cycles and time.                                                    *)
(***************************************************************************)
\* A worker starts a cycle only outside a block; a paused primary is left out
\* of it, the symbol is not.
Cycle ==
    /\ asked = "none" /\ block = 0
    /\ asked' = IF pause > 0 THEN "sbi" ELSE "primary"
    /\ UNCHANGED <<kind, steady, streak, reported, pause, cool, coolPage, block,
                   blockStreak, blocks, quote>>

\* A tick is longer than a cycle.
Tick ==
    /\ asked = "none"
    /\ reported' = IF reported = 0 THEN 0 ELSE Least(reported + 1, Recovery + 1)
    /\ pause' = Minus1(pause) /\ block' = Minus1(block)
    /\ cool' = [f \in Fallbacks |-> Minus1(cool[f])] /\ coolPage' = Minus1(coolPage)
    /\ UNCHANGED <<kind, steady, asked, streak, blockStreak, blocks, quote>>

Ask == FetchJpSymbol \/ FetchPtsSymbol \/ AskSbi \/ AskNikkei \/ AskMinkabu
Next == Cycle \/ Ask \/ Tick

\* The workers poll for ever and time passes; a cycle starts in every stretch
\* of time in which one may.
Fairness == WF_vars(Ask) /\ SF_vars(Tick) /\ SF_vars(Cycle)

Spec == Init /\ [][Next]_vars /\ Fairness

(***************************************************************************)
(* Properties                                                              *)
(***************************************************************************)
\* As long as one provider answers, quotes keep coming: no combination of
\* pauses, cooldowns and blocks keeps a symbol from it for ever.
QuotesKeepComing == []<>quote
=============================================================================
