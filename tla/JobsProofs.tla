------------------------------ MODULE JobsProofs ------------------------------
(***************************************************************************)
(* Proofs about work that concurrent requests claim for one another, for   *)
(* any callers, pages, keys and bounds.                                    *)
(***************************************************************************)
EXTENDS MCJobs, PlacesProofs, SequenceTheorems, TLAPS

(* What a caller holds at each stage of its call.                          *)
Stage(c) ==
  /\ pc[c] \in {"idle", "lookup", "register"} => on[c] = NoOne
  /\ pc[c] \in Fetching \cup {"set"} => on[c] = c /\ c \notin woken
  /\ pc[c] = "done" => on[c] = c /\ c \in woken
  /\ pc[c] \in Waiting => on[c] \in Callers \ {c}
  /\ pc[c] = "negative" => c \in woken \ had

(* What it was told.                                                       *)
Told(c) ==
  /\ pc[c] \in {"idle", "lookup", "register", "fetch", "wait"} => answer[c] = "unknown"
  /\ pc[c] = "store" => answer[c] = "value"
  /\ pc[c] = "reread" /\ answer[c] # "unknown" => c \in woken
  /\ c \in had /\ on[c] = c => answer[c] = "value"

(* An event that is not set has a caller that will set it.                 *)
EventHasSetter(c) ==
  on[c] # NoOne /\ c \notin woken => pc[on[c]] \in Fetching \cup {"set"}

HadIsStored == had # {} => store

IInv ==
  /\ TypeOK
  /\ had \subseteq {c \in Callers : on[c] # NoOne}
  /\ SingleFlight
  /\ HadIsStored
  /\ \A c \in Callers : Stage(c) /\ Told(c) /\ EventHasSetter(c)

LEMMA InitInv == Init => IInv
  BY CallersAssumption
  DEF Init, IInv, TypeOK, SingleFlight, HadIsStored, Stage, Told, EventHasSetter,
      Fetching, Waiting

LEMMA CallKeeps ==
  ASSUME IInv, NEW c \in Callers, NEW skip \in BOOLEAN, Call(c, skip)
  PROVE  IInv'
<1> USE CallersAssumption DEF IInv, TypeOK, Call, Goto
<1>1. TypeOK'
  BY DEF Fetching, Waiting
<1>2. SingleFlight' /\ HadIsStored' /\ (had \subseteq {w \in Callers : on[w] # NoOne})'
  BY DEF SingleFlight, HadIsStored, Stage, Told, Fetching, Waiting
<1>3. ASSUME NEW w \in Callers
      PROVE  Stage(w)' /\ Told(w)' /\ EventHasSetter(w)'
  <2>1. Stage(w)'
    BY DEF Stage, Told, SingleFlight, HadIsStored, Fetching, Waiting
  <2>2. Told(w)'
    BY DEF Stage, Told, Fetching, Waiting
  <2>3. EventHasSetter(w)'
    BY DEF Stage, EventHasSetter, SingleFlight, Fetching, Waiting
  <2> QED  BY <2>1, <2>2, <2>3
<1> QED  BY <1>1, <1>2, <1>3

LEMMA LookupKeeps ==
  ASSUME IInv, NEW c \in Callers, Lookup(c)
  PROVE  IInv'
<1> USE CallersAssumption DEF IInv, TypeOK, Lookup, Finish
<1>1. TypeOK'
  BY DEF Fetching, Waiting
<1>2. SingleFlight' /\ HadIsStored' /\ (had \subseteq {w \in Callers : on[w] # NoOne})'
  BY DEF SingleFlight, HadIsStored, Stage, Told, Fetching, Waiting
<1>3. ASSUME NEW w \in Callers
      PROVE  Stage(w)' /\ Told(w)' /\ EventHasSetter(w)'
  <2>1. Stage(w)'
    BY DEF Stage, Told, SingleFlight, HadIsStored, Fetching, Waiting
  <2>2. Told(w)'
    BY DEF Stage, Told, Fetching, Waiting
  <2>3. EventHasSetter(w)'
    BY DEF Stage, EventHasSetter, SingleFlight, Fetching, Waiting
  <2> QED  BY <2>1, <2>2, <2>3
<1> QED  BY <1>1, <1>2, <1>3

LEMMA RegisterKeeps ==
  ASSUME IInv, NEW c \in Callers, Register(c)
  PROVE  IInv'
<1> USE CallersAssumption DEF IInv, TypeOK, Register, Goto
<1>1. TypeOK'
  BY DEF Fetching, Waiting
<1>2. SingleFlight' /\ HadIsStored' /\ (had \subseteq {w \in Callers : on[w] # NoOne})'
  BY DEF SingleFlight, HadIsStored, Stage, Told, Fetching, Waiting
<1>3. ASSUME NEW w \in Callers
      PROVE  Stage(w)' /\ Told(w)' /\ EventHasSetter(w)'
  <2>1. Stage(w)'
    BY DEF Stage, Told, SingleFlight, HadIsStored, Fetching, Waiting
  <2>2. Told(w)'
    BY DEF Stage, Told, Fetching, Waiting
  <2>3. EventHasSetter(w)'
    BY DEF Stage, EventHasSetter, SingleFlight, Fetching, Waiting
  <2> QED  BY <2>1, <2>2, <2>3
<1> QED  BY <1>1, <1>2, <1>3

LEMMA FetchedKeeps ==
  ASSUME IInv, NEW c \in Callers, Fetched(c)
  PROVE  IInv'
<1> USE CallersAssumption DEF IInv, TypeOK, Fetched
<1>1. TypeOK'
  BY DEF Fetching, Waiting
<1>2. SingleFlight' /\ HadIsStored' /\ (had \subseteq {w \in Callers : on[w] # NoOne})'
  BY DEF SingleFlight, HadIsStored, Stage, Told, Fetching, Waiting
<1>3. ASSUME NEW w \in Callers
      PROVE  Stage(w)' /\ Told(w)' /\ EventHasSetter(w)'
  <2>1. Stage(w)'
    BY DEF Stage, Told, SingleFlight, HadIsStored, Fetching, Waiting
  <2>2. Told(w)'
    BY DEF Stage, Told, Fetching, Waiting
  <2>3. EventHasSetter(w)'
    BY DEF Stage, EventHasSetter, SingleFlight, Fetching, Waiting
  <2> QED  BY <2>1, <2>2, <2>3
<1> QED  BY <1>1, <1>2, <1>3

LEMMA StoreKeeps ==
  ASSUME IInv, NEW c \in Callers, Store(c)
  PROVE  IInv'
<1> USE CallersAssumption DEF IInv, TypeOK, Store, Goto, Holders
<1>1. TypeOK'
  BY DEF Fetching, Waiting
<1>2. SingleFlight' /\ HadIsStored' /\ (had \subseteq {w \in Callers : on[w] # NoOne})'
  BY DEF SingleFlight, HadIsStored, Stage, Told, Fetching, Waiting
<1>3. ASSUME NEW w \in Callers
      PROVE  Stage(w)' /\ Told(w)' /\ EventHasSetter(w)'
  <2>1. Stage(w)'
    BY DEF Stage, Told, SingleFlight, HadIsStored, Fetching, Waiting
  <2>2. Told(w)'
    BY DEF Stage, Told, Fetching, Waiting
  <2>3. EventHasSetter(w)'
    BY DEF Stage, EventHasSetter, SingleFlight, Fetching, Waiting
  <2> QED  BY <2>1, <2>2, <2>3
<1> QED  BY <1>1, <1>2, <1>3

LEMMA PopKeeps ==
  ASSUME IInv, NEW c \in Callers, Pop(c)
  PROVE  IInv'
<1> USE CallersAssumption DEF IInv, TypeOK, Pop, Goto
<1>1. TypeOK'
  BY DEF Fetching, Waiting
<1>2. SingleFlight' /\ HadIsStored' /\ (had \subseteq {w \in Callers : on[w] # NoOne})'
  BY DEF SingleFlight, HadIsStored, Stage, Told, Fetching, Waiting
<1>3. ASSUME NEW w \in Callers
      PROVE  Stage(w)' /\ Told(w)' /\ EventHasSetter(w)'
  <2>1. Stage(w)'
    BY DEF Stage, Told, SingleFlight, HadIsStored, Fetching, Waiting
  <2>2. Told(w)'
    BY DEF Stage, Told, Fetching, Waiting
  <2>3. EventHasSetter(w)'
    BY DEF Stage, EventHasSetter, SingleFlight, Fetching, Waiting
  <2> QED  BY <2>1, <2>2, <2>3
<1> QED  BY <1>1, <1>2, <1>3

LEMMA SetEventKeeps ==
  ASSUME IInv, NEW c \in Callers, SetEvent(c)
  PROVE  IInv'
<1> USE CallersAssumption DEF IInv, TypeOK, SetEvent, Goto, Holders
<1>1. TypeOK'
  BY DEF Fetching, Waiting
<1>2. SingleFlight' /\ HadIsStored' /\ (had \subseteq {w \in Callers : on[w] # NoOne})'
  BY DEF SingleFlight, HadIsStored, Stage, Told, Fetching, Waiting
<1>3. ASSUME NEW w \in Callers
      PROVE  Stage(w)' /\ Told(w)' /\ EventHasSetter(w)'
  <2>1. Stage(w)'
    BY DEF Stage, Told, SingleFlight, HadIsStored, Fetching, Waiting
  <2>2. Told(w)'
    BY DEF Stage, Told, Fetching, Waiting
  <2>3. EventHasSetter(w)'
    BY DEF Stage, EventHasSetter, SingleFlight, Fetching, Waiting
  <2> QED  BY <2>1, <2>2, <2>3
<1> QED  BY <1>1, <1>2, <1>3

LEMMA ReturnKeeps ==
  ASSUME IInv, NEW c \in Callers, Return(c)
  PROVE  IInv'
<1> USE CallersAssumption DEF IInv, TypeOK, Return, NoData, Finish
<1>1. TypeOK'
  BY DEF Fetching, Waiting
<1>2. SingleFlight' /\ HadIsStored' /\ (had \subseteq {w \in Callers : on[w] # NoOne})'
  BY DEF SingleFlight, HadIsStored, Stage, Told, Fetching, Waiting
<1>3. ASSUME NEW w \in Callers
      PROVE  Stage(w)' /\ Told(w)' /\ EventHasSetter(w)'
  <2>1. Stage(w)'
    BY DEF Stage, Told, SingleFlight, HadIsStored, Fetching, Waiting
  <2>2. Told(w)'
    BY DEF Stage, Told, Fetching, Waiting
  <2>3. EventHasSetter(w)'
    BY DEF Stage, EventHasSetter, SingleFlight, Fetching, Waiting
  <2> QED  BY <2>1, <2>2, <2>3
<1> QED  BY <1>1, <1>2, <1>3

LEMMA WakeKeeps ==
  ASSUME IInv, NEW c \in Callers, Wake(c)
  PROVE  IInv'
<1> USE CallersAssumption DEF IInv, TypeOK, Wake, Goto
<1>1. TypeOK'
  BY DEF Fetching, Waiting
<1>2. SingleFlight' /\ HadIsStored' /\ (had \subseteq {w \in Callers : on[w] # NoOne})'
  BY DEF SingleFlight, HadIsStored, Stage, Told, Fetching, Waiting
<1>3. ASSUME NEW w \in Callers
      PROVE  Stage(w)' /\ Told(w)' /\ EventHasSetter(w)'
  <2>1. Stage(w)'
    BY DEF Stage, Told, SingleFlight, HadIsStored, Fetching, Waiting
  <2>2. Told(w)'
    BY DEF Stage, Told, Fetching, Waiting
  <2>3. EventHasSetter(w)'
    BY DEF Stage, EventHasSetter, SingleFlight, Fetching, Waiting
  <2> QED  BY <2>1, <2>2, <2>3
<1> QED  BY <1>1, <1>2, <1>3

LEMMA TimeOutKeeps ==
  ASSUME IInv, NEW c \in Callers, TimeOut(c)
  PROVE  IInv'
<1> USE CallersAssumption DEF IInv, TypeOK, TimeOut, Goto
<1>1. TypeOK'
  BY DEF Fetching, Waiting
<1>2. SingleFlight' /\ HadIsStored' /\ (had \subseteq {w \in Callers : on[w] # NoOne})'
  BY DEF SingleFlight, HadIsStored, Stage, Told, Fetching, Waiting
<1>3. ASSUME NEW w \in Callers
      PROVE  Stage(w)' /\ Told(w)' /\ EventHasSetter(w)'
  <2>1. Stage(w)'
    BY DEF Stage, Told, SingleFlight, HadIsStored, Fetching, Waiting
  <2>2. Told(w)'
    BY DEF Stage, Told, Fetching, Waiting
  <2>3. EventHasSetter(w)'
    BY DEF Stage, EventHasSetter, SingleFlight, Fetching, Waiting
  <2> QED  BY <2>1, <2>2, <2>3
<1> QED  BY <1>1, <1>2, <1>3

LEMMA RereadKeeps ==
  ASSUME IInv, NEW c \in Callers, Reread(c)
  PROVE  IInv'
<1> USE CallersAssumption DEF IInv, TypeOK, Reread, NoData, Finish
<1>1. TypeOK'
  BY DEF Fetching, Waiting
<1>2. SingleFlight' /\ HadIsStored' /\ (had \subseteq {w \in Callers : on[w] # NoOne})'
  BY DEF SingleFlight, HadIsStored, Stage, Told, Fetching, Waiting
<1>3. ASSUME NEW w \in Callers
      PROVE  Stage(w)' /\ Told(w)' /\ EventHasSetter(w)'
  <2>1. Stage(w)'
    BY DEF Stage, Told, SingleFlight, HadIsStored, Fetching, Waiting
  <2>2. Told(w)'
    BY DEF Stage, Told, Fetching, Waiting
  <2>3. EventHasSetter(w)'
    BY DEF Stage, EventHasSetter, SingleFlight, Fetching, Waiting
  <2> QED  BY <2>1, <2>2, <2>3
<1> QED  BY <1>1, <1>2, <1>3

LEMMA WriteNegativeKeeps ==
  ASSUME IInv, NEW c \in Callers, WriteNegative(c)
  PROVE  IInv'
<1> USE CallersAssumption DEF IInv, TypeOK, WriteNegative, Finish
<1>1. TypeOK'
  BY DEF Fetching, Waiting
<1>2. SingleFlight' /\ HadIsStored' /\ (had \subseteq {w \in Callers : on[w] # NoOne})'
  BY DEF SingleFlight, HadIsStored, Stage, Told, Fetching, Waiting
<1>3. ASSUME NEW w \in Callers
      PROVE  Stage(w)' /\ Told(w)' /\ EventHasSetter(w)'
  <2>1. Stage(w)'
    BY DEF Stage, Told, SingleFlight, HadIsStored, Fetching, Waiting
  <2>2. Told(w)'
    BY DEF Stage, Told, Fetching, Waiting
  <2>3. EventHasSetter(w)'
    BY DEF Stage, EventHasSetter, SingleFlight, Fetching, Waiting
  <2> QED  BY <2>1, <2>2, <2>3
<1> QED  BY <1>1, <1>2, <1>3

LEMMA RemovalKeeps ==
  ASSUME IInv, Removed \/ NegativeExpires
  PROVE  IInv'
<1> USE CallersAssumption DEF IInv, TypeOK, Removed, NegativeExpires
<1>1. TypeOK'
  BY DEF Fetching, Waiting
<1>2. SingleFlight' /\ HadIsStored' /\ (had \subseteq {w \in Callers : on[w] # NoOne})'
  BY DEF SingleFlight, HadIsStored
<1>3. ASSUME NEW w \in Callers
      PROVE  Stage(w)' /\ Told(w)' /\ EventHasSetter(w)'
  BY ZenonT(40) DEF Stage, Told, EventHasSetter, Fetching, Waiting
<1> QED  BY <1>1, <1>2, <1>3

LEMMA NextKeeps == IInv /\ [Next]_vars => IInv'
<1> SUFFICES ASSUME IInv, [Next]_vars  PROVE IInv'
  OBVIOUS
<1>1. CASE \E c \in Callers, skip \in BOOLEAN : Call(c, skip)
  BY <1>1, CallKeeps
<1>2. ASSUME NEW c \in Callers, CallStep(c)  PROVE IInv'
  BY <1>2, LookupKeeps, RegisterKeeps, FetchedKeeps, StoreKeeps, PopKeeps, SetEventKeeps,
     ReturnKeeps, WakeKeeps, TimeOutKeeps, RereadKeeps, WriteNegativeKeeps
  DEF CallStep
<1>3. CASE Removed \/ NegativeExpires
  BY <1>3, RemovalKeeps
<1>4. CASE UNCHANGED vars
  BY <1>4 DEF vars, IInv, TypeOK, SingleFlight, HadIsStored, Stage, Told, EventHasSetter
<1> QED  BY <1>1, <1>2, <1>3, <1>4 DEF Next

LEMMA InvHolds == Spec => []IInv
  BY InitInv, NextKeeps, PTL DEF Spec

(* The variables keep their types (caching.py:45-56, 176-225).             *)
THEOREM CacheTypes == Spec => []TypeOK
<1>1. IInv => TypeOK
  BY DEF IInv
<1> QED  BY <1>1, InvHolds, PTL

(* One key is fetched by one caller at a time (caching.py:218-225).        *)
THEOREM OneFetchAtATime == Spec => []SingleFlight
<1>1. IInv => SingleFlight
  BY DEF IInv
<1> QED  BY <1>1, InvHolds, PTL

(* A waiter that was not woken has somebody to wake it (caching.py:255-257). *)
THEOREM WaitersAreWoken == Spec => []WaiterHasFetcher
<1>1. IInv => WaiterHasFetcher
  BY CallersAssumption
  DEF IInv, WaiterHasFetcher, EventHasSetter, Stage, Fetching, Waiting
<1> QED  BY <1>1, InvHolds, PTL

(* No caller records an absence it has not seen (caching.py:378-390).      *)
THEOREM NegativesAreEarned == Spec => []NegativeIsEarned
<1>1. IInv => NegativeIsEarned
  BY DEF IInv, NegativeIsEarned, Stage
<1> QED  BY <1>1, InvHolds, PTL
-----------------------------------------------------------------------------
Active == {"claimed", "queued", "stored"}
JobRow == [key : Aj!Keys, how : Aj!States, told : BOOLEAN]

\* What the steps need of the types.
JobShape ==
    /\ analysisPc \in [Pages -> {"new", "missed", "renew", "claimed", "waiting", "over"}]
    /\ analysisHolder \in [Pages -> Nat] /\ analysisInflight \in [Aj!Keys -> Nat]
    /\ analysisJobs \in Seq(JobRow)

\* A page that has claimed owns a job of its key that nobody has submitted.
ClaimantOwns ==
    \A p \in Pages : analysisPc[p] = "claimed" =>
        /\ analysisHolder[p] \in DOMAIN analysisJobs
        /\ analysisJobs[analysisHolder[p]].how = "claimed"
        /\ analysisJobs[analysisHolder[p]].key = Aj!Key(p)

\* Nobody else owns it.
OneClaimant ==
    \A p, q \in Pages : analysisPc[p] = "claimed" /\ analysisPc[q] = "claimed" /\ analysisHolder[p] = analysisHolder[q]
                            => p = q

JobInv == JobShape /\ Aj!OneJobPerKey /\ ClaimantOwns /\ OneClaimant

-----------------------------------------------------------------------------
\* A step that gives one job another outcome.
Becomes(j, how) ==
    /\ analysisJobs' \in Seq(JobRow) /\ DOMAIN analysisJobs' = DOMAIN analysisJobs
    /\ analysisJobs'[j].how = how
    /\ \A i \in DOMAIN analysisJobs : analysisJobs'[i].key = analysisJobs[i].key
    /\ \A i \in DOMAIN analysisJobs \ {j} : analysisJobs'[i].how = analysisJobs[i].how

\* Only the outcome of a job changes, and its number stays.
LEMMA JobChanges ==
    ASSUME JobShape, NEW j \in DOMAIN analysisJobs, NEW how \in Aj!States, NEW told \in BOOLEAN,
           \/ analysisJobs' = [analysisJobs EXCEPT ![j].how = how, ![j].told = told]
           \/ analysisJobs' = [analysisJobs EXCEPT ![j].how = how]
    PROVE  Becomes(j, how)
<1> DEFINE new == IF analysisJobs' = [analysisJobs EXCEPT ![j].how = how]
                  THEN [analysisJobs[j] EXCEPT !.how = how]
                  ELSE [[analysisJobs[j] EXCEPT !.how = how] EXCEPT !.told = told]
<1>1. analysisJobs[j] \in JobRow /\ DOMAIN analysisJobs = 1 .. Len(analysisJobs)
  BY DEF JobShape
<1>2. new \in JobRow /\ new.how = how /\ new.key = analysisJobs[j].key
  BY <1>1 DEF JobRow
<1>3. analysisJobs' = [analysisJobs EXCEPT ![j] = new]
  BY <1>1
<1>4. /\ analysisJobs' \in Seq(JobRow) /\ Len(analysisJobs') = Len(analysisJobs)
      /\ \A i \in 1 .. Len(analysisJobs) : analysisJobs'[i] = IF i = j THEN new ELSE analysisJobs[i]
  <2> HIDE DEF new
  <2> QED BY <1>1, <1>2, <1>3, ExceptSeq DEF JobShape
<1>5. DOMAIN analysisJobs' = DOMAIN analysisJobs
  BY <1>1, <1>4
<1> HIDE DEF new
<1> QED BY <1>1, <1>2, <1>4, <1>5 DEF Becomes

\* Every job is about a key.
LEMMA JobHasKey ==
  ASSUME JobShape, NEW j \in DOMAIN analysisJobs
  PROVE  analysisJobs[j].key \in Aj!Keys
<1>1. analysisJobs[j] \in JobRow
  BY DEF JobShape
<1> QED BY <1>1 DEF JobRow

\* Initially nothing runs.
LEMMA InitJobInv == Aj!Init => JobInv
  BY DEF Aj!Init, JobInv, JobShape, Aj!OneJobPerKey, ClaimantOwns, OneClaimant, JobRow

\* A page that looks, joins, is answered or polls again touches no job.
LEMMA PageStep ==
    ASSUME JobInv, NEW p \in Pages, Aj!Look(p) \/ Aj!Join(p) \/ Aj!Answer(p) \/ Aj!StillFetching(p)
    PROVE  JobInv'
<1>0. Aj!Key(p) \in Aj!Keys
  BY DEF Aj!Key, Aj!Keys
<1>1. UNCHANGED <<analysisJobs, analysisInflight>> /\ analysisHolder' \in [Pages -> Nat]
  BY <1>0 DEF JobInv, JobShape, Aj!Look, Aj!Join, Aj!Answer, Aj!StillFetching
<1>2. /\ analysisPc' \in [Pages -> {"new", "missed", "renew", "claimed", "waiting", "over"}]
      /\ \A q \in Pages : analysisPc'[q] = "claimed" => analysisPc[q] = "claimed" /\ analysisHolder'[q] = analysisHolder[q]
  BY DEF JobInv, JobShape, Aj!Look, Aj!Join, Aj!Answer, Aj!StillFetching, Aj!Goes
<1> QED BY <1>1, <1>2 DEF JobInv, JobShape, Aj!OneJobPerKey, ClaimantOwns, OneClaimant, Aj!Key

\* A key is claimed while no job of it is active, under a number of its own.
LEMMA ClaimStep == ASSUME JobInv, NEW p \in Pages, Aj!Claim(p) PROVE JobInv'
<1> DEFINE job == [key |-> Aj!Key(p), how |-> "claimed", told |-> analysisPc[p] = "missed"]
<1>1. job \in JobRow /\ Aj!Key(p) \in Aj!Keys /\ job.how = "claimed" /\ job.key = Aj!Key(p)
  BY DEF JobRow, Aj!States, Aj!Key, Aj!Keys
<1>2. /\ analysisJobs' = Append(analysisJobs, job)
      /\ Aj!NoneRuns(p)
      /\ analysisPc' = [analysisPc EXCEPT ![p] = "claimed"]
      /\ analysisInflight' = [analysisInflight EXCEPT ![Aj!Key(p)] = Len(analysisJobs')]
      /\ analysisHolder' = [analysisHolder EXCEPT ![p] = Len(analysisJobs')]
  BY DEF Aj!Claim, Aj!Goes
<1> HIDE DEF job
<1>3. /\ analysisJobs' \in Seq(JobRow) /\ Len(analysisJobs') = Len(analysisJobs) + 1
      /\ \A i \in 1 .. Len(analysisJobs) : analysisJobs'[i] = analysisJobs[i]
      /\ analysisJobs'[Len(analysisJobs')] = job
  BY <1>1, <1>2, AppendProperties DEF JobInv, JobShape
<1>4. /\ DOMAIN analysisJobs = 1 .. Len(analysisJobs)
      /\ DOMAIN analysisJobs' = 1 .. Len(analysisJobs')
      /\ Len(analysisJobs) \in Nat
  BY <1>3 DEF JobInv, JobShape
<1>5. /\ DOMAIN analysisJobs' = DOMAIN analysisJobs \cup {Len(analysisJobs')}
      /\ Len(analysisJobs') \notin DOMAIN analysisJobs
  BY <1>3, <1>4
<1>6. JobShape'
  BY <1>1, <1>2, <1>3, <1>4 DEF JobInv, JobShape
<1>7. Aj!OneJobPerKey'
  <2>1. \A j \in DOMAIN analysisJobs : analysisJobs[j].how \in Active => analysisJobs[j].key # Aj!Key(p)
    BY <1>2, <1>4 DEF JobInv, Aj!OneJobPerKey, Aj!NoneRuns, Active
  <2>2. \A j \in DOMAIN analysisJobs : analysisJobs[j].key \in Aj!Keys
    BY JobHasKey DEF JobInv
  <2> QED BY <1>1, <1>2, <1>3, <1>4, <1>5, <2>1, <2>2
          DEF JobInv, JobShape, Aj!OneJobPerKey, Active
<1>8. ClaimantOwns'
  BY <1>1, <1>2, <1>3, <1>4, <1>5 DEF JobInv, JobShape, ClaimantOwns, Aj!Key
<1>9. OneClaimant'
  BY <1>2, <1>4, <1>5 DEF JobInv, JobShape, ClaimantOwns, OneClaimant
<1> QED BY <1>6, <1>7, <1>8, <1>9 DEF JobInv

\* The owner submits its job.
LEMMA SubmitStep == ASSUME JobInv, NEW p \in Pages, Aj!Submit(p) PROVE JobInv'
<1>1. /\ analysisHolder[p] \in DOMAIN analysisJobs
      /\ analysisJobs[analysisHolder[p]].how = "claimed"
      /\ UNCHANGED <<analysisInflight, analysisHolder>>
      /\ analysisPc' \in [Pages -> {"new", "missed", "renew", "claimed", "waiting", "over"}]
      /\ \A q \in Pages : analysisPc'[q] = "claimed" => q # p /\ analysisPc[q] = "claimed"
  BY DEF JobInv, JobShape, ClaimantOwns, Aj!Submit, Aj!Goes
<1>2. Becomes(analysisHolder[p], "queued")
  BY <1>1, JobChanges DEF JobInv, Aj!Submit, Aj!States
<1>3. \A q \in Pages : analysisPc'[q] = "claimed" => analysisHolder[q] # analysisHolder[p]
  BY <1>1 DEF JobInv, OneClaimant, Aj!Submit
<1>4. Aj!OneJobPerKey'
  BY <1>1, <1>2 DEF JobInv, Becomes, Aj!OneJobPerKey
<1>5. ClaimantOwns' /\ OneClaimant'
  BY <1>1, <1>2, <1>3 DEF JobInv, Becomes, ClaimantOwns, OneClaimant, Aj!Key
<1> QED BY <1>1, <1>2, <1>4, <1>5 DEF JobInv, Becomes, JobShape

\* A job that ends was active, so the claim it frees is its own.
LEMMA EndStep ==
    ASSUME JobInv, NEW j \in DOMAIN analysisJobs, analysisJobs[j].how \in Active,
           NEW how \in {"ok", "error"}, Becomes(j, how), Aj!Freed(analysisJobs[j].key),
           UNCHANGED analysisHolder,
           analysisPc' \in [Pages -> {"new", "missed", "renew", "claimed", "waiting", "over"}],
           \A q \in Pages : analysisPc'[q] = "claimed" => analysisPc[q] = "claimed" /\ analysisHolder[q] # j
    PROVE  JobInv'
<1>1. analysisInflight[analysisJobs[j].key] = j /\ analysisJobs[j].key \in Aj!Keys
  BY JobHasKey DEF JobInv, Aj!OneJobPerKey, Active
<1>2. JobShape'
  BY <1>1 DEF JobInv, JobShape, Becomes, Aj!Freed
<1>3. Aj!OneJobPerKey'
  BY <1>1 DEF JobInv, JobShape, Aj!OneJobPerKey, Becomes, Aj!Freed
<1>4. ClaimantOwns' /\ OneClaimant'
  BY DEF JobInv, ClaimantOwns, OneClaimant, Becomes, Aj!Key
<1> QED BY <1>2, <1>3, <1>4 DEF JobInv

\* The executor refuses the job of its owner.
LEMMA RefusedStep == ASSUME JobInv, NEW p \in Pages, Aj!Refused(p) PROVE JobInv'
<1>1. /\ analysisHolder[p] \in DOMAIN analysisJobs
      /\ analysisJobs[analysisHolder[p]].how = "claimed"
      /\ Aj!Freed(analysisJobs[analysisHolder[p]].key) /\ UNCHANGED analysisHolder
      /\ analysisPc' \in [Pages -> {"new", "missed", "renew", "claimed", "waiting", "over"}]
      /\ \A q \in Pages : analysisPc'[q] = "claimed" => q # p /\ analysisPc[q] = "claimed"
  BY DEF JobInv, JobShape, ClaimantOwns, Aj!Refused, Aj!Goes
<1>2. Becomes(analysisHolder[p], "error")
  BY <1>1, JobChanges DEF JobInv, Aj!Refused, Aj!States
<1>3. \A q \in Pages : analysisPc'[q] = "claimed" => analysisHolder[q] # analysisHolder[p]
  BY <1>1 DEF JobInv, OneClaimant, Aj!Refused
<1> QED BY <1>1, <1>2, <1>3, EndStep DEF Active

\* The executor keeps a bundle, or ends a job.
LEMMA WorkStep == ASSUME JobInv, NEW j \in DOMAIN analysisJobs, Aj!Work(j) PROVE JobInv'
<1>0. /\ UNCHANGED <<analysisPc, analysisHolder>> /\ analysisJobs[j].how \in {"queued", "stored"}
      /\ \A q \in Pages : analysisPc[q] = "claimed" => analysisHolder[q] # j
  BY DEF JobInv, ClaimantOwns, Aj!Work, Aj!StoreBundle, Aj!FinishNews, Aj!FinishAnalysis
<1>1. CASE Aj!StoreBundle(j)
  <2>1. Becomes(j, "stored") /\ UNCHANGED analysisInflight
    BY <1>1, JobChanges DEF JobInv, Aj!StoreBundle, Aj!States
  <2>2. Aj!OneJobPerKey'
    BY <1>0, <2>1 DEF JobInv, Becomes, Aj!OneJobPerKey
  <2>3. ClaimantOwns' /\ OneClaimant'
    BY <1>0, <2>1 DEF JobInv, Becomes, ClaimantOwns, OneClaimant, Aj!Key
  <2> QED BY <1>0, <2>1, <2>2, <2>3 DEF JobInv, Becomes, JobShape
<1>2. CASE Aj!FinishNews(j) \/ Aj!FinishAnalysis(j)
  <2>1. Aj!Freed(analysisJobs[j].key) /\ \E how \in {"ok", "error"} : Aj!Ends(j, how)
    BY <1>2 DEF Aj!FinishNews, Aj!FinishAnalysis
  <2>2. PICK how \in {"ok", "error"} : Aj!Ends(j, how)
    BY <2>1
  <2>3. Becomes(j, how)
    BY <2>2, JobChanges DEF JobInv, Aj!Ends, Aj!States
  <2> QED BY <1>0, <2>1, <2>3, EndStep DEF JobInv, JobShape, Active
<1> QED BY <1>1, <1>2 DEF Aj!Work

\* Every step keeps the invariant.
LEMMA NextJobInv == ASSUME JobInv, [Aj!Next]_(Aj!vars) PROVE JobInv'
<1>1. ASSUME NEW p \in Pages, Aj!Handle(p) PROVE JobInv'
  BY <1>1, PageStep, ClaimStep, SubmitStep, RefusedStep DEF Aj!Handle
<1>2. ASSUME NEW k \in Aj!Keys, Aj!Expire(k) PROVE JobInv'
  BY <1>2 DEF JobInv, JobShape, Aj!OneJobPerKey, ClaimantOwns, OneClaimant, Aj!Key, Aj!Expire
<1>3. CASE UNCHANGED Aj!vars
  BY <1>3 DEF JobInv, JobShape, Aj!OneJobPerKey, ClaimantOwns, OneClaimant, Aj!Key, Aj!vars
<1> QED BY <1>1, <1>2, <1>3, WorkStep DEF Aj!Next

\* The rest of the types.
JobBounds ==
    /\ analysisForce \subseteq ForcedPages
    /\ Len(analysisJobs) <= MaxJobs
    /\ \A p \in Pages : analysisHolder[p] <= Len(analysisJobs)
    /\ \A k \in Aj!Keys : analysisInflight[k] <= Len(analysisJobs)
    /\ analysisKept \in [Aj!Keys -> {"none", "fresh", "stale", "error"}]
    /\ \A k \in Aj!Keys \ Aj!Analyses : analysisKept[k] # "error"
    /\ analysisExpiries \in 0 .. MaxExpiries

LEMMA InitJobBounds == Aj!Init => JobBounds
  BY JobsAssumption DEF Aj!Init, JobBounds, Aj!Analyses

\* A page claims, joins, waits or is answered.
LEMMA HandleBounds ==
    ASSUME JobInv, JobBounds, NEW p \in Pages, Aj!Handle(p)
    PROVE  JobBounds'
<1>1. Aj!Key(p) \in Aj!Keys /\ Len(analysisJobs) \in Nat
  BY DEF Aj!Key, Aj!Keys, JobInv, JobShape
<1>2. CASE Aj!Claim(p)
  <2> DEFINE row == [key |-> Aj!Key(p), how |-> "claimed", told |-> analysisPc[p] = "missed"]
  <2>1. analysisJobs' = Append(analysisJobs, row)
    BY <1>2 DEF Aj!Claim
  <2>2. row \in JobRow
    BY <1>1 DEF JobRow, Aj!States
  <2> HIDE DEF row
  <2>3. Len(analysisJobs') = Len(analysisJobs) + 1
    BY <2>1, <2>2, AppendProperties DEF JobInv, JobShape
  <2>4. /\ Len(analysisJobs) < MaxJobs
        /\ analysisInflight' = [analysisInflight EXCEPT ![Aj!Key(p)] = Len(analysisJobs')]
        /\ analysisHolder' = [analysisHolder EXCEPT ![p] = Len(analysisJobs')]
        /\ UNCHANGED <<analysisForce, analysisKept, analysisExpiries>>
    BY <1>2 DEF Aj!Claim
  <2> QED BY <1>1, <2>3, <2>4, JobsAssumption DEF JobBounds, JobInv, JobShape
<1>3. CASE ~Aj!Claim(p)
  <2>1. Len(analysisJobs') = Len(analysisJobs)
    <3>1. CASE Aj!Submit(p) \/ Aj!Refused(p)
      <4>1. PICK i \in DOMAIN analysisJobs, row \in JobRow :
                analysisJobs' = [analysisJobs EXCEPT ![i] = row]
        <5>1. analysisHolder[p] \in DOMAIN analysisJobs
          BY <3>1 DEF JobInv, ClaimantOwns, Aj!Submit, Aj!Refused
        <5>2. analysisJobs[analysisHolder[p]] \in JobRow
          BY <5>1 DEF JobInv, JobShape
        <5>3. \A how \in Aj!States, told \in BOOLEAN :
                 /\ [analysisJobs[analysisHolder[p]] EXCEPT !.how = how] \in JobRow
                 /\ [[analysisJobs[analysisHolder[p]] EXCEPT !.how = how] EXCEPT !.told = told]
                        \in JobRow
          BY <5>2 DEF JobRow
        <5>4. CASE Aj!Submit(p)
          BY ZenonT(40), <5>1, <5>3, <5>4 DEF Aj!Submit, Aj!States
        <5>5. CASE Aj!Refused(p)
          BY <5>1, <5>3, <5>5 DEF Aj!Refused, Aj!States
        <5> QED BY <3>1, <5>4, <5>5
      <4> QED BY <4>1, ExceptSeq DEF JobInv, JobShape
    <3>2. CASE ~(Aj!Submit(p) \/ Aj!Refused(p))
      BY <1>3, <3>2 DEF Aj!Handle, Aj!Look, Aj!Join, Aj!Answer, Aj!StillFetching
    <3> QED BY <3>1, <3>2
  <2>2. analysisForce' \subseteq analysisForce /\ UNCHANGED <<analysisKept, analysisExpiries>>
    BY <1>3 DEF Aj!Handle, Aj!Look, Aj!Join, Aj!Submit, Aj!Refused, Aj!Answer,
                Aj!StillFetching
  <2>3. \A k \in Aj!Keys : analysisInflight'[k] <= Len(analysisJobs)
    BY <1>1, <1>3 DEF Aj!Handle, Aj!Look, Aj!Join, Aj!Submit, Aj!Refused, Aj!Answer,
                Aj!StillFetching, Aj!Freed, JobBounds, JobInv, JobShape
  <2>4. \A q \in Pages : analysisHolder'[q] <= Len(analysisJobs)
    BY <1>1, <1>3 DEF Aj!Handle, Aj!Look, Aj!Join, Aj!Submit, Aj!Refused, Aj!Answer,
                Aj!StillFetching, JobBounds, JobInv, JobShape
  <2> QED BY <2>1, <2>2, <2>3, <2>4 DEF JobBounds
<1> QED BY <1>2, <1>3

\* A job goes on or ends.
LEMMA WorkBounds ==
    ASSUME JobInv, JobBounds, NEW j \in DOMAIN analysisJobs, Aj!Work(j)
    PROVE  JobBounds'
<1>1. analysisJobs[j] \in JobRow /\ analysisJobs[j].key \in Aj!Keys
  BY JobHasKey DEF JobInv, JobShape
<1>2. \A how \in Aj!States, told \in BOOLEAN :
          /\ [analysisJobs[j] EXCEPT !.how = how] \in JobRow
          /\ [[analysisJobs[j] EXCEPT !.how = how] EXCEPT !.told = told] \in JobRow
  BY <1>1 DEF JobRow
<1>3. \E row \in JobRow : analysisJobs' = [analysisJobs EXCEPT ![j] = row]
  <2>1. CASE Aj!StoreBundle(j)
    BY <1>2, <2>1 DEF Aj!StoreBundle, Aj!States
  <2>2. CASE ~Aj!StoreBundle(j)
    <3>1. \E how \in {"ok", "error"} :
              analysisJobs' = [analysisJobs EXCEPT ![j].how = how, ![j].told = TRUE]
      BY <2>2 DEF Aj!Work, Aj!FinishNews, Aj!FinishAnalysis, Aj!Ends
    <3> QED BY <1>2, <3>1 DEF Aj!States
  <2> QED BY <2>1, <2>2
<1>4. Len(analysisJobs') = Len(analysisJobs) /\ Len(analysisJobs) \in Nat
  BY <1>3, ExceptSeq DEF JobInv, JobShape
<1>5. /\ UNCHANGED <<analysisForce, analysisHolder, analysisExpiries>>
      /\ \A k \in Aj!Keys : analysisInflight'[k] \in {0, analysisInflight[k]}
  BY <1>1 DEF Aj!Work, Aj!StoreBundle, Aj!FinishNews, Aj!FinishAnalysis, Aj!Freed, JobInv,
              JobShape
<1>6. /\ analysisKept' \in [Aj!Keys -> {"none", "fresh", "stale", "error"}]
      /\ \A k \in Aj!Keys \ Aj!Analyses : analysisKept'[k] # "error"
  BY <1>1 DEF Aj!Work, Aj!StoreBundle, Aj!FinishNews, Aj!FinishAnalysis, JobBounds,
              Aj!Analyses
<1>7. \A k \in Aj!Keys : analysisInflight'[k] <= Len(analysisJobs')
  BY <1>4, <1>5 DEF JobBounds, JobInv, JobShape
<1>8. Len(analysisJobs') <= MaxJobs /\ \A p \in Pages : analysisHolder'[p] <= Len(analysisJobs')
  BY <1>4, <1>5 DEF JobBounds
<1> QED BY <1>5, <1>6, <1>7, <1>8 DEF JobBounds

LEMMA NextJobBounds ==
    ASSUME JobInv, JobBounds, [Aj!Next]_(Aj!vars) PROVE JobBounds'
<1>1. ASSUME NEW k \in Aj!Keys, Aj!Expire(k) PROVE JobBounds'
  BY <1>1, JobsAssumption DEF JobBounds, Aj!Expire
<1>2. CASE UNCHANGED Aj!vars
  BY <1>2 DEF JobBounds, Aj!vars
<1> QED BY <1>1, <1>2, HandleBounds, WorkBounds DEF Aj!Next

\* The types follow.
LEMMA JobTypes == ASSUME JobInv, JobBounds PROVE Aj!TypeOK
<1>1. /\ analysisHolder \in [Pages -> 0 .. Len(analysisJobs)]
      /\ analysisInflight \in [Aj!Keys -> 0 .. Len(analysisJobs)]
  BY DEF JobInv, JobShape, JobBounds
<1> QED BY <1>1 DEF JobInv, JobShape, JobBounds, JobRow, Aj!TypeOK

\* Two pages, a forced refresh and the renewal of an old bundle never do the
\* work of a key twice at once, and the end of a job never frees the claim of
\* another (routes/api_analysis.py:1143-1257).
THEOREM OneJobPerKeyHolds == Aj!Spec => []OneJobPerKey
<1>1. Aj!Init => JobInv /\ JobBounds
  BY InitJobInv, InitJobBounds
<1>2. JobInv /\ JobBounds /\ [Aj!Next]_(Aj!vars) => (JobInv /\ JobBounds)'
  BY NextJobInv, NextJobBounds
<1>3. JobInv /\ JobBounds => OneJobPerKey
  BY JobTypes DEF OneJobPerKey, JobInv
<1>4. QED BY <1>1, <1>2, <1>3, PTL DEF Aj!Spec

-----------------------------------------------------------------------------
(***************************************************************************)
(* The chat store.  Every operation leaves it with few sessions, each with *)
(* a transcript that is not empty, not long and begins with the            *)
(* introduction, and with no rows of a session that is gone.               *)
(***************************************************************************)
Transcript == Seq(Cj!Messages)

Shaped(d) ==
    /\ d \in [lru : Seq(Sessions), msgs : [Sessions -> Transcript]]
    /\ \A k \in Sessions :
          /\ Len(d.msgs[k]) <= MaxRows
          /\ d.msgs[k] # <<>> => d.msgs[k][1] = Cj!Intro[1]
          /\ (\E i \in DOMAIN d.lru : d.lru[i] = k) <=> d.msgs[k] # <<>>
StoreOK(d) == Shaped(d) /\ Len(d.lru) <= MaxSessions

\* What the store keeps of its rows is what Places says.
LEMMA ChatItems ==
    /\ \A s, P : Cj!ItemsAt(s, P) = ItemsAt(s, P)
    /\ \A S : Cj!Cardinality(S) = Cardinality(S)
  BY Zenon DEF Cj!ItemsAt, ItemsAt, Cj!NthPlace, NthPlace, Cj!Cardinality, Cardinality

\* The introduction begins with a system message.
LEMMA IntroIs ==
    /\ Cj!Intro \in Transcript /\ Cj!Intro # <<>>
    /\ Cj!Intro[1] \in Cj!Messages /\ Cj!Intro[1].role = "system"
<1> DEFINE m(role) == [role |-> role, content |-> <<Cj!None, "intro">>]
<1>1. \A role \in {"system", "user", "assistant"} : m(role) \in Cj!Messages /\ m(role).role = role
  BY DEF Cj!Messages, Cj!None
<1>2. Cj!Intro = <<m("system"), m("user"), m("assistant")>>
  BY DEF Cj!Intro, Cj!IntroRow
<1> HIDE DEF m
<1>3. ASSUME NEW a \in Cj!Messages, NEW b \in Cj!Messages, NEW c \in Cj!Messages
      PROVE  <<a, b, c>> \in Seq(Cj!Messages) /\ <<a, b, c>> # <<>> /\ <<a, b, c>>[1] = a
  OBVIOUS
<1>4. \A role \in {"system", "user", "assistant"} : m(role) \in Cj!Messages
  BY <1>1
<1>5. /\ <<m("system"), m("user"), m("assistant")>> \in Seq(Cj!Messages)
      /\ <<m("system"), m("user"), m("assistant")>> # <<>>
      /\ <<m("system"), m("user"), m("assistant")>>[1] = m("system")
  BY <1>3, <1>4
<1> QED BY <1>1, <1>2, <1>5 DEF Transcript

\* The first n places are n.
LEMMA FirstPlaces ==
    ASSUME NEW n \in Nat PROVE IsFiniteSet(1 .. n) /\ Cardinality(1 .. n) = n
  BY FS_Interval

\* The sessions but some of them.
LEMMA WithoutIs ==
    ASSUME NEW keys \in Seq(Sessions), NEW gone
    PROVE  LET rest == Cj!Without(keys, gone)
           IN  /\ rest \in Seq(Sessions) /\ Len(rest) <= Len(keys)
               /\ \A k : (\E i \in DOMAIN rest : rest[i] = k)
                          <=> k \notin gone /\ \E i \in DOMAIN keys : keys[i] = k
               /\ (\E i \in DOMAIN keys : keys[i] \in gone) => Len(rest) < Len(keys)
               /\ \A n \in 0 .. Len(keys) :
                     (\A i \in 1 .. n : keys[i] \in gone) => Len(rest) <= Len(keys) - n
<1> DEFINE P == {i \in DOMAIN keys : keys[i] \notin gone}
           rest == Cj!Without(keys, gone)
           c == Cardinality(P)
<1>1. rest = ItemsAt(keys, P)
  BY ChatItems DEF Cj!Without
<1>2. P \in SUBSET DOMAIN keys /\ \A i \in DOMAIN keys : i \in P <=> keys[i] \notin gone
  OBVIOUS
<1> HIDE DEF P, rest
<1>3. /\ rest \in Seq(Sessions) /\ Len(rest) = c /\ c \in 0 .. Len(keys)
      /\ DOMAIN rest = 1 .. c
      /\ \A m \in 1 .. c : NthPlace(P, m) \in P /\ rest[m] = keys[NthPlace(P, m)]
      /\ \A i \in P : \E m \in 1 .. c : rest[m] = keys[i]
  <2> HIDE DEF c
  <2>1. /\ rest \in Seq(Sessions) /\ Len(rest) = Cardinality(P)
        /\ Cardinality(P) \in 0 .. Len(keys) /\ DOMAIN rest = 1 .. Cardinality(P)
        /\ \A m \in 1 .. Cardinality(P) :
              NthPlace(P, m) \in P /\ rest[m] = keys[NthPlace(P, m)]
        /\ \A i \in P : \E m \in 1 .. Cardinality(P) : rest[m] = keys[i]
    <3>1. ItemsAt(keys, P) = rest
      BY <1>1
    <3>2. P \in SUBSET DOMAIN keys
      BY <1>2
    <3> QED BY <3>1, <3>2, ItemsAre
  <2> QED BY <2>1, Zenon DEF c
<1>4. Len(keys) \in Nat /\ DOMAIN keys = 1 .. Len(keys)
  OBVIOUS
<1>5. \A k : (\E i \in DOMAIN rest : rest[i] = k)
              <=> k \notin gone /\ \E i \in DOMAIN keys : keys[i] = k
  BY <1>2, <1>3, Zenon
<1>6. ASSUME NEW n \in 0 .. Len(keys), NEW Q \in SUBSET (1 .. Len(keys)),
             Q \cap P = {}, IsFiniteSet(Q), Cardinality(Q) = n
      PROVE  c <= Len(keys) - n
  <2>1. P \subseteq (1 .. Len(keys)) \ Q
    BY <1>2, <1>4, <1>6
  <2>2. IsFiniteSet(1 .. Len(keys)) /\ Cardinality(1 .. Len(keys)) = Len(keys)
    BY <1>4, FirstPlaces
  <2>3. /\ IsFiniteSet((1 .. Len(keys)) \ Q)
        /\ Cardinality((1 .. Len(keys)) \ Q) = Len(keys) - Cardinality((1 .. Len(keys)) \cap Q)
    BY <2>2, FS_Difference
  <2>4. (1 .. Len(keys)) \cap Q = Q
    BY <1>6
  <2>5. c <= Cardinality((1 .. Len(keys)) \ Q)
    BY <2>1, <2>3, FS_Subset
  <2>6. Cardinality((1 .. Len(keys)) \ Q) = Len(keys) - n
    BY <1>6, <2>2, <2>3, <2>4
  <2> QED BY <2>5, <2>6
<1>7. ASSUME NEW n \in 0 .. Len(keys), \A i \in 1 .. n : keys[i] \in gone
      PROVE  c <= Len(keys) - n
  <2>1. (1 .. n) \in SUBSET (1 .. Len(keys)) /\ (1 .. n) \cap P = {}
    BY <1>2, <1>4, <1>7
  <2>2. IsFiniteSet(1 .. n) /\ Cardinality(1 .. n) = n
    BY FS_Interval
  <2> QED BY <1>6, <2>1, <2>2
<1>8. ASSUME NEW i \in DOMAIN keys, keys[i] \in gone PROVE c < Len(keys)
  <2>1. {i} \in SUBSET (1 .. Len(keys)) /\ {i} \cap P = {} /\ 1 \in 0 .. Len(keys)
    BY <1>2, <1>4, <1>8
  <2>2. IsFiniteSet({i}) /\ Cardinality({i}) = 1
    BY FS_Singleton
  <2>3. c <= Len(keys) - 1
    BY <1>6, <2>1, <2>2
  <2> QED BY <1>3, <1>4, <2>3
<1>9. c <= Len(keys)
  BY <1>3
<1> HIDE DEF c
<1> QED BY <1>3, <1>5, <1>7, <1>8, <1>9 DEF rest

\* A transcript that begins as it should.
Begins(t) == t \in Transcript /\ t # <<>> /\ t[1] = Cj!Intro[1]

LEMMA HeadAndLast ==
    ASSUME NEW t, Begins(t), NEW n \in 0 .. Len(t)
    PROVE  LET r == <<Head(t)>> \o Cj!LastN(t, n) IN Begins(r) /\ Len(r) = n + 1
<1> DEFINE tail == Cj!LastN(t, n)
           r == <<Head(t)>> \o tail
<1>1. t \in Seq(Cj!Messages) /\ Len(t) \in Nat /\ Len(t) # 0 /\ Head(t) = t[1]
  BY DEF Begins, Transcript
<1>2. t[1] \in Cj!Messages /\ \A i \in 1 .. Len(t) : t[i] \in Cj!Messages
  BY <1>1, ElementOfSeq
<1>3. tail \in Seq(Cj!Messages) /\ Len(tail) = n
  <2> DEFINE a == Len(t) - n + 1
  <2>1. a \in Int /\ Len(t) \in Int /\ Len(t) - a + 1 = n /\ (a <= Len(t) \/ n = 0)
    BY <1>1
  <2>2. \A i \in a .. Len(t) : t[i] \in Cj!Messages
    BY <1>1, <1>2
  <2>3. tail = SubSeq(t, a, Len(t))
    BY DEF Cj!LastN
  <2>4. n = 0 => ~(a <= Len(t))
    BY <1>1
  <2> HIDE DEF a, tail
  <2>5. /\ SubSeq(t, a, Len(t)) \in Seq(Cj!Messages)
        /\ Len(SubSeq(t, a, Len(t))) = IF a <= Len(t) THEN Len(t) - a + 1 ELSE 0
    BY <2>1, <2>2, SubSeqProperties
  <2> QED BY <2>1, <2>3, <2>4, <2>5
<1> DEFINE h == <<t[1]>>
<1>4. h \in Seq(Cj!Messages) /\ Len(h) = 1 /\ h[1] = t[1]
  BY <1>2
<1>5. r = h \o tail
  BY <1>1
<1> HIDE DEF h, tail, r
<1>6. /\ r \in Seq(Cj!Messages) /\ Len(r) = 1 + n
      /\ \A i \in 1 .. 1 + n : r[i] = IF i <= 1 THEN h[i] ELSE tail[i - 1]
  <2>1. /\ r \in Seq(Cj!Messages) /\ Len(r) = Len(h) + Len(tail)
        /\ \A i \in 1 .. Len(h) + Len(tail) :
              r[i] = IF i <= Len(h) THEN h[i] ELSE tail[i - Len(h)]
    BY <1>3, <1>4, <1>5, ConcatProperties
  <2> QED BY <1>3, <1>4, <2>1
<1>7. r[1] = t[1] /\ r # <<>>
  BY <1>4, <1>6
<1> QED BY <1>6, <1>7 DEF r, tail, Begins, Transcript

\* A transcript that is written over the old one is cut to what a session keeps.
LEMMA CappedIs ==
    ASSUME NEW t, Begins(t) PROVE Begins(Cj!Capped(t)) /\ Len(Cj!Capped(t)) <= MaxRows
<1>1. Len(t) \in Nat /\ Head(t) = t[1] /\ t[1].role = "system"
  BY IntroIs DEF Begins, Transcript
<1>2. CASE Len(t) <= MaxRows
  BY <1>2 DEF Cj!Capped
<1>3. CASE ~(Len(t) <= MaxRows)
  <2>1. MaxRows - 1 \in 0 .. Len(t) /\ (MaxRows - 1) + 1 = MaxRows /\ MaxRows <= MaxRows
    BY <1>1, <1>3, ChatAssumption
  <2>2. Cj!Capped(t) = <<Head(t)>> \o Cj!LastN(t, MaxRows - 1)
    BY <1>1, <1>3 DEF Cj!Capped
  <2>3. Begins(Cj!Capped(t)) /\ Len(Cj!Capped(t)) = (MaxRows - 1) + 1
    BY <2>1, <2>2, HeadAndLast
  <2> QED BY <2>1, <2>3
<1> QED BY <1>2, <1>3

LEMMA TrimmedIs == ASSUME NEW t, Begins(t) PROVE Begins(Cj!Trimmed(t))
<1>1. Len(t) \in Nat
  BY DEF Begins, Transcript
<1>2. CASE Len(t) <= MaxMsgs
  BY <1>2 DEF Cj!Trimmed
<1>3. CASE ~(Len(t) <= MaxMsgs)
  <2>1. MaxMsgs - 1 \in 0 .. Len(t)
    BY <1>1, <1>3, ChatAssumption
  <2>2. Cj!Trimmed(t) = <<Head(t)>> \o Cj!LastN(t, MaxMsgs - 1)
    BY <1>3 DEF Cj!Trimmed
  <2> QED BY <2>1, <2>2, HeadAndLast
<1> QED BY <1>2, <1>3

\* A row more than fit costs a row, and never the introduction.
LEMMA PrunedIs ==
    ASSUME NEW t, Begins(t), Len(t) <= MaxRows,
           NEW m \in Cj!Messages, m.role # "system"
    PROVE  LET r == Cj!Pruned(Append(t, m)) IN Begins(r) /\ Len(r) <= MaxRows
<1> DEFINE u == Append(t, m)
           n == Len(u)
           surplus == n - MaxRows
           others == {i \in DOMAIN u : u[i].role # "system"}
           rank(i) == Cardinality({j \in others : j <= i})
           doomed == {i \in others : rank(i) <= surplus}
           r == Cj!Pruned(u)
<1>1. t \in Seq(Cj!Messages) /\ Len(t) \in Nat /\ 1 \in 1 .. Len(t) /\ t[1].role = "system"
  BY IntroIs DEF Begins, Transcript
<1>2. /\ u \in Seq(Cj!Messages) /\ u # <<>> /\ n = Len(t) + 1 /\ u[1] = t[1] /\ u[n] = m
      /\ DOMAIN u = 1 .. n
  <2>1. /\ u \in Seq(Cj!Messages) /\ u # <<>> /\ Len(u) = Len(t) + 1
        /\ \A i \in 1 .. Len(t) : u[i] = t[i]
        /\ u[Len(t) + 1] = m
    BY <1>1, AppendProperties
  <2> HIDE DEF u
  <2> QED BY <1>1, <2>1
<1>3. /\ surplus <= 0 => r = u
      /\ ~(surplus <= 0) => r = ItemsAt(u, DOMAIN u \ doomed)
  <2>1. \A S : Cj!Cardinality(S) = Cardinality(S)
    BY ChatItems
  <2>2. /\ surplus <= 0 => Cj!Pruned(u) = u
        /\ ~(surplus <= 0) =>
              Cj!Pruned(u) = Cj!ItemsAt(u, DOMAIN u \
                  {i \in others : Cj!Cardinality({j \in others : j <= i}) <= surplus})
    BY DEF Cj!Pruned
  <2> QED BY <2>1, <2>2, ChatItems
<1>4. 1 \notin others /\ n \in others /\ others \in SUBSET (1 .. n) /\ n \in Nat
  BY <1>1, <1>2
<1>0. surplus = Len(t) + 1 - MaxRows /\ MaxRows \in Nat
  BY <1>2, ChatAssumption
<1> HIDE DEF u, r, others, surplus, n
<1>5. CASE surplus <= 0
  <2>1. n <= MaxRows /\ r = u
    BY <1>0, <1>1, <1>2, <1>3, <1>5
  <2> QED BY <1>2, <2>1 DEF Begins, Transcript, n, r, u
<1>6. CASE ~(surplus <= 0)
  <2>1. surplus = 1 /\ n = MaxRows + 1 /\ MaxRows \in Nat
    BY <1>0, <1>1, <1>2, <1>6
  <2> DEFINE P == DOMAIN u \ doomed
  <2>2. /\ Cardinality(others) \in 0 .. n
        /\ \A l \in 1 .. Cardinality(others) : \E i \in others : rank(i) = l
        /\ \A i \in others : rank(i) \in 1 .. Cardinality(others)
    BY <1>4, Ranks
  <2>3. 1 \in 1 .. Cardinality(others)
    <3> HIDE DEF rank
    <3> QED BY <1>4, <2>2
  <2>4. PICK i \in others : rank(i) = 1
    BY <2>2, <2>3
  <2>5. i \in doomed
    BY <2>1, <2>4
  <2>6. P \in SUBSET DOMAIN u /\ 1 \in P /\ P \subseteq (1 .. n) \ {i} /\ i \in 1 .. n
    <3>1. 1 \notin doomed /\ i \in 1 .. n /\ 1 \in 1 .. n
      BY <1>1, <1>2, <1>4
    <3> HIDE DEF doomed
    <3> QED BY <1>2, <2>5, <3>1
  <2> HIDE DEF P, doomed
  <2>7. r = ItemsAt(u, P)
    BY <1>3, <1>6 DEF P
  <2>8. /\ r \in Seq(Cj!Messages) /\ Len(r) = Cardinality(P)
        /\ r # <<>> /\ r[1] = u[1]
    BY <1>2, <2>6, <2>7, ItemsAre
  <2>9. Cardinality(P) <= MaxRows
    <3>1. IsFiniteSet(1 .. n) /\ Cardinality(1 .. n) = n
      BY <1>4, FirstPlaces
    <3>2. IsFiniteSet((1 .. n) \ {i}) /\ Cardinality((1 .. n) \ {i}) = n - 1
      <4> DEFINE all == 1 .. n
      <4>1. i \in all /\ IsFiniteSet(all) /\ Cardinality(all) = n
        BY <2>6, <3>1
      <4> HIDE DEF all
      <4>2. IsFiniteSet(all \ {i}) /\ Cardinality(all \ {i}) = n - 1
        BY <4>1, FS_RemoveElement
      <4> QED BY <4>2 DEF all
    <3>3. Cardinality(P) <= Cardinality((1 .. n) \ {i})
      BY <2>6, <3>2, FS_Subset
    <3> QED BY <1>4, <2>1, <3>2, <3>3
  <2>10. r[1] = Cj!Intro[1] /\ Len(r) <= MaxRows
    BY <1>2, <2>8, <2>9 DEF Begins
  <2> QED BY <2>8, <2>10 DEF Begins, Transcript, r, u
<1> QED BY <1>5, <1>6

\* A transcript that a session may have.
Fits(t) == Begins(t) /\ Len(t) <= MaxRows

\* The sessions that were not accessed for longest go, with their rows.
LEMMA LimitKeeps ==
    ASSUME NEW d, Shaped(d) PROVE StoreOK(Cj!EnforceSessionLimit(d))
<1> DEFINE n == Len(d.lru)
           surplus == n - MaxSessions
           gone == IF surplus > 0 THEN Cj!ToSet(SubSeq(d.lru, 1, surplus)) ELSE {}
           rest == Cj!Without(d.lru, gone)
           msgs == [k \in Sessions |-> IF k \in gone THEN <<>> ELSE d.msgs[k]]
           r == Cj!EnforceSessionLimit(d)
<1>1. r = [lru |-> rest, msgs |-> msgs]
  BY DEF Cj!EnforceSessionLimit
<1>2. /\ d.lru \in Seq(Sessions) /\ d.msgs \in [Sessions -> Transcript]
      /\ \A k \in Sessions :
            /\ Len(d.msgs[k]) <= MaxRows
            /\ d.msgs[k] # <<>> => d.msgs[k][1] = Cj!Intro[1]
            /\ (\E i \in DOMAIN d.lru : d.lru[i] = k) <=> d.msgs[k] # <<>>
  BY DEF Shaped
<1>3. n \in Nat /\ MaxSessions \in Nat /\ MaxRows \in Nat
  BY <1>2, ChatAssumption
<1>4. surplus > 0 => surplus \in 0 .. n /\ \A i \in 1 .. surplus : d.lru[i] \in gone
  <2> SUFFICES ASSUME surplus > 0
               PROVE  surplus \in 0 .. n /\ \A i \in 1 .. surplus : d.lru[i] \in gone
    OBVIOUS
  <2>1. surplus \in 1 .. n
    BY <1>3
  <2>2. gone = Cj!ToSet(SubSeq(d.lru, 1, surplus))
    OBVIOUS
  <2> DEFINE first == SubSeq(d.lru, 1, surplus)
  <2>3. /\ Len(first) = surplus /\ first \in Seq(Sessions)
        /\ \A i \in 1 .. surplus : first[i] = d.lru[i]
    <3>1. \A i \in 1 .. surplus : d.lru[i] \in Sessions
      BY <1>2, <2>1, ElementOfSeq
    <3> HIDE DEF surplus
    <3>2. /\ first \in Seq(Sessions)
          /\ Len(first) = IF 1 <= surplus THEN surplus - 1 + 1 ELSE 0
          /\ \A i \in 1 .. surplus - 1 + 1 : first[i] = d.lru[1 + i - 1]
      BY <2>1, <3>1, SubSeqProperties
    <3> HIDE DEF first
    <3>3. \A i \in 1 .. surplus : 1 + i - 1 = i
      BY <2>1
    <3> QED BY <2>1, <3>2, <3>3
  <2> HIDE DEF gone, first, surplus
  <2>4. \A i \in 1 .. surplus : i \in DOMAIN first
    BY <2>3
  <2>5. \A i \in 1 .. surplus : first[i] \in gone
    BY <2>2, <2>4 DEF Cj!ToSet, first
  <2> QED BY <2>1, <2>3, <2>5
<1> HIDE DEF gone, r
<1>5. /\ rest \in Seq(Sessions) /\ Len(rest) <= n
      /\ \A k : (\E i \in DOMAIN rest : rest[i] = k)
                 <=> k \notin gone /\ \E i \in DOMAIN d.lru : d.lru[i] = k
      /\ \A m \in 0 .. n : (\A i \in 1 .. m : d.lru[i] \in gone) => Len(rest) <= n - m
  BY <1>2, WithoutIs
<1> HIDE DEF rest
<1>6. Len(rest) <= MaxSessions
  <2>1. Len(rest) \in Nat
    BY <1>5
  <2> HIDE DEF n
  <2>2. CASE surplus > 0
    <3>1. surplus \in 0 .. n /\ n - surplus = MaxSessions
      BY <1>3, <1>4, <2>2
    <3> HIDE DEF surplus
    <3>2. Len(rest) <= n - surplus
      BY <1>4, <1>5, <2>2, <3>1
    <3> QED BY <3>1, <3>2
  <2>3. CASE ~(surplus > 0)
    BY <1>3, <1>5, <2>1, <2>3
  <2> QED BY <2>2, <2>3
<1>7. msgs \in [Sessions -> Transcript]
  BY <1>2, EmptySeq DEF Transcript
<1>8. ASSUME NEW k \in Sessions
      PROVE  /\ Len(msgs[k]) <= MaxRows
             /\ msgs[k] # <<>> => msgs[k][1] = Cj!Intro[1]
             /\ (\E i \in DOMAIN rest : rest[i] = k) <=> msgs[k] # <<>>
  <2>1. msgs[k] = IF k \in gone THEN <<>> ELSE d.msgs[k]
    OBVIOUS
  <2> HIDE DEF msgs
  <2>2. CASE k \in gone
    <3>1. msgs[k] = <<>> /\ Len(msgs[k]) = 0
      BY <2>1, <2>2, EmptySeq
    <3> QED BY <1>3, <1>5, <2>2, <3>1
  <2>3. CASE k \notin gone
    BY <1>2, <1>5, <2>1, <2>3
  <2> QED BY <2>2, <2>3
<1> HIDE DEF msgs
<1> QED BY <1>1, <1>5, <1>6, <1>7, <1>8 DEF StoreOK, Shaped, r

\* A session that is written goes to the end.
LEMMA TouchIs ==
    ASSUME NEW d, Shaped(d), NEW k \in Sessions
    PROVE  LET r == Cj!Touch(d, k)
           IN  /\ r.lru \in Seq(Sessions) /\ r.msgs = d.msgs /\ r = [lru |-> r.lru, msgs |-> d.msgs]
               /\ \A l : (\E i \in DOMAIN r.lru : r.lru[i] = l)
                          <=> l = k \/ \E i \in DOMAIN d.lru : d.lru[i] = l
               /\ (\E i \in DOMAIN d.lru : d.lru[i] = k) => Len(r.lru) <= Len(d.lru)
<1> DEFINE rest == Cj!Without(d.lru, {k})
           new == Append(rest, k)
           r == Cj!Touch(d, k)
<1>1. /\ d.lru \in Seq(Sessions) /\ d \in [lru : Seq(Sessions), msgs : [Sessions -> Transcript]]
      /\ Len(d.lru) \in Nat
  BY DEF Shaped
<1>2. /\ rest \in Seq(Sessions) /\ Len(rest) <= Len(d.lru)
      /\ \A l : (\E i \in DOMAIN rest : rest[i] = l)
                 <=> l \notin {k} /\ \E i \in DOMAIN d.lru : d.lru[i] = l
      /\ (\E i \in DOMAIN d.lru : d.lru[i] \in {k}) => Len(rest) < Len(d.lru)
  BY <1>1, WithoutIs
<1>3. r = [lru |-> new, msgs |-> d.msgs] /\ r.lru = new /\ r.msgs = d.msgs
  <2>1. r = [d EXCEPT !.lru = new]
    BY DEF Cj!Touch
  <2> HIDE DEF new, r
  <2> QED BY <1>1, <2>1
<1> HIDE DEF rest, r
<1>4. /\ new \in Seq(Sessions) /\ Len(new) = Len(rest) + 1
      /\ \A i \in 1 .. Len(rest) : new[i] = rest[i]
      /\ new[Len(rest) + 1] = k
  BY <1>2, AppendProperties
<1> HIDE DEF new
<1>5. /\ DOMAIN rest = 1 .. Len(rest) /\ Len(rest) \in Nat
      /\ DOMAIN new = DOMAIN rest \cup {Len(rest) + 1}
  BY <1>2, <1>4
<1>6. \A l : (\E i \in DOMAIN new : new[i] = l)
             <=> l = k \/ \E i \in DOMAIN d.lru : d.lru[i] = l
  <2>1. \A l : (\E i \in DOMAIN new : new[i] = l)
               <=> l = k \/ \E i \in DOMAIN rest : rest[i] = l
    BY <1>4, <1>5
  <2> QED BY <1>2, <2>1, Zenon
<1>7. (\E i \in DOMAIN d.lru : d.lru[i] = k) => Len(new) <= Len(d.lru)
  BY <1>1, <1>2, <1>4, <1>5
<1> QED BY <1>3, <1>4, <1>6, <1>7 DEF r

\* A session gets a transcript that it may have.
LEMMA WriteKeeps ==
    ASSUME NEW d, Shaped(d), NEW k \in Sessions, NEW t, Fits(t)
    PROVE  StoreOK(Cj!EnforceSessionLimit([Cj!Touch(d, k) EXCEPT !.msgs[k] = t]))
<1> DEFINE r == Cj!Touch(d, k)
           w == [r EXCEPT !.msgs[k] = t]
           msgs == [d.msgs EXCEPT ![k] = t]
<1>1. /\ r.lru \in Seq(Sessions) /\ r.msgs = d.msgs /\ r = [lru |-> r.lru, msgs |-> d.msgs]
      /\ \A l : (\E i \in DOMAIN r.lru : r.lru[i] = l)
                 <=> l = k \/ \E i \in DOMAIN d.lru : d.lru[i] = l
  BY TouchIs
<1>2. /\ d.msgs \in [Sessions -> Transcript]
      /\ \A l \in Sessions :
            /\ Len(d.msgs[l]) <= MaxRows
            /\ d.msgs[l] # <<>> => d.msgs[l][1] = Cj!Intro[1]
            /\ (\E i \in DOMAIN d.lru : d.lru[i] = l) <=> d.msgs[l] # <<>>
  BY DEF Shaped
<1> HIDE DEF r
<1>3. w = [lru |-> r.lru, msgs |-> msgs]
  BY <1>1
<1>4. msgs \in [Sessions -> Transcript] /\ msgs[k] = t
      /\ \A l \in Sessions \ {k} : msgs[l] = d.msgs[l]
  BY <1>2 DEF Fits, Begins
<1> HIDE DEF msgs
<1>5. Shaped(w)
  <2> HIDE DEF w
  <2>1. w \in [lru : Seq(Sessions), msgs : [Sessions -> Transcript]] /\ w.lru = r.lru /\ w.msgs = msgs
    BY <1>1, <1>3, <1>4
  <2>2. ASSUME NEW l \in Sessions
        PROVE  /\ Len(msgs[l]) <= MaxRows
               /\ msgs[l] # <<>> => msgs[l][1] = Cj!Intro[1]
               /\ (\E i \in DOMAIN r.lru : r.lru[i] = l) <=> msgs[l] # <<>>
    BY <1>1, <1>2, <1>4 DEF Fits, Begins
  <2> QED BY <2>1, <2>2 DEF Shaped
<1> HIDE DEF w
<1>6. StoreOK(Cj!EnforceSessionLimit(w))
  BY <1>5, LimitKeeps
<1> QED BY <1>6 DEF w, r

\* A session's transcript is empty or may be its own.
LEMMA OldFits ==
    ASSUME NEW d, Shaped(d), NEW k \in Sessions
    PROVE  /\ d.msgs[k] # <<>> => Fits(d.msgs[k])
           /\ Cj!Exists(d, k) => d.msgs[k] # <<>>
<1>1. d.lru \in Seq(Sessions) /\ d.msgs[k] \in Transcript /\ Len(d.msgs[k]) <= MaxRows
  BY DEF Shaped
<1>2. d.msgs[k] # <<>> => d.msgs[k][1] = Cj!Intro[1]
  BY DEF Shaped
<1>3. Cj!Exists(d, k) => \E i \in DOMAIN d.lru : d.lru[i] = k
  BY <1>1 DEF Cj!Exists, Cj!Contains
<1>4. (\E i \in DOMAIN d.lru : d.lru[i] = k) => d.msgs[k] # <<>>
  BY DEF Shaped
<1> QED BY <1>1, <1>2, <1>3, <1>4 DEF Fits, Begins

\* record_turn
LEMMA RecordTurnKeeps ==
    ASSUME NEW d, StoreOK(d), NEW k \in Sessions, NEW append,
           append = <<>> \/ \E m \in Cj!Messages : append = <<m>>
    PROVE  StoreOK(Cj!RecordTurn(d, k, Cj!Intro, append))
<1> DEFINE old == IF d.msgs[k] = <<>> THEN Cj!Intro ELSE d.msgs[k]
           new == IF append = <<>> THEN old ELSE Cj!Trimmed(old \o append)
           r == Cj!RecordTurn(d, k, Cj!Intro, append)
<1>1. Shaped(d) /\ Begins(old)
  BY OldFits, IntroIs DEF StoreOK, Fits, Begins
<1>2. r = IF append = <<>> /\ d.msgs[k] # <<>> THEN Cj!Touch(d, k)
          ELSE Cj!EnforceSessionLimit([Cj!Touch(d, k) EXCEPT !.msgs[k] = Cj!Capped(new)])
  BY DEF Cj!RecordTurn, Cj!WriteMessages
<1> HIDE DEF r
<1>3. CASE append = <<>> /\ d.msgs[k] # <<>>
  <2> DEFINE u == Cj!Touch(d, k)
  <2>1. /\ u.lru \in Seq(Sessions) /\ u.msgs = d.msgs /\ u = [lru |-> u.lru, msgs |-> d.msgs]
        /\ \A l : (\E i \in DOMAIN u.lru : u.lru[i] = l)
                   <=> l = k \/ \E i \in DOMAIN d.lru : d.lru[i] = l
        /\ (\E i \in DOMAIN d.lru : d.lru[i] = k) => Len(u.lru) <= Len(d.lru)
    BY <1>1, TouchIs
  <2> HIDE DEF u
  <2>2. /\ d.msgs \in [Sessions -> Transcript] /\ d.lru \in Seq(Sessions)
        /\ \A l \in Sessions :
              /\ Len(d.msgs[l]) <= MaxRows
              /\ d.msgs[l] # <<>> => d.msgs[l][1] = Cj!Intro[1]
              /\ (\E i \in DOMAIN d.lru : d.lru[i] = l) <=> d.msgs[l] # <<>>
    BY <1>1 DEF Shaped
  <2>3. u \in [lru : Seq(Sessions), msgs : [Sessions -> Transcript]]
    BY <2>1, <2>2
  <2>4. Shaped(u)
    BY <1>3, <2>1, <2>2, <2>3 DEF Shaped
  <2>5. Len(u.lru) <= MaxSessions
    <3>1. Len(u.lru) <= Len(d.lru) /\ Len(d.lru) <= MaxSessions
      BY <1>3, <2>1, <2>2 DEF StoreOK
    <3>2. Len(u.lru) \in Nat /\ Len(d.lru) \in Nat
      BY <2>1, <2>2
    <3> QED BY <3>1, <3>2, ChatAssumption
  <2> QED BY <1>2, <1>3, <2>4, <2>5 DEF StoreOK, u, r
<1>4. CASE ~(append = <<>> /\ d.msgs[k] # <<>>)
  <2>1. Begins(new)
    <3> HIDE DEF old
    <3>1. CASE append = <<>>
      BY <1>1, <3>1
    <3>2. CASE append # <<>>
      <4>1. PICK m \in Cj!Messages : append = <<m>>
        BY <3>2
      <4> DEFINE one == <<m>>
                 both == old \o one
      <4>2. one \in Seq(Cj!Messages) /\ Len(one) = 1
        OBVIOUS
      <4>3. old \in Seq(Cj!Messages) /\ Len(old) \in Nat /\ Len(old) # 0 /\ old[1] = Cj!Intro[1]
        BY <1>1 DEF Begins, Transcript
      <4> HIDE DEF one
      <4>4. /\ both \in Seq(Cj!Messages) /\ Len(both) = Len(old) + Len(one)
            /\ \A i \in 1 .. Len(old) + Len(one) :
                  both[i] = IF i <= Len(old) THEN old[i] ELSE one[i - Len(old)]
        BY <4>2, <4>3, ConcatProperties
      <4> HIDE DEF both
      <4>5. both[1] = Cj!Intro[1] /\ both # <<>>
        BY <4>2, <4>3, <4>4
      <4>6. Begins(both)
        BY <4>4, <4>5 DEF Begins, Transcript
      <4>7. new = Cj!Trimmed(both)
        BY <3>2, <4>1 DEF both, one
      <4> QED BY <4>6, <4>7, TrimmedIs
    <3> QED BY <3>1, <3>2
  <2> HIDE DEF new
  <2>2. Fits(Cj!Capped(new))
    BY <2>1, CappedIs DEF Fits
  <2> DEFINE t == Cj!Capped(new)
  <2>3. Fits(t) /\ r = Cj!EnforceSessionLimit([Cj!Touch(d, k) EXCEPT !.msgs[k] = t])
    BY <1>2, <1>4, <2>2
  <2> HIDE DEF t
  <2> QED BY <1>1, <2>3, WriteKeeps DEF r
<1> QED BY <1>3, <1>4

\* append_message_if_not_duplicate
LEMMA AppendKeeps ==
    ASSUME NEW d, StoreOK(d), NEW k \in Sessions, NEW m \in Cj!Messages, m.role # "system"
    PROVE  StoreOK(Cj!AppendUnlessLast(d, k, m))
<1> DEFINE t == Cj!Pruned(Append(d.msgs[k], m))
           r == Cj!AppendUnlessLast(d, k, m)
<1>1. Shaped(d) /\ d.msgs \in [Sessions -> Transcript]
  BY DEF StoreOK, Shaped
<1>2. CASE r = d
  BY <1>2
<1>3. CASE r # d
  <2>1. Cj!Exists(d, k) /\ r = Cj!AppendRow(d, k, m)
    BY <1>3 DEF Cj!AppendUnlessLast
  <2>2. Fits(d.msgs[k])
    BY <1>1, <2>1, OldFits
  <2>3. Fits(t)
    BY <2>2, PrunedIs DEF Fits
  <2>4. Cj!Touch(d, k).msgs = d.msgs
    BY <1>1, TouchIs
  <2>5. r = Cj!EnforceSessionLimit([Cj!Touch(d, k) EXCEPT !.msgs[k] = t])
    <3> DEFINE u == Cj!Touch(d, k)
    <3>1. r = Cj!EnforceSessionLimit([u EXCEPT !.msgs[k] = Cj!Pruned(Append(@, m))])
      BY <2>1 DEF Cj!AppendRow
    <3>2. u.msgs[k] = d.msgs[k]
      BY <2>4
    <3> HIDE DEF u, r
    <3>3. [u EXCEPT !.msgs[k] = Cj!Pruned(Append(@, m))] = [u EXCEPT !.msgs[k] = t]
      BY <3>2
    <3> QED BY <3>1, <3>3 DEF u
  <2> HIDE DEF t, r
  <2> QED BY <1>1, <2>3, <2>5, WriteKeeps DEF r
<1> QED BY <1>2, <1>3

\* pop_last_user_message_if_matches: the last message is a user's, so it is not
\* the first.
LEMMA PopKeepsStore ==
    ASSUME NEW d, StoreOK(d), NEW k \in Sessions, NEW content
    PROVE  StoreOK(Cj!PopLastUser(d, k, content))
<1> DEFINE old == d.msgs[k]
           n == Len(old)
           t == SubSeq(old, 1, n - 1)
           msgs == [d.msgs EXCEPT ![k] = t]
           r == Cj!PopLastUser(d, k, content)
<1>1. Shaped(d)
  BY DEF StoreOK
<1>2. CASE r = d
  BY <1>2
<1>3. CASE r # d
  <2>1. /\ old # <<>> /\ old[n] = [role |-> "user", content |-> content]
        /\ r = [d EXCEPT !.msgs[k] = t]
    BY <1>3 DEF Cj!PopLastUser, Cj!Last, Cj!Front
  <2>2. old[n].role # "system"
    BY <2>1
  <2>3. /\ old \in Seq(Cj!Messages) /\ n \in Nat /\ n # 0 /\ n <= MaxRows
        /\ old[1] = Cj!Intro[1]
    BY <1>1, <2>1, OldFits DEF Fits, Begins, Transcript
  <2>4. n # 1
    BY <2>2, <2>3, IntroIs
  <2>5. \A i \in 1 .. n : old[i] \in Cj!Messages
    BY <2>3, ElementOfSeq
  <2> HIDE DEF n, old
  <2>6. /\ t \in Seq(Cj!Messages) /\ Len(t) = n - 1
        /\ t[1] = old[1]
    <3>1. n - 1 \in Int /\ 1 <= n - 1 /\ (\A i \in 1 .. n - 1 : old[i] \in Cj!Messages)
      BY <2>3, <2>4, <2>5
    <3>2. /\ t \in Seq(Cj!Messages)
          /\ Len(t) = IF 1 <= n - 1 THEN (n - 1) - 1 + 1 ELSE 0
          /\ \A i \in 1 .. (n - 1) - 1 + 1 : t[i] = old[1 + i - 1]
      BY <3>1, SubSeqProperties
    <3> HIDE DEF t
    <3> QED BY <3>1, <3>2
  <2> HIDE DEF t
  <2>7. /\ t \in Transcript /\ t # <<>> /\ Len(t) <= MaxRows /\ t[1] = Cj!Intro[1]
    BY <2>3, <2>4, <2>6, ChatAssumption DEF Transcript
  <2>8. /\ d \in [lru : Seq(Sessions), msgs : [Sessions -> Transcript]]
        /\ \A l \in Sessions :
              /\ Len(d.msgs[l]) <= MaxRows
              /\ d.msgs[l] # <<>> => d.msgs[l][1] = Cj!Intro[1]
              /\ (\E i \in DOMAIN d.lru : d.lru[i] = l) <=> d.msgs[l] # <<>>
    BY <1>1 DEF Shaped
  <2>9. /\ msgs \in [Sessions -> Transcript] /\ msgs[k] = t
        /\ \A l \in Sessions \ {k} : msgs[l] = d.msgs[l]
    BY <2>7, <2>8
  <2>10. r = [d EXCEPT !.msgs = msgs]
    BY <2>1, <2>8
  <2> HIDE DEF r, msgs
  <2>11. r \in [lru : Seq(Sessions), msgs : [Sessions -> Transcript]] /\ r.lru = d.lru /\ r.msgs = msgs
    BY <2>8, <2>9, <2>10
  <2>12. ASSUME NEW l \in Sessions
         PROVE  /\ Len(msgs[l]) <= MaxRows
                /\ msgs[l] # <<>> => msgs[l][1] = Cj!Intro[1]
                /\ (\E i \in DOMAIN d.lru : d.lru[i] = l) <=> msgs[l] # <<>>
    BY <2>1, <2>7, <2>8, <2>9 DEF old
  <2>13. Shaped(r)
    BY <2>11, <2>12 DEF Shaped
  <2> QED BY <2>11, <2>13 DEF StoreOK, r
<1> QED BY <1>2, <1>3

-----------------------------------------------------------------------------
(***************************************************************************)
(* Chat requests and their jobs.  A permit that is not free is one of the  *)
(* streams that are not finished: a request starts a job once, and a       *)
(* stream leaves them once, with its first closer.                         *)
(***************************************************************************)
OpenStreams == {r \in ChatRequests : chatJob[r] \in {"streaming", "complete"}}
Recorded == {r \in ChatRequests : chatPc[r] \notin {"new", "missed", "claimed"}}

ChatTypes ==
    /\ chatPc \in [ChatRequests -> Cj!PCs] /\ chatJob \in [ChatRequests -> Cj!Jobs]
    /\ chatHolder \in [ChatRequests -> ChatRequests \cup {Cj!None}]
    /\ chatInflight \in [Cj!Tokens -> ChatRequests \cup {Cj!None}]
    /\ chatOutcome \in [Cj!Tokens -> {Cj!None, "ok", "empty", "error"}]
    /\ chatReleasers \in [ChatRequests -> SUBSET {"generator", "close"}]
    /\ chatFailures \in 0 .. MaxDbFailures /\ chatLost \subseteq Cj!Tokens

NoJobYet ==
    \A r \in ChatRequests :
        chatPc[r] \in {"new", "missed", "claimed", "recorded"} => chatJob[r] = "none"

PermitsAreOut == chatSlots \in Nat /\ chatSlots + Cardinality(OpenStreams) = StreamSlots

\* A question is written for a request that is recorded.
AskedByRecorded ==
    /\ chatAsked \in [Cj!Tokens -> Nat]
    /\ \A t \in Cj!Tokens : chatAsked[t] <= Cardinality(Recorded)

ChatInv == ChatTypes /\ StoreOK(chatDb) /\ NoJobYet /\ PermitsAreOut /\ AskedByRecorded

\* What is said in a conversation.
LEMMA ChatRows ==
    ASSUME NEW r \in ChatRequests
    PROVE  /\ Cj!Tok(r) \in Cj!Tokens /\ Cj!Key(r) \in Sessions
           /\ Cj!Question(r) \in Cj!Messages
           /\ Cj!Answer(r) \in Cj!Messages /\ Cj!Answer(r).role # "system"
<1>1. Cj!Tok(r) \in Cj!Tokens /\ Cj!Key(r) \in Sessions
  BY ChatAssumption DEF Cj!Tok, Cj!Tokens, Cj!Key
<1> QED BY <1>1 DEF Cj!Question, Cj!Answer, Cj!Messages

LEMMA ChatCount ==
    ASSUME NEW S \in SUBSET ChatRequests
    PROVE  IsFiniteSet(S) /\ Cardinality(S) \in Nat /\ Cardinality(S) <= Cardinality(ChatRequests)
  BY ChatAssumption, FS_Subset, FS_CardinalityType

LEMMA InitChatInv == Cj!Init => ChatInv
<1> SUFFICES ASSUME Cj!Init PROVE ChatInv
  OBVIOUS
<1>1. ChatTypes
  BY ChatAssumption DEF Cj!Init, ChatTypes, Cj!PCs, Cj!Jobs
<1>2. NoJobYet
  BY DEF Cj!Init, NoJobYet
<1>3. OpenStreams = {} /\ Recorded = {} /\ Cardinality({}) = 0
  BY FS_EmptySet DEF Cj!Init, OpenStreams, Recorded
<1>4. PermitsAreOut
  BY <1>3, ChatAssumption DEF Cj!Init, PermitsAreOut
<1>5. AskedByRecorded
  BY <1>3 DEF Cj!Init, AskedByRecorded
<1>6. StoreOK(chatDb)
  <2> DEFINE msgs == [k \in Sessions |-> <<>>]
  <2>1. chatDb = [lru |-> <<>>, msgs |-> msgs]
    BY DEF Cj!Init, Cj!EmptyStore
  <2>2. /\ <<>> \in Seq(Sessions) /\ Len(<<>>) = 0 /\ DOMAIN <<>> = {}
        /\ msgs \in [Sessions -> Transcript] /\ \A k \in Sessions : msgs[k] = <<>>
    BY EmptySeq DEF Transcript
  <2> HIDE DEF msgs
  <2>3. chatDb.lru = <<>> /\ chatDb.msgs = msgs
    BY <2>1
  <2>4. chatDb \in [lru : Seq(Sessions), msgs : [Sessions -> Transcript]]
    BY <2>1, <2>2
  <2> QED BY <2>2, <2>3, <2>4, ChatAssumption DEF StoreOK, Shaped
<1> QED BY <1>1, <1>2, <1>4, <1>5, <1>6 DEF ChatInv

\* A transaction leaves the store as it should be, whether it happens or fails.
LEMMA WrittenKeeps ==
    ASSUME StoreOK(chatDb), NEW new, StoreOK(new), Cj!Written(new)
    PROVE  StoreOK(chatDb') /\ (chatFailures \in 0 .. MaxDbFailures => chatFailures' \in 0 .. MaxDbFailures)
<1>1. chatDb' = new \/ chatDb' = chatDb
  BY DEF Cj!Written
<1>2. chatFailures \in 0 .. MaxDbFailures => chatFailures' \in 0 .. MaxDbFailures
  BY ChatAssumption DEF Cj!Written
<1> QED BY <1>1, <1>2

\* The store after each action, and the failures that were spent.
StoreKept == StoreOK(chatDb') /\ chatFailures' \in 0 .. MaxDbFailures

LEMMA AnswerWritten ==
    ASSUME ChatInv, NEW r \in ChatRequests,
           Cj!Written(Cj!AppendUnlessLast(chatDb, Cj!Key(r), Cj!Answer(r)))
    PROVE  StoreKept
<1>1. StoreOK(Cj!AppendUnlessLast(chatDb, Cj!Key(r), Cj!Answer(r)))
  BY ChatRows, AppendKeeps DEF ChatInv
<1> QED BY <1>1, WrittenKeeps DEF ChatInv, ChatTypes, StoreKept

LEMMA QuestionRolledBack ==
    ASSUME ChatInv, NEW r \in ChatRequests, Cj!Written(Cj!RolledBack(r))
    PROVE  StoreKept
<1>1. StoreOK(Cj!RolledBack(r))
  BY ChatRows, PopKeepsStore DEF ChatInv, Cj!RolledBack
<1> QED BY <1>1, WrittenKeeps DEF ChatInv, ChatTypes, StoreKept

LEMMA StoreStep ==
    ASSUME ChatInv, NEW r \in ChatRequests,
           Cj!Handle(r) \/ Cj!RecordFails(r) \/ Cj!RunJob(r) \/ Cj!StreamCompletes(r)
                \/ Cj!CloseStream(r)
    PROVE  StoreKept
<1>1. CASE Cj!Written(Cj!AppendUnlessLast(chatDb, Cj!Key(r), Cj!Answer(r)))
  BY <1>1, AnswerWritten
<1>2. CASE Cj!Written(Cj!RolledBack(r))
  BY <1>2, QuestionRolledBack
<1>3. CASE UNCHANGED <<chatDb, chatFailures>>
  BY <1>3 DEF ChatInv, ChatTypes, StoreKept
<1>4. CASE Cj!Record(r)
  <2> DEFINE append == IF Cj!Mine(r) THEN <<Cj!Question(r)>> ELSE <<>>
  <2>1. append = <<>> \/ \E m \in Cj!Messages : append = <<m>>
    BY ChatRows
  <2>2. chatDb' = Cj!RecordTurn(chatDb, Cj!Key(r), Cj!Intro, append) /\ chatFailures' = chatFailures
    BY <1>4 DEF Cj!Record
  <2> HIDE DEF append
  <2> QED BY <2>1, <2>2, ChatRows, RecordTurnKeeps DEF ChatInv, ChatTypes, StoreKept
<1>5. CASE Cj!RecordFails(r)
  BY <1>5, ChatAssumption DEF Cj!RecordFails, ChatInv, ChatTypes, StoreKept
<1>6. CASE Cj!Handle(r) /\ ~Cj!Record(r)
  BY <1>1, <1>2, <1>3, <1>6
  DEF Cj!Handle, Cj!CheckOutcome, Cj!Claim, Cj!Join, Cj!Submit, Cj!StartStream, Cj!Wake,
      Cj!StillFetching
<1>7. CASE Cj!RunJob(r) \/ Cj!StreamCompletes(r)
  BY <1>3, <1>7 DEF Cj!RunJob, Cj!StreamCompletes
<1>8. CASE Cj!CloseStream(r)
  BY <1>1, <1>2, <1>3, <1>8 DEF Cj!CloseStream, Cj!FinishStream
<1> QED BY <1>4, <1>5, <1>6, <1>7, <1>8

ChatAct(r) ==
    Cj!Handle(r) \/ Cj!RecordFails(r) \/ Cj!RunJob(r) \/ Cj!StreamCompletes(r) \/ Cj!CloseStream(r)

LEMMA ChatTypesStep ==
    ASSUME ChatInv, NEW r \in ChatRequests, ChatAct(r) PROVE ChatTypes'
<1>1. chatFailures' \in 0 .. MaxDbFailures
  BY StoreStep DEF ChatAct, StoreKept
<1>2. Cj!Tok(r) \in Cj!Tokens
  BY ChatRows
<1>3. chatPc' \in [ChatRequests -> Cj!PCs]
  BY DEF ChatInv, ChatTypes, ChatAct, Cj!PCs, Cj!Handle, Cj!CheckOutcome, Cj!Claim, Cj!Record,
         Cj!RecordFails, Cj!Join, Cj!Submit, Cj!StartStream, Cj!Wake, Cj!StillFetching,
         Cj!RunJob, Cj!StreamCompletes, Cj!CloseStream, Cj!Goes
<1>4. chatJob' \in [ChatRequests -> Cj!Jobs]
  BY DEF ChatInv, ChatTypes, ChatAct, Cj!Jobs, Cj!Handle, Cj!CheckOutcome, Cj!Claim, Cj!Record,
         Cj!RecordFails, Cj!Join, Cj!Submit, Cj!StartStream, Cj!Wake, Cj!StillFetching,
         Cj!RunJob, Cj!StreamCompletes, Cj!CloseStream, Cj!FinishStream, Cj!Ended
<1>5. chatHolder' \in [ChatRequests -> ChatRequests \cup {Cj!None}]
  BY <1>2 DEF ChatInv, ChatTypes, ChatAct, Cj!Handle, Cj!CheckOutcome, Cj!Claim, Cj!Record,
         Cj!RecordFails, Cj!Join, Cj!Submit, Cj!StartStream, Cj!Wake, Cj!StillFetching,
         Cj!RunJob, Cj!StreamCompletes, Cj!CloseStream
<1>6. chatInflight' \in [Cj!Tokens -> ChatRequests \cup {Cj!None}]
  BY <1>2 DEF ChatInv, ChatTypes, ChatAct, Cj!Handle, Cj!CheckOutcome, Cj!Claim, Cj!Record,
         Cj!RecordFails, Cj!Join, Cj!Submit, Cj!StartStream, Cj!Wake, Cj!StillFetching,
         Cj!RunJob, Cj!StreamCompletes, Cj!CloseStream, Cj!FinishStream, Cj!Freed
<1>7. chatOutcome' \in [Cj!Tokens -> {Cj!None, "ok", "empty", "error"}]
  BY <1>2 DEF ChatInv, ChatTypes, ChatAct, Cj!Handle, Cj!CheckOutcome, Cj!Claim, Cj!Record,
         Cj!RecordFails, Cj!Join, Cj!Submit, Cj!StartStream, Cj!Wake, Cj!StillFetching,
         Cj!RunJob, Cj!StreamCompletes, Cj!CloseStream, Cj!FinishStream, Cj!Kept
<1>8. chatReleasers' \in [ChatRequests -> SUBSET {"generator", "close"}]
  BY DEF ChatInv, ChatTypes, ChatAct, Cj!Handle, Cj!CheckOutcome, Cj!Claim, Cj!Record,
         Cj!RecordFails, Cj!Join, Cj!Submit, Cj!StartStream, Cj!Wake, Cj!StillFetching,
         Cj!RunJob, Cj!StreamCompletes, Cj!CloseStream
<1>9. chatLost' \subseteq Cj!Tokens
  BY <1>2 DEF ChatInv, ChatTypes, ChatAct, Cj!Handle, Cj!CheckOutcome, Cj!Claim, Cj!Record,
         Cj!RecordFails, Cj!Join, Cj!Submit, Cj!StartStream, Cj!Wake, Cj!StillFetching,
         Cj!RunJob, Cj!StreamCompletes, Cj!CloseStream
<1> QED BY <1>1, <1>3, <1>4, <1>5, <1>6, <1>7, <1>8, <1>9 DEF ChatTypes

\* A job is started once, by its request.
LEMMA NoJobYetStep ==
    ASSUME ChatInv, NEW r \in ChatRequests, ChatAct(r) PROVE NoJobYet'
  BY DEF ChatInv, ChatTypes, NoJobYet, ChatAct, Cj!Handle, Cj!CheckOutcome, Cj!Claim, Cj!Record,
         Cj!RecordFails, Cj!Join, Cj!Submit, Cj!StartStream, Cj!Wake, Cj!StillFetching,
         Cj!RunJob, Cj!StreamCompletes, Cj!CloseStream, Cj!FinishStream, Cj!Goes, Cj!Ended

\* A permit is taken with a stream that starts, and given back with one that ends.
LEMMA PermitStep ==
    ASSUME ChatInv, NEW r \in ChatRequests, ChatAct(r) PROVE PermitsAreOut'
<1> DEFINE S == OpenStreams
           T == OpenStreams'
           a == chatSlots
           b == chatSlots'
<1>1. /\ IsFiniteSet(S) /\ Cardinality(S) \in Nat /\ a \in Nat
      /\ a + Cardinality(S) = StreamSlots
  BY ChatCount DEF OpenStreams, ChatInv, PermitsAreOut
<1>2. /\ chatJob \in [ChatRequests -> Cj!Jobs]
      /\ chatPc[r] \in {"new", "missed", "claimed", "recorded"} => chatJob[r] = "none"
  BY DEF ChatInv, ChatTypes, NoJobYet
<1>3. \/ S = T /\ a = b
      \/ r \notin S /\ T = S \cup {r} /\ a > 0 /\ b = a - 1
      \/ r \in S /\ T = S \ {r} /\ b = a + 1
  <2>1. CASE Cj!StartStream(r)
    BY <1>2, <2>1 DEF Cj!StartStream, Cj!Ended, OpenStreams
  <2>2. CASE Cj!CloseStream(r)
    BY <1>2, <2>2 DEF Cj!CloseStream, Cj!FinishStream, Cj!Ended, OpenStreams
  <2>3. CASE Cj!Submit(r) \/ Cj!RunJob(r) \/ Cj!StreamCompletes(r)
    BY <1>2, <2>3 DEF Cj!Submit, Cj!RunJob, Cj!StreamCompletes, Cj!Ended, OpenStreams
  <2>4. CASE UNCHANGED <<chatJob, chatSlots>>
    BY <2>4 DEF OpenStreams
  <2> QED BY <2>1, <2>2, <2>3, <2>4
          DEF ChatAct, Cj!Handle, Cj!CheckOutcome, Cj!Claim, Cj!Record, Cj!RecordFails, Cj!Join,
              Cj!Wake, Cj!StillFetching
<1> HIDE DEF S, T, a, b
<1>4. CASE S = T /\ a = b
  BY <1>1, <1>4 DEF PermitsAreOut, S, T, a, b
<1>5. CASE r \notin S /\ T = S \cup {r} /\ a > 0 /\ b = a - 1
  <2>1. Cardinality(T) = Cardinality(S) + 1
    BY <1>1, <1>5, FS_AddElement
  <2>2. b \in Nat /\ b + Cardinality(T) = StreamSlots
    BY <1>1, <1>5, <2>1, ChatAssumption
  <2> QED BY <2>2 DEF PermitsAreOut, T, b
<1>6. CASE r \in S /\ T = S \ {r} /\ b = a + 1
  <2>1. Cardinality(T) = Cardinality(S) - 1
    BY <1>1, <1>6, FS_RemoveElement
  <2>2. b \in Nat /\ b + Cardinality(T) = StreamSlots
    BY <1>1, <1>6, <2>1, ChatAssumption
  <2> QED BY <2>2 DEF PermitsAreOut, T, b
<1> QED BY <1>3, <1>4, <1>5, <1>6

\* A request is recorded once, with at most one question.
LEMMA AskedStep ==
    ASSUME ChatInv, NEW r \in ChatRequests, ChatAct(r) PROVE AskedByRecorded'
<1> DEFINE S == Recorded
           T == Recorded'
<1>1. IsFiniteSet(S) /\ IsFiniteSet(T) /\ Cardinality(S) \in Nat /\ Cardinality(T) \in Nat
  BY ChatCount DEF Recorded
<1>2. /\ chatAsked \in [Cj!Tokens -> Nat] /\ Cj!Tok(r) \in Cj!Tokens
      /\ \A t \in Cj!Tokens : chatAsked[t] <= Cardinality(S)
      /\ chatPc \in [ChatRequests -> Cj!PCs]
  BY ChatRows DEF ChatInv, ChatTypes, AskedByRecorded
<1>3. \/ r \notin S /\ T = S \cup {r} /\ chatAsked' \in {chatAsked, [chatAsked EXCEPT ![Cj!Tok(r)] = @ + 1]}
      \/ S \subseteq T /\ chatAsked' = chatAsked
  <2>1. CASE Cj!Record(r)
    BY <1>2, <2>1 DEF Cj!Record, Cj!Goes, Recorded
  <2>2. CASE ~Cj!Record(r)
    BY <1>2, <2>2
    DEF ChatAct, Cj!Handle, Cj!CheckOutcome, Cj!Claim, Cj!RecordFails, Cj!Join, Cj!Submit,
        Cj!StartStream, Cj!Wake, Cj!StillFetching, Cj!RunJob, Cj!StreamCompletes,
        Cj!CloseStream, Cj!Goes, Recorded
  <2> QED BY <2>1, <2>2
<1> HIDE DEF S, T
<1>4. CASE r \notin S /\ T = S \cup {r} /\ chatAsked' \in {chatAsked, [chatAsked EXCEPT ![Cj!Tok(r)] = @ + 1]}
  <2>1. Cardinality(T) = Cardinality(S) + 1
    BY <1>1, <1>4, FS_AddElement
  <2>2. /\ chatAsked' \in [Cj!Tokens -> Nat]
        /\ \A t \in Cj!Tokens : chatAsked'[t] <= chatAsked[t] + 1
    BY <1>2, <1>4
  <2>3. \A t \in Cj!Tokens : chatAsked'[t] <= Cardinality(T)
    BY <1>1, <1>2, <2>1, <2>2
  <2> QED BY <2>2, <2>3 DEF AskedByRecorded, T
<1>5. CASE S \subseteq T /\ chatAsked' = chatAsked
  <2>1. Cardinality(S) <= Cardinality(T)
    BY <1>1, <1>5, FS_Subset
  <2>2. \A t \in Cj!Tokens : chatAsked'[t] <= Cardinality(T)
    BY <1>1, <1>2, <1>5, <2>1
  <2> QED BY <1>2, <1>5, <2>2 DEF AskedByRecorded, T
<1> QED BY <1>3, <1>4, <1>5

LEMMA NextChatInv == ASSUME ChatInv, [Cj!Next]_(Cj!vars) PROVE ChatInv'
<1>1. ASSUME NEW r \in ChatRequests, ChatAct(r) PROVE ChatInv'
  <2>1. StoreOK(chatDb')
    BY <1>1, StoreStep DEF ChatAct, StoreKept
  <2>2. StoreOK(chatDb)'
    BY <2>1
  <2> QED BY <1>1, <2>2, ChatTypesStep, NoJobYetStep, PermitStep, AskedStep DEF ChatInv
<1>2. CASE UNCHANGED Cj!vars
  <2>1. UNCHANGED <<chatDb, chatPc, chatHolder, chatJob, chatInflight, chatOutcome, chatSlots,
                    chatReleasers, chatAsked, chatFailures, chatLost>>
    BY <1>2 DEF Cj!vars
  <2>2. StoreOK(chatDb)' /\ ChatTypes' /\ NoJobYet'
    BY <2>1 DEF ChatInv, ChatTypes, NoJobYet
  <2>3. PermitsAreOut' /\ AskedByRecorded'
    BY <2>1 DEF ChatInv, PermitsAreOut, OpenStreams, AskedByRecorded, Recorded
  <2> QED BY <2>2, <2>3 DEF ChatInv
<1> QED BY <1>1, <1>2 DEF Cj!Next, ChatAct

\* What the run checks follows.
LEMMA ChatInvMeans == ASSUME ChatInv PROVE SlotsExact
<1>1. /\ \A S : Cj!Cardinality(S) = Cardinality(S)
      /\ Cardinality(Recorded) \in Nat /\ Cardinality(Recorded) <= Cardinality(ChatRequests)
      /\ Cardinality(OpenStreams) \in Nat /\ Cardinality(ChatRequests) \in Nat
  BY ChatItems, ChatCount, ChatAssumption, FS_CardinalityType DEF Recorded, OpenStreams
<1>2. chatSlots \in 0 .. StreamSlots /\ chatSlots + Cardinality(OpenStreams) = StreamSlots
  BY <1>1, ChatAssumption DEF ChatInv, PermitsAreOut
<1>3. chatAsked \in [Cj!Tokens -> 0 .. Cj!Cardinality(ChatRequests)]
  BY <1>1 DEF ChatInv, AskedByRecorded
<1>4. /\ chatDb.lru \in Seq(Sessions) /\ Len(chatDb.lru) <= MaxSessions
      /\ \A k \in Sessions :
            /\ chatDb.msgs[k] \in Seq(Cj!Messages) /\ Len(chatDb.msgs[k]) <= MaxRows
            /\ chatDb.msgs[k] # <<>> => chatDb.msgs[k][1] = Cj!Intro[1]
  BY DEF ChatInv, StoreOK, Shaped, Transcript
<1>5. Cj!ToSet(chatDb.lru) \subseteq Sessions
  BY <1>4 DEF Cj!ToSet
<1>6. Cj!TypeOK
  BY <1>2, <1>3, <1>4, <1>5 DEF ChatInv, ChatTypes, Cj!TypeOK
<1>7. Cj!SlotsExact
  BY <1>1, <1>2, Zenon DEF Cj!SlotsExact, OpenStreams
<1>8. Cj!IntroLeads
  BY <1>4 DEF Cj!IntroLeads
<1> QED BY <1>6, <1>7, <1>8 DEF SlotsExact

\* However a stream ends, and whoever of its two closers comes first, its permit
\* is back once (routes/api_analysis.py); and no trim, prune, rollback or
\* eviction leaves a transcript that is too long or begins without its
\* introduction (utils/chat_history.py).
THEOREM SlotsExactHolds == Cj!Spec => []SlotsExact
<1>1. Cj!Init => ChatInv
  BY InitChatInv
<1>2. ChatInv /\ [Cj!Next]_(Cj!vars) => ChatInv'
  BY NextChatInv
<1>3. ChatInv => SlotsExact
  BY ChatInvMeans
<1>4. QED BY <1>1, <1>2, <1>3, PTL DEF Cj!Spec
=============================================================================
