------------------------------ MODULE ToolLoop ------------------------------
(***************************************************************************)
(* The agent loop of a chat with tools, in its two versions                *)
(* (call_mistral_chat_with_tools and call_openai_chat_with_tools).  Each   *)
(* turn asks the model, judges the tool calls in its answer, appends the   *)
(* assistant message, runs the tools on a few workers and appends one tool *)
(* message per call in the order of the calls.  A call is reduced to what  *)
(* the judgement and its tool depend on.                                   *)
(***************************************************************************)
EXTENDS Naturals, Sequences, FiniteSets, Places

CONSTANTS Iterations,  \* max_tool_iterations
          MaxPerTurn,  \* max_tool_calls_per_turn
          Workers,     \* of the thread pool
          HistorySlots,\* of yfinance_history_semaphore
          Shapes       \* the calls a model may make, of AllShapes

\* "quick": answered from caches; "slow": may need a history request; "huge":
\* arguments too large; "junk": no object; "odd": its function is no object;
\* "bare": without an id; "long": its id is longer than max_tool_call_id_chars.
AllShapes == {"quick", "slow", "huge", "junk", "odd", "bare", "long"}

VARIABLES
    provider,  \* which of the two loops
    turn,      \* iteration
    pc,
    calls,     \* the calls kept of the answer
    said,      \* the ids in the last assistant message
    told,      \* the ids of the tool messages that follow it
    task,      \* per call: how far its worker is
    raised     \* a tool call ended the loop by an exception

vars == <<provider, turn, pc, calls, said, told, task, raised>>

Stages == {"new", "running", "waiting", "asking", "done"}
TypeOK ==
    /\ provider \in {"mistral", "compat"} /\ turn \in 0 .. Iterations
    /\ pc \in {"ask", "run", "final", "end"} /\ raised \in BOOLEAN
    /\ Len(calls) <= MaxPerTurn
    /\ \A i \in DOMAIN calls : calls[i] \in AllShapes
    /\ \A i \in DOMAIN task : task[i] \in Stages
    /\ Cardinality({i \in DOMAIN task : task[i] \in {"running", "waiting", "asking"}})
          <= Workers
    /\ Cardinality({i \in DOMAIN task : task[i] = "asking"}) <= HistorySlots

Init ==
    /\ provider \in {"mistral", "compat"} /\ turn = 0 /\ pc = "ask"
    /\ calls = <<>> /\ said = <<>> /\ told = <<>> /\ task = <<>>
    /\ raised = FALSE

-----------------------------------------------------------------------------
(* A turn.                                                                 *)

OutOfTurns == turn + 1 = Iterations
Ended == pc' = "end" /\ UNCHANGED <<calls, said, told, task, raised>>

\* An error, or a text.  The Mistral loop asks once more for a schema that
\* the turns before the last one were not given.
AnswersText ==
    /\ pc = "ask"
    /\ \/ Ended
       \/ /\ provider = "mistral" /\ ~OutOfTurns /\ pc' = "final"
          /\ said' = <<>> /\ told' = <<>>
          /\ UNCHANGED <<calls, task, raised>>
    /\ UNCHANGED <<provider, turn>>

Cut(asked) == IF Len(asked) < MaxPerTurn THEN Len(asked) ELSE MaxPerTurn
Has(asked, shape) == \E i \in DOMAIN asked : asked[i] = shape
Refused(asked) ==
    IF provider = "mistral"
    THEN Len(asked) > MaxPerTurn \/ \E shape \in {"junk", "huge", "long"} : Has(asked, shape)
    ELSE \A i \in 1 .. Cut(asked) : asked[i] = "junk"
\* Those of the first n calls that are objects, in their order.
Objects(asked, n) == ItemsAt(asked, {i \in 1 .. n : asked[i] # "junk"})
\* The compatible loop cuts and filters before it builds the message.
Kept(asked) == IF provider = "mistral" THEN asked ELSE Objects(asked, Cut(asked))

\* The message repeats the ids the model gave; a call without one has none.
SaidId(asked, i) == IF asked[i] = "bare" THEN 0 ELSE i
MessageMutant(asked) ==  \* the message repeats what was cut
    LET all == Objects(asked, Len(asked))
    IN  [i \in DOMAIN all |-> SaidId(all, i)]
Message(asked) == [i \in DOMAIN Kept(asked) |-> SaidId(Kept(asked), i)]
\* Its tool message makes one up, and cuts one that is too long: to an id the
\* message does not carry.
ToldId(i) == IF calls[i] = "long" THEN 0 ELSE i

AnswersCalls ==
    /\ pc = "ask"
    /\ \E n \in 1 .. MaxPerTurn + 1 : \E asked \in [1 .. n -> Shapes] :
          IF Refused(asked) THEN Ended
          ELSE /\ calls' = Kept(asked) /\ said' = Message(asked) /\ told' = <<>>
               /\ task' = [i \in DOMAIN Kept(asked) |-> "new"]
               /\ pc' = "run" /\ UNCHANGED raised
    /\ UNCHANGED <<provider, turn>>

-----------------------------------------------------------------------------
(* The tools of a turn: executor.map starts them in order.                 *)

Busy == {i \in DOMAIN task : task[i] \in {"running", "waiting", "asking"}}
Moves(i, stage) ==
    /\ task' = [task EXCEPT ![i] = stage]
    /\ UNCHANGED <<provider, turn, pc, calls, said, told>>

Starts(i) ==
    /\ pc = "run" /\ task[i] = "new" /\ Cardinality(Busy) < Workers
    /\ \A j \in 1 .. i - 1 : task[j] # "new"
    /\ Moves(i, "running") /\ UNCHANGED raised

\* execute_mistral_tool_call: no tool lets an exception out, but looking at
\* a function that is no object does, which only the Mistral loop catches.
Executes(i) ==
    /\ pc = "run" /\ task[i] = "running" /\ Moves(i, "done")
    /\ raised' = (raised \/ (calls[i] = "odd" /\ provider = "compat"))
\* The quote and the technical levels: the history semaphore, for a while.
Needs(i) ==
    /\ pc = "run" /\ task[i] = "running" /\ calls[i] = "slow"
    /\ Moves(i, "waiting") /\ UNCHANGED raised
GetsSlot(i) ==
    /\ pc = "run" /\ task[i] = "waiting"
    /\ Cardinality({j \in DOMAIN task : task[j] = "asking"}) < HistorySlots
    /\ Moves(i, "asking") /\ UNCHANGED raised
TimesOut(i) ==
    /\ pc = "run" /\ task[i] = "waiting" /\ Moves(i, "done") /\ UNCHANGED raised
Fetched(i) ==
    /\ pc = "run" /\ task[i] = "asking" /\ Moves(i, "done") /\ UNCHANGED raised

\* All results are in: the messages follow in the order of the calls.
Appends ==
    /\ pc = "run" /\ \A i \in DOMAIN task : task[i] = "done"
    /\ task' = <<>>
    /\ IF raised THEN pc' = "end" /\ UNCHANGED <<turn, told>>
       ELSE /\ told' = [i \in DOMAIN calls |-> ToldId(i)]
            /\ turn' = turn + 1
            /\ pc' = IF OutOfTurns THEN "final" ELSE "ask"
    /\ UNCHANGED <<provider, calls, said, raised>>

\* The synthesis without tools, whatever it answers.
Synthesis ==
    /\ pc = "final" /\ Ended /\ UNCHANGED <<provider, turn>>

Tool(i) ==
    Starts(i) \/ Executes(i) \/ Needs(i) \/ GetsSlot(i) \/ TimesOut(i) \/ Fetched(i)
Next ==
    \/ AnswersText \/ AnswersCalls \/ Appends \/ Synthesis
    \/ \E i \in DOMAIN task : Tool(i)
Spec == Init /\ [][Next]_vars

-----------------------------------------------------------------------------
(* When the model is asked again, the assistant message with the calls is  *)
(* followed by exactly one tool message per call, under the id the call    *)
(* has there: "the assistant turn must reference exactly the tool_call_ids *)
(* that get executed below, otherwise providers reject the next request"   *)
(* (openai_service.py:1360-1364).  TLC refutes it with Shapes that include *)
(* "bare" (:1393, ai_service.py:1660-1661) or "long" (:1394-1395).         *)
EveryCallAnswered == pc \in {"ask", "final"} => said = told
=============================================================================
