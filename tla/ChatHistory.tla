----------------------------- MODULE ChatHistory -----------------------------
(***************************************************************************)
(* The chat store: sessions in the order of their last access and the      *)
(* messages of each.  Every operation runs in one transaction that is      *)
(* tried again while the database is busy, so each is one operator on the  *)
(* whole store.  A message is a record with a role and a content.          *)
(***************************************************************************)
EXTENDS Integers, Sequences, FiniteSets, SequencesExt, Places

CONSTANTS Keys,         \* the sessions
          MaxSessions,  \* max_sessions
          MaxRows,      \* max_msgs_per_session
          MaxMsgs       \* CHAT_HISTORY_MAX_MSGS, the trim of record_turn

\* chat_sessions by last_accessed, and the rows of chat_messages by id.
EmptyStore == [lru |-> <<>>, msgs |-> [k \in Keys |-> <<>>]]

Exists(db, k) == Contains(db.lru, k)

LastN(s, n) == SubSeq(s, Len(s) - n + 1, Len(s))
Without(keys, gone) == ItemsAt(keys, {i \in DOMAIN keys : keys[i] \notin gone})

Touch(db, k) == [db EXCEPT !.lru = Append(Without(@, {k}), k)]

\* _enforce_session_limit: the sessions that were not accessed for longest go.
EnforceSessionLimit(db) ==
    LET surplus == Len(db.lru) - MaxSessions
        gone == IF surplus > 0 THEN ToSet(SubSeq(db.lru, 1, surplus)) ELSE {}
    IN [lru |-> Without(db.lru, gone),
        msgs |-> [k \in Keys |-> IF k \in gone THEN <<>> ELSE db.msgs[k]]]

\* _write_messages: the rows of the session are replaced.
Capped(msgs) ==
    IF Len(msgs) <= MaxRows THEN msgs
    ELSE IF Head(msgs).role = "system" THEN <<Head(msgs)>> \o LastN(msgs, MaxRows - 1)
    ELSE LastN(msgs, MaxRows)

WriteMessages(db, k, msgs) ==
    EnforceSessionLimit([Touch(db, k) EXCEPT !.msgs[k] = Capped(msgs)])

\* _append_message_row: the oldest rows go that are not the system's.
Pruned(msgs) ==
    LET surplus == Len(msgs) - MaxRows
        others == {i \in DOMAIN msgs : msgs[i].role # "system"}
        doomed == {i \in others : Cardinality({j \in others : j <= i}) <= surplus}
    IN IF surplus <= 0 THEN msgs ELSE ItemsAt(msgs, DOMAIN msgs \ doomed)

AppendRow(db, k, m) ==
    EnforceSessionLimit([Touch(db, k) EXCEPT !.msgs[k] = Pruned(Append(@, m))])

\* record_turn: an empty session gets its introduction; a message is appended
\* and the transcript trimmed, or the session only touched.
Trimmed(msgs) ==
    IF Len(msgs) <= MaxMsgs THEN msgs
    ELSE <<Head(msgs)>> \o LastN(msgs, MaxMsgs - 1)

RecordTurn(db, k, init, append) ==
    LET old == IF db.msgs[k] = <<>> THEN init ELSE db.msgs[k]
        new == IF append = <<>> THEN old ELSE Trimmed(old \o append)
    IN IF append = <<>> /\ db.msgs[k] # <<>> THEN Touch(db, k)
       ELSE WriteMessages(db, k, new)

\* append_message_if_not_duplicate; a session that is gone stays gone.
AppendUnlessLast(db, k, m) ==
    IF ~Exists(db, k) \/ (db.msgs[k] # <<>> /\ Last(db.msgs[k]).content = m.content)
    THEN db ELSE AppendRow(db, k, m)

\* pop_last_user_message_if_matches
PopLastUser(db, k, content) ==
    IF db.msgs[k] # <<>> /\ Last(db.msgs[k]) = [role |-> "user", content |-> content]
    THEN [db EXCEPT !.msgs[k] = Front(@)] ELSE db
=============================================================================
