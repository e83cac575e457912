----------------------------- MODULE NativeHost -----------------------------
(* The browser extension's native messaging host: the message loop of        *)
(* native_host/native_host.py.  A frame is a header with a length and so     *)
(* many bytes of payload; the pipe hands both out in chunks of any size and  *)
(* may end at any byte.  A request passes the rate limit, the list of        *)
(* actions, the extension id, the caller's ancestry and its origin; secrets  *)
(* have a budget of their own.  The backend, its token file and the manifest *)
(* change underneath.                                                        *)
EXTENDS Naturals, Sequences, FiniteSets, Places

CONSTANTS
  Header,        \* bytes of a frame's header
  MaxMessage,    \* MAX_MESSAGE_BYTES
  MaxDrain,      \* MAX_DRAIN_BYTES; longer frames (MaxDrain + 1) are not drained
  Ids,           \* extension ids
  Origin,        \* the id in the origin argument the browser passes
  RateMax,       \* _NATIVE_RATE_LIMIT_MAX, within a window of one tick
  SecretMax,     \* _NATIVE_TOKEN_ACTION_MAX
  Window,        \* _NATIVE_TOKEN_ACTION_WINDOW, in ticks
  MaxTime,       \* bound: ticks of the clock
  MaxEdits       \* bound: changes of the manifest

Secrets == {"get_shutdown_token", "get_extension_api_token"}
Actions == Secrets \cup {"plain"}      \* start_backend, get_backend_port, ping

VARIABLES
  pc,            \* "header", "drain", "payload", "handle", "act", "read", "closed"
  got,           \* bytes of the part being read that arrived
  length,        \* the length the header claims
  inFrame,       \* bytes of the current frame still in the pipe
  req,           \* the request being handled
  now,           \* the clock
  stamps,        \* _rate_limit_timestamps
  secretStamps,  \* _token_action_timestamps
  verified,      \* _verified_caller_ancestors is set
  manifest,      \* the manifest file: its ids and its mtime
  cache,         \* _allowed_origins_cache
  backend,       \* "down", or healthy with its shutdown token "sealed" in the
                 \* file, or "unusable": used, missing, empty or plaintext
  given          \* History: the ticks at which a secret was sent, in order

vars == <<pc, got, length, inFrame, req, now, stamps, secretStamps, verified,
          manifest, cache, backend, given>>

NoRequest == [action |-> "none", id |-> Origin]
Request == [action : Actions \cup {"none", "other"}, id : Ids]

TypeOK ==
  /\ pc \in {"header", "drain", "payload", "handle", "act", "read", "closed"}
  /\ got \in 0..(Header + MaxDrain) /\ length \in 0..(MaxDrain + 1)
  /\ inFrame \in 0..(Header + MaxDrain + 1) /\ req \in Request
  /\ now \in 0..MaxTime /\ Len(stamps) <= RateMax /\ Len(secretStamps) <= SecretMax
  /\ verified \in BOOLEAN /\ given \in Seq(0..MaxTime)
  /\ manifest.ids \subseteq Ids /\ manifest.mtime \in 0..MaxEdits
  /\ cache.mtime \in 0..MaxEdits /\ cache.ids \subseteq Ids

Init ==
  /\ pc = "header" /\ got = 0 /\ length = 0 /\ inFrame = 0 /\ req = NoRequest
  /\ now = 0 /\ stamps = <<>> /\ secretStamps = <<>> /\ verified = FALSE
  /\ manifest = [ids |-> {Origin}, mtime |-> 0]
  /\ cache = [ids |-> {}, mtime |-> 0]
  /\ backend = "down"
  /\ given = <<>>

Frame == <<got, length, inFrame>>
Loop == <<req, stamps, secretStamps, verified, cache, given>>
World == <<now, manifest, backend>>

(* ------------------------------ read_message ----------------------------- *)

HeaderChunkMutant ==  \* an oversized frame is skipped without being drained
  /\ pc = "header" /\ UNCHANGED <<Loop, World>>
  /\ \E k \in 1..(Header - got) :
       IF got + k < Header
         THEN /\ got' = got + k /\ inFrame' = Header - got'
              /\ UNCHANGED <<pc, length>>
         ELSE \E n \in 0..(MaxDrain + 1) :
                /\ length' = n /\ got' = 0 /\ inFrame' = n
                /\ pc' = IF n > MaxDrain THEN "closed"
                         ELSE IF n > MaxMessage THEN "header" ELSE "payload"

\* A chunk of the header; the first one starts the next frame of the pipe.
HeaderChunk ==
  /\ pc = "header" /\ UNCHANGED <<Loop, World>>
  /\ \E k \in 1..(Header - got) :
       IF got + k < Header
         THEN /\ got' = got + k /\ inFrame' = Header - got'
              /\ UNCHANGED <<pc, length>>
         ELSE \E n \in 0..(MaxDrain + 1) :
                /\ length' = n /\ got' = 0 /\ inFrame' = n
                /\ pc' = IF n > MaxDrain THEN "closed"
                         ELSE IF n > MaxMessage THEN "drain" ELSE "payload"

\* An oversized frame is drained, so that the next header is read at its start.
DrainChunk ==
  /\ pc = "drain" /\ UNCHANGED <<length, Loop, World>>
  /\ \E k \in 1..(length - got) :
       /\ inFrame' = inFrame - k
       /\ IF got + k < length
            THEN got' = got + k /\ UNCHANGED pc
            ELSE got' = 0 /\ pc' = "header"

PayloadChunk ==
  /\ pc = "payload" /\ got < length /\ UNCHANGED <<length, pc, Loop, World>>
  /\ \E k \in 1..(length - got) : got' = got + k /\ inFrame' = inFrame - k

\* The whole payload: a request, or a frame that is skipped because it is no
\* JSON, no UTF-8 or no object.
Decode ==
  /\ pc = "payload" /\ got = length /\ got' = 0
  /\ UNCHANGED <<length, inFrame, stamps, secretStamps, verified, cache, given, World>>
  /\ \/ pc' = "header" /\ UNCHANGED req
     \/ pc' = "handle" /\ req' \in [action : Actions \cup {"other"}, id : Ids]

\* EOF, or an error of the pipe, at any byte.
PipeEnds ==
  /\ pc \in {"header", "drain", "payload"} /\ pc' = "closed"
  /\ UNCHANGED <<Frame, Loop, World>>

(* ---------------------------------- main --------------------------------- *)

Recent(s, window) == ItemsAt(s, {i \in DOMAIN s : s[i] + window > now})

\* send_message: the loop goes back to the next frame.
Sends == pc' = "header" /\ req' = NoRequest

\* _check_rate_limit, then the list of actions.
Refuse ==
  /\ pc = "handle" /\ Sends
  /\ LET s == Recent(stamps, 1) IN
       \/ Len(s) >= RateMax /\ stamps' = s
       \/ Len(s) < RateMax /\ req.action = "other" /\ stamps' = Append(s, now)
  /\ UNCHANGED <<Frame, secretStamps, verified, cache, given, World>>

\* The allowed ids are parsed again only when the manifest's mtime changed.
Allowed ==
  IF cache.ids # {} /\ cache.mtime = manifest.mtime THEN cache ELSE manifest

\* _is_caller_authorized_browser walks the process tree; a lookup that fails
\* finds no browser.
Traces == BOOLEAN

\* _require_valid_extension_id: format and list, ancestry (only success is
\* remembered), origin argument.
Authenticate ==
  /\ pc = "handle" /\ req.action # "other"
  /\ LET s == Recent(stamps, 1) IN Len(s) < RateMax /\ stamps' = Append(s, now)
  /\ cache' = Allowed
  /\ \E traced \in Traces :
       LET listed == req.id \in Allowed.ids
       IN /\ verified' = (verified \/ (listed /\ traced))
          /\ IF listed /\ verified' /\ req.id = Origin
               THEN pc' = "act" /\ UNCHANGED req
               ELSE Sends
  /\ UNCHANGED <<Frame, secretStamps, given, World>>

Answer ==
  /\ pc = "act" /\ req.action \notin Secrets /\ Sends
  /\ UNCHANGED <<Frame, stamps, secretStamps, verified, cache, given, World>>

\* A secret: its budget first, then one health check.
Budget ==
  /\ pc = "act" /\ req.action \in Secrets
  /\ LET s == Recent(secretStamps, Window) IN
       \/ Len(s) >= SecretMax /\ secretStamps' = s /\ Sends
       \/ /\ Len(s) < SecretMax /\ secretStamps' = Append(s, now)
          /\ \/ backend # "down" /\ pc' = "read" /\ UNCHANGED req
             \/ backend = "down" /\ Sends
  /\ UNCHANGED <<Frame, stamps, verified, cache, given, World>>

Gives == given' = Append(given, now)

\* The shutdown token: refused once its used marker exists; a missing, empty
\* or plaintext file is answered as such.
ShutdownToken ==
  /\ pc = "read" /\ req.action = "get_shutdown_token" /\ Sends
  /\ IF backend = "sealed" THEN Gives ELSE UNCHANGED given
  /\ UNCHANGED <<Frame, stamps, secretStamps, verified, cache, World>>

ExtensionToken ==
  /\ pc = "read" /\ req.action = "get_extension_api_token" /\ Sends
  /\ (Gives \/ UNCHANGED given)
  /\ UNCHANGED <<Frame, stamps, secretStamps, verified, cache, World>>

(* ------------------------------ environment ------------------------------ *)

Tick == /\ now < MaxTime /\ now' = now + 1
        /\ UNCHANGED <<pc, Frame, Loop, manifest, backend>>

ManifestEdited ==
  /\ manifest.mtime < MaxEdits
  /\ \E ids \in SUBSET Ids : manifest' = [ids |-> ids, mtime |-> manifest.mtime + 1]
  /\ UNCHANGED <<pc, Frame, Loop, now, backend>>

BackendMoves ==
  /\ backend' \in {"down", "unusable", "sealed"} \ {backend}
  /\ UNCHANGED <<pc, Frame, Loop, now, manifest>>

Next ==
  \/ HeaderChunk \/ DrainChunk \/ PayloadChunk \/ Decode \/ PipeEnds
  \/ Refuse \/ Authenticate \/ Answer \/ Budget \/ ShutdownToken \/ ExtensionToken
  \/ Tick \/ ManifestEdited \/ BackendMoves

Spec == Init /\ [][Next]_vars

\* A header is only ever read where a frame begins: whatever is wrong with a
\* frame, and however the pipe cuts it, its bytes are consumed to the last or
\* the connection is closed.
AlignedOrClosed == (pc \in {"header", "handle"} /\ got = 0) => inFrame = 0

\* No window of the clock sees more secrets than the budget, but for one: a
\* request is stamped when it is admitted and answered after the health check.
SecretsBounded ==
  \A t \in 0..MaxTime :
    Cardinality({i \in DOMAIN given : given[i] \in t..(t + Window - 1)}) <= SecretMax + 1
=============================================================================
