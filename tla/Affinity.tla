------------------------------- MODULE Affinity -------------------------------
(***************************************************************************)
(* The selectors used when the scheduler is not: round robin, fill first,  *)
(* and session affinity around one of them (auth/selector.go) with its     *)
(* cache of bindings (auth/session_cache.go).  Requests of several         *)
(* conversations pick credentials of one provider and model concurrently.  *)
(***************************************************************************)
EXTENDS Integers, FiniteSets

CONSTANTS
    Auths,          \* credentials, numbered in the order of their ids
    Priority,       \* Priority[a]
    Websockets,     \* credentials that offer websockets
    Conversations,
    Sockets,        \* conversations over a websocket
    Named,          \* conversations whose requests carry a session id
    Opening,        \* Opening[c]: hash of c's system prompt and first message
    TTL,            \* life of a binding
    WrapAt,         \* the cursor starts over here (2147483640 in the code)
    MaxTurns, MaxClock, MaxChanges  \* bounds

VARIABLES
    cache,     \* cache[k]: the binding of a session key, or NoBinding
    cursor,    \* position of the round robin
    strategy,  \* the selector that is wrapped
    clock,
    held,      \* credentials that are cooling down or disabled
    changes,   \* number of changes of held
    turn,      \* turn[c]: requests of c so far
    req,       \* req[c]: the request of c in the selector
    served     \* history: served[c], the credential of c's last request, and
               \* whether nothing has happened since that may move c elsewhere

vars == <<cache, cursor, strategy, clock, held, changes, turn, req, served>>

\* extractSessionIDs: an id that the request carries, or a hash of its first
\* messages.  The first turn has no answer yet; later ones hash it as well and
\* fall back to the hash without it.
Short(c) == <<"short", Opening[c]>>
Full(c)  == <<"full", c>>
Id(c)    == <<"id", c>>
Keys     == UNION {{Short(c), Full(c), Id(c)} : c \in Conversations}

NoKey == <<>>
SessionIds(c, n) ==
    CASE c \in Named -> [primary |-> Id(c), fallback |-> NoKey]
      [] c \notin Named /\ n = 1 -> [primary |-> Short(c), fallback |-> NoKey]
      [] OTHER -> [primary |-> Full(c), fallback |-> Short(c)]

NoBinding == [auth |-> 0, expires |-> 0]
Idle == [pc |-> "idle", key |-> NoKey, fallback |-> NoKey,
         open |-> {}, auth |-> 0, calm |-> FALSE]
Nobody == [auth |-> 0, sure |-> FALSE, at |-> 0]

Init ==
    /\ cache = [k \in Keys |-> NoBinding]
    /\ cursor = 0
    /\ strategy \in {"round-robin", "fill-first"}
    /\ clock = 0
    /\ held = {}
    /\ changes = 0
    /\ turn = [c \in Conversations |-> 0]
    /\ req = [c \in Conversations |-> Idle]
    /\ served = [c \in Conversations |-> Nobody]

-----------------------------------------------------------------------------
\* getAvailableAuths: those of the highest priority that are not held.
Available ==
    LET free == Auths \ held IN
    {a \in free : \A b \in free : Priority[b] <= Priority[a]}

Expired(b) == b.auth # 0 /\ clock > b.expires

Bind(k, a) == cache' = [cache EXCEPT ![k] = [auth |-> a, expires |-> clock + TTL]]
Drop(k)    == cache' = [cache EXCEPT ![k] = NoBinding]
Goes(c, pc) == req' = [req EXCEPT ![c].pc = pc]

Doubted(history) == [history EXCEPT !.sure = FALSE]

\* The conversations whose next request looks at key k stay there no more, if
\* k no longer leads to the credential they were served by.
Moved(k, a) ==
    [c \in Conversations |->
        IF k \in {Short(c), Full(c), Id(c)} /\ served[c].auth # a
        THEN Doubted(served[c]) ELSE served[c]]

Serve(c, a, history) ==
    /\ req' = [req EXCEPT ![c] = Idle]
    /\ served' = [history EXCEPT ![c] = [auth |-> a, sure |-> req[c].calm, at |-> clock]]

\* The next request of c enters the selector.  Without credentials it fails.
Enter(c) ==
    /\ req[c].pc = "idle" /\ turn[c] < MaxTurns
    /\ turn' = [turn EXCEPT ![c] = @ + 1]
    /\ LET ids == SessionIds(c, turn[c] + 1) IN
         req' = IF Available = {} THEN req
                ELSE [req EXCEPT ![c] = [pc |-> "lookup", key |-> ids.primary, auth |-> 0,
                                         fallback |-> ids.fallback,
                                         open |-> Available, calm |-> TRUE]]
    /\ UNCHANGED <<cache, cursor, strategy, clock, held, changes, served>>

\* Faulty variant: the lookup does not prolong the binding it finds.
LookupOnly(c) ==
    /\ req[c].pc = "lookup"
    /\ LET k == req[c].key b == cache[k] IN
       CASE b.auth # 0 /\ ~Expired(b) ->
              /\ UNCHANGED cache
              /\ IF b.auth \in req[c].open THEN Serve(c, b.auth, served)
                 ELSE Goes(c, "pick") /\ UNCHANGED served
         [] OTHER ->
              /\ IF Expired(b) THEN Drop(k) ELSE UNCHANGED cache
              /\ Goes(c, IF req[c].fallback # NoKey THEN "fallback" ELSE "pick")
              /\ UNCHANGED served
    /\ UNCHANGED <<cursor, strategy, clock, held, changes, turn>>

\* GetAndRefresh: a live binding is prolonged, an expired one removed.
Lookup(c) ==
    /\ req[c].pc = "lookup"
    /\ LET k == req[c].key b == cache[k] IN
       CASE b.auth # 0 /\ ~Expired(b) ->
              /\ Bind(k, b.auth)
              /\ IF b.auth \in req[c].open THEN Serve(c, b.auth, served)
                 ELSE Goes(c, "pick") /\ UNCHANGED served
         [] OTHER ->
              /\ IF Expired(b) THEN Drop(k) ELSE UNCHANGED cache
              /\ Goes(c, IF req[c].fallback # NoKey THEN "fallback" ELSE "pick")
              /\ UNCHANGED served
    /\ UNCHANGED <<cursor, strategy, clock, held, changes, turn>>

\* Get reads the binding of the first turn under the read lock ...
Fallback(c) ==
    /\ req[c].pc = "fallback"
    /\ LET b == cache[req[c].fallback] IN
       req' = [req EXCEPT ![c].pc = IF Expired(b) THEN "drop" ELSE
                                    IF b.auth \in req[c].open THEN "bind" ELSE "pick",
                          ![c].auth = b.auth]
    /\ UNCHANGED <<cache, cursor, strategy, clock, held, changes, turn, served>>

\* ... and deletes what it found expired under the write lock, whatever the
\* binding has become.
DropFallback(c) ==
    /\ req[c].pc = "drop"
    /\ Drop(req[c].fallback)
    /\ served' = Moved(req[c].fallback, 0)
    /\ Goes(c, "pick")
    /\ UNCHANGED <<cursor, strategy, clock, held, changes, turn>>

\* The wrapped selector: it looks at the credentials anew, prefers those with
\* websockets for a websocket client, and takes the first or the next.
Preferred(c) ==
    IF c \in Sockets /\ Available \cap Websockets # {} THEN Available \cap Websockets ELSE Available

\* The one at an index of a list in the order of the ids.
IsAt(a, S, index) == a \in S /\ Cardinality({b \in S : b < a}) = index

Picked(r, a) == [r EXCEPT !.pc = "bind", !.auth = a]

Pick(c) ==
    /\ req[c].pc = "pick"
    /\ LET list  == Preferred(c)
           index == IF cursor >= WrapAt THEN 0 ELSE cursor IN
       IF Available = {} THEN req' = [req EXCEPT ![c] = Idle] /\ UNCHANGED cursor
       ELSE /\ cursor' = IF strategy = "round-robin" THEN index + 1 ELSE cursor
            /\ \E a \in Auths :
                 /\ IsAt(a, list, IF strategy = "round-robin" THEN index % Cardinality(list) ELSE 0)
                 /\ req' = [req EXCEPT ![c] = Picked(@, a)]
    /\ UNCHANGED <<cache, strategy, clock, held, changes, turn, served>>

\* The binding is set and the request served.
SetBinding(c) ==
    /\ req[c].pc = "bind"
    /\ Bind(req[c].key, req[c].auth)
    /\ Serve(c, req[c].auth, Moved(req[c].key, req[c].auth))
    /\ UNCHANGED <<cursor, strategy, clock, held, changes, turn>>

-----------------------------------------------------------------------------
(* What happens to the credentials and to time                             *)

Stirred(r) == [r EXCEPT !.calm = FALSE]

\* The history forgets what it was sure of when the credentials change, also
\* for the requests that are in the selector.
Stir ==
    /\ served' = [c \in Conversations |-> Doubted(served[c])]
    /\ req' = [c \in Conversations |-> Stirred(req[c])]

\* A credential is held, or usable again.
Holding(a) ==
    /\ changes < MaxChanges /\ changes' = changes + 1
    /\ held' = IF a \in held THEN held \ {a} ELSE held \union {a}
    /\ Stir
    /\ UNCHANGED <<cache, cursor, strategy, clock, turn>>

\* InvalidateAuth, when a credential is removed: its bindings go at once.
Invalidate(a) ==
    /\ a \notin held
    /\ changes < MaxChanges /\ changes' = changes + 1
    /\ held' = held \union {a}
    /\ cache' = [k \in Keys |-> IF cache[k].auth = a THEN NoBinding ELSE cache[k]]
    /\ Stir
    /\ UNCHANGED <<cursor, strategy, clock, turn>>

Tick ==
    /\ clock < MaxClock
    /\ clock' = clock + 1
    /\ served' = [c \in Conversations |->
         IF clock + 1 > served[c].at + TTL THEN Doubted(served[c]) ELSE served[c]]
    /\ UNCHANGED <<cache, cursor, strategy, held, changes, turn, req>>

\* cleanup removes what has expired.
Cleanup ==
    /\ \E k \in Keys : Expired(cache[k])
    /\ cache' = [k \in Keys |-> IF Expired(cache[k]) THEN NoBinding ELSE cache[k]]
    /\ UNCHANGED <<cursor, strategy, clock, held, changes, turn, req, served>>

Request(c) ==
    Enter(c) \/ Lookup(c) \/ Fallback(c) \/ DropFallback(c) \/ Pick(c) \/ SetBinding(c)

Next ==
    \/ \E c \in Conversations : Request(c)
    \/ \E a \in Auths : Holding(a) \/ Invalidate(a)
    \/ Tick \/ Cleanup

Spec == Init /\ [][Next]_vars

-----------------------------------------------------------------------------
\* A conversation stays with its credential from request to request, also from
\* the first turn to the second, whose key is another one, while the binding
\* lives, the credential is usable, and no conversation that opens with the
\* same words has been bound elsewhere meanwhile or has dropped the binding.
SessionSticks ==
    [][\A c \in Conversations :
         served[c].sure /\ served'[c].at >= served[c].at /\ req[c].pc # "idle" /\ req'[c].pc = "idle"
           => served'[c].auth = served[c].auth]_vars
=============================================================================
