------------------------------ MODULE HttpProxy ------------------------------
(***************************************************************************)
(* One HTTP service (pkg/http): the handler with its round robin, the proxy *)
(* and its Transport, and the connPool that they share.                     *)
(*                                                                          *)
(*   Requests  handler goroutines, each serving one request after another   *)
(*   cleaner   cleanupLoop of the pool                                      *)
(*   backends  external: what arrives on a connection is answered in order, *)
(*             perhaps after an interim (1xx) response; a connection may be *)
(*             closed at any time                                           *)
(*                                                                          *)
(* A response is the name of the request it answers; one that outlives its  *)
(* request is Stale. Headers, status codes and the copy to the client are   *)
(* left out. Transport.Close has no caller in the daemon and is left out.   *)
(***************************************************************************)
EXTENDS Integers, FiniteSets, SequencesExt

CONSTANTS
    Backends,   \* Service.Backends
    MaxIdles,   \* what connection_pool.max_idle may be
    Requests,
    Conns,      \* bound: connections that the proxy has open at a time
    Uploads,    \* bound: the requests that may have a body
    Chatty,     \* bound: the requests that may get an interim response
    Shapes,     \* bound: the responses, [body, close]
    Nothing, Stale

\* What arrives on a connection, and what may be on it.
Response ==
    [of : Requests \cup {Stale, Nothing}, body : BOOLEAN, close : BOOLEAN]

Link ==
    [inbox : Seq(Requests \cup {Stale}), wire : Seq(Response),
     rest : Requests \cup {Stale, Nothing}, gone : BOOLEAN, interim : BOOLEAN]

ASSUME HttpAssumptions ==
    /\ Backends \in Seq(Range(Backends)) /\ Backends # <<>>
    /\ MaxIdles \subseteq Int /\ Uploads \cup Chatty \subseteq Requests
    /\ Shapes \subseteq [body : BOOLEAN, close : BOOLEAN]
    /\ Nothing \notin Conns \cup Requests /\ Stale \notin Requests \cup {Nothing}
    /\ Nothing \notin Link

Address == Range(Backends)

VARIABLES
    maxIdle,    \* pool.maxIdle, set once
    next,       \* Service.next, modulo the number of backends
    idle,       \* pool.idle: backend -> its idle connections
    old,        \* the idle ones whose idleTime is past idleTimeout
    expired,    \* the cleaner's local: taken out of the pool, not yet closed
    link,       \* connection -> what is on it; Nothing once the proxy closed it:
                \*   inbox    requests that the backend has to answer
                \*   wire     responses that nobody has read
                \*   rest     owner of a body that is not read to its end
                \*   gone     the backend has closed it
                \*   interim  history: it carried an interim response
    pc, dest,   \* request -> where it is; its backend
    held, reused, \* request -> its connection; whether it was a pooled one
    upload,     \* request -> "none", or its body is "unread" or "spent"
    got,        \* request -> whose response ReadResponse returned, and what
                \* the response says
    sent,       \* history: how often the request reached a backend in full
    faulty      \* history: requests for which a dial failed, or a connection
                \* that they had dialled was closed or answered nonsense

poolVars == <<idle, old, expired>>
requestVars == <<pc, dest, held, reused, upload, got, sent, faulty>>
vars == <<maxIdle, next, poolVars, link, requestVars>>

NewLink ==
    [inbox |-> <<>>, wire |-> <<>>, rest |-> Nothing, gone |-> FALSE, interim |-> FALSE]

NoResponse == [of |-> Nothing, body |-> FALSE, close |-> FALSE]

Init ==
    /\ maxIdle \in MaxIdles /\ next = 0
    /\ idle = [b \in Address |-> <<>>] /\ old = {} /\ expired = {}
    /\ link = [c \in Conns |-> Nothing]
    /\ pc = [r \in Requests |-> "free"]
    /\ dest = [r \in Requests |-> Backends[1]]
    /\ held = [r \in Requests |-> Nothing] /\ reused = [r \in Requests |-> FALSE]
    /\ upload = [r \in Requests |-> "none"]
    /\ got = [r \in Requests |-> NoResponse]
    /\ sent = [r \in Requests |-> 0] /\ faulty = {}

-----------------------------------------------------------------------------
(* The handler and the Transport *)

\* newHandler: nextBackend, under the service's mutex, then Proxy.ServeHTTP.
Arrive(r, u) ==
    /\ pc[r] = "free"
    /\ u # "none" => r \in Uploads
    /\ dest' = [dest EXCEPT ![r] = Backends[next + 1]]
    /\ next' = (next + 1) % Len(Backends)
    /\ pc' = [pc EXCEPT ![r] = "get"]
    /\ upload' = [upload EXCEPT ![r] = u]
    /\ UNCHANGED <<maxIdle, poolVars, link, held, reused, got, sent, faulty>>

\* A get that leaves the connection in the pool.
Taken_Peek(b) == idle[b]

\* What get leaves of the idle connections: it takes the last one.
Taken(b) == Front(idle[b])

\* RoundTrip: pool.get. An expired connection is taken like any other.
Get(r) ==
    LET b == dest[r]
    IN  /\ pc[r] = "get"
        /\ IF idle[b] = <<>>
             THEN /\ pc' = [pc EXCEPT ![r] = "dial"]
                  /\ UNCHANGED <<idle, old, held, reused>>
             ELSE /\ idle' = [idle EXCEPT ![b] = Taken(b)]
                  /\ old' = old \ {Last(idle[b])}
                  /\ held' = [held EXCEPT ![r] = Last(idle[b])]
                  /\ reused' = [reused EXCEPT ![r] = TRUE]
                  /\ pc' = [pc EXCEPT ![r] = "write"]
        /\ UNCHANGED <<maxIdle, next, expired, link, dest, upload, got, sent, faulty>>

Free == {c \in Conns : link[c] = Nothing}

\* net.DialTimeout succeeds. Which of the unused names it gets is immaterial.
Dial(r) ==
    LET c == CHOOSE c \in Free : TRUE
    IN  /\ pc[r] = "dial" /\ Free # {}
        /\ link' = [link EXCEPT ![c] = NewLink]
        /\ held' = [held EXCEPT ![r] = c]
        /\ pc' = [pc EXCEPT ![r] = "write"]
        /\ UNCHANGED <<maxIdle, next, poolVars, dest, reused, upload, got, sent, faulty>>

DialFails(r) ==
    /\ pc[r] = "dial"
    /\ pc' = [pc EXCEPT ![r] = "bad_gateway"]
    /\ faulty' = faulty \cup {r}
    /\ UNCHANGED <<maxIdle, next, poolVars, link, dest, held, reused, upload, got, sent>>

\* A request that keeps its body for the second attempt.
AfterWrite_Buffered(u) == u

\* req.Write reads the body and closes it, whether it succeeds or not.
AfterWrite(u) == IF u = "unread" THEN "spent" ELSE u

\* A RoundTrip without the retry.
AfterFailure_GivesUp(r) == "bad_gateway"

\* A retry that looks into the pool again, as RoundTrip did at first.
AfterFailure_Get(r) == IF reused[r] THEN "get" ELSE "bad_gateway"

\* RoundTrip: "The pooled connection may be stale", so the request is written
\* once more on a new one. A failure on a new one is returned.
AfterFailure(r) == IF reused[r] THEN "dial" ELSE "bad_gateway"

\* roundTripConn has failed: discard.
Discard(r) ==
    /\ link' = [link EXCEPT ![held[r]] = Nothing]
    /\ held' = [held EXCEPT ![r] = Nothing]
    /\ reused' = [reused EXCEPT ![r] = FALSE]
    /\ pc' = [pc EXCEPT ![r] = AfterFailure(r)]

\* roundTripConn: req.Write, which lasts as long as the client sends its body.
\* On a connection that the backend has closed it may succeed all the same.
Write(r) ==
    LET c == held[r]
    IN  /\ pc[r] = "write" /\ upload[r] # "spent"
        /\ pc' = [pc EXCEPT ![r] = "read"]
        /\ upload' = [upload EXCEPT ![r] = AfterWrite(@)]
        /\ IF link[c].gone
             THEN UNCHANGED <<link, sent>>
             ELSE /\ link' = [link EXCEPT ![c].inbox = Append(@, r)]
                  /\ sent' = [sent EXCEPT ![r] = @ + 1]
        /\ UNCHANGED <<maxIdle, next, poolVars, dest, held, reused, got, faulty>>

\* It fails for a body that is already closed, and may fail for one that the
\* client stops sending.
WriteFails(r) ==
    /\ pc[r] = "write" /\ (link[held[r]].gone \/ upload[r] # "none")
    /\ upload' = [upload EXCEPT ![r] = AfterWrite(@)]
    /\ Discard(r)
    /\ UNCHANGED <<maxIdle, next, poolVars, dest, got, sent, faulty>>

\* roundTripConn: http.ReadResponse takes what comes next on the connection,
\* the rest of an earlier body included.
Read(r) ==
    LET c == held[r]
        l == link[c]
        resp == IF l.rest # Nothing THEN [NoResponse EXCEPT !.of = l.rest]
                                    ELSE Head(l.wire)
    IN  /\ pc[r] = "read"
        /\ l.rest # Nothing \/ l.wire # <<>>
        /\ got' = [got EXCEPT ![r] = resp]
        /\ link' = [link EXCEPT ![c] =
              [l EXCEPT !.wire = IF l.rest # Nothing THEN @ ELSE Tail(@),
                        !.rest = IF resp.body THEN resp.of ELSE Nothing]]
        /\ pc' = [pc EXCEPT ![r] = "body"]
        /\ UNCHANGED <<maxIdle, next, poolVars, dest, held, reused, upload, sent, faulty>>

\* The connection ends, or what comes next on it is not a response.
ReadFails(r) ==
    LET l == link[held[r]]
    IN  /\ pc[r] = "read"
        /\ l.gone \/ l.wire # <<>> \/ l.rest # Nothing
        /\ Discard(r)
        /\ faulty' = IF reused[r] THEN faulty ELSE faulty \cup {r}
        /\ UNCHANGED <<maxIdle, next, poolVars, dest, upload, got, sent>>

-----------------------------------------------------------------------------
(* The end of a request *)

\* What a connection carries for a request that has ended is nobody's.
Orphaned(l, r) ==
    [l EXCEPT !.inbox = [i \in DOMAIN @ |-> IF @[i] = r THEN Stale ELSE @[i]],
              !.wire = [i \in DOMAIN @ |->
                           IF @[i].of = r THEN [@[i] EXCEPT !.of = Stale] ELSE @[i]],
              !.rest = IF @ = r THEN Stale ELSE @]

\* The goroutine is done with its request.
Finish(r) ==
    /\ pc' = [pc EXCEPT ![r] = "free"]
    /\ held' = [held EXCEPT ![r] = Nothing]
    /\ reused' = [reused EXCEPT ![r] = FALSE]
    /\ upload' = [upload EXCEPT ![r] = "none"]
    /\ got' = [got EXCEPT ![r] = NoResponse]
    /\ sent' = [sent EXCEPT ![r] = 0]
    /\ faulty' = faulty \ {r}

\* A put with an off-by-one.
HasRoom_OffByOne(b) == maxIdle > 0 /\ Len(idle[b]) <= maxIdle

HasRoom(b) == maxIdle > 0 /\ Len(idle[b]) < maxIdle

\* A connBody.Close that does not read the body to its end.
Drained_Not(l) == l

\* The body is read to its end (io.Copy to io.Discard).
Drained(l) == [l EXCEPT !.rest = Nothing]

\* connBody.Close, after the copy to the client, which lasts as long as the
\* client reads or until its connection breaks: the body is drained; then
\* pool.put, or the connection is closed if the response says so, the pool is
\* full, or the backend went away with the body unfinished.
CloseBody(r, ok) ==
    LET c == held[r]
        b == dest[r]
        kept == ok /\ ~got[r].close /\ HasRoom(b)
    IN  /\ pc[r] = "body"
        /\ ~ok => link[c].rest # Nothing /\ link[c].gone
        /\ idle' = IF kept THEN [idle EXCEPT ![b] = Append(@, c)] ELSE idle
        /\ link' = [link EXCEPT ![c] =
              IF kept THEN Orphaned(Drained(@), r) ELSE Nothing]
        /\ Finish(r)
        /\ UNCHANGED <<maxIdle, next, old, expired, dest>>

\* Proxy.ServeHTTP answers 502.
BadGateway(r) ==
    /\ pc[r] = "bad_gateway"
    /\ Finish(r)
    /\ UNCHANGED <<maxIdle, next, poolVars, link, dest>>

-----------------------------------------------------------------------------
(* cleanupLoop *)

\* idleTimeout passes for a connection; put stamps them in the order of the list.
Expire(b, i) ==
    /\ i \in DOMAIN idle[b] /\ idle[b][i] \notin old
    /\ \A j \in 1..(i - 1) : idle[b][j] \in old
    /\ old' = old \cup {idle[b][i]}
    /\ UNCHANGED <<maxIdle, next, idle, expired, link, requestVars>>

\* The loop of cleanup over the connections of one backend.
Only(conns, good) ==
    LET kept[n \in 0..Len(conns)] ==
            IF n = 0 THEN <<>> ELSE
            IF conns[n] \in good THEN Append(kept[n - 1], conns[n]) ELSE kept[n - 1]
    IN  kept[Len(conns)]

\* A cleanup that only looks at the connection that came last.
Kept_IfLastYoung(b) ==
    IF idle[b] # <<>> /\ Last(idle[b]) \in old THEN <<>> ELSE idle[b]

Kept(b) == Only(idle[b], Conns \ old)

\* cleanup, under the mutex.
Cleanup ==
    /\ expired = {} /\ old # {}
    /\ idle' = [b \in Address |-> Kept(b)]
    /\ expired' = UNION {Range(idle[b]) \ Range(Kept(b)) : b \in Address}
    /\ old' = old \ expired'
    /\ UNCHANGED <<maxIdle, next, link, requestVars>>

\* "Close connections outside the mutex."
CloseExpired(c) ==
    /\ c \in expired
    /\ expired' = expired \ {c}
    /\ link' = [link EXCEPT ![c] = Nothing]
    /\ UNCHANGED <<maxIdle, next, idle, old, requestVars>>

-----------------------------------------------------------------------------
(* The backends *)

\* The backend can do something on the connection.
Reachable(c) == link[c] # Nothing /\ ~link[c].gone

Answer(c, shape) ==
    LET l == link[c]
    IN  /\ Reachable(c) /\ l.inbox # <<>>
        /\ link' = [link EXCEPT ![c] = [l EXCEPT
              !.wire = Append(@, [of |-> Head(l.inbox), body |-> shape.body, close |-> shape.close]),
              !.inbox = Tail(@)]]
        /\ UNCHANGED <<maxIdle, next, poolVars, requestVars>>

\* A 1xx response, which ReadResponse does not tell from a final one.
Interim(c) ==
    LET l == link[c]
    IN  /\ Reachable(c) /\ l.inbox # <<>> /\ Head(l.inbox) \in Chatty /\ ~l.interim
        /\ link' = [link EXCEPT ![c] = [l EXCEPT
              !.wire = Append(@, [NoResponse EXCEPT !.of = Head(l.inbox)]),
              !.interim = TRUE]]
        /\ UNCHANGED <<maxIdle, next, poolVars, requestVars>>

Hangup(c) ==
    /\ Reachable(c)
    /\ link' = [link EXCEPT ![c] = [@ EXCEPT !.gone = TRUE, !.inbox = <<>>]]
    /\ faulty' = faulty \cup {r \in Requests : held[r] = c /\ ~reused[r]}
    /\ UNCHANGED <<maxIdle, next, poolVars, pc, dest, held, reused, upload, got, sent>>

-----------------------------------------------------------------------------
Serve(r) ==
    \/ Get(r) \/ Dial(r) \/ Write(r) \/ WriteFails(r) \/ Read(r) \/ ReadFails(r)
    \/ (\E ok \in BOOLEAN : CloseBody(r, ok)) \/ BadGateway(r)

Cleaner == Cleanup \/ \E c \in Conns : CloseExpired(c)

IdleTime == \E b \in Address : \E i \in 1..Cardinality(Conns) : Expire(b, i)

Respond(c) == \E shape \in Shapes : Answer(c, shape)

Next ==
    \/ \E r \in Requests :
          Serve(r) \/ DialFails(r) \/ \E u \in {"none", "unread"} : Arrive(r, u)
    \/ Cleaner \/ IdleTime
    \/ \E c \in Conns : Respond(c) \/ Interim(c) \/ Hangup(c)

Spec == Init /\ [][Next]_vars

\* Goroutines that can run do, time passes, and a backend answers what it got
\* or closes the connection (RoundTrip sets no deadline). WF of Serve is also
\* about the client: it keeps sending its body, which req.Write reads, and
\* keeps reading the response, or goes away (the http.Server has no timeouts).
\* SF of Dial: the bound on the names of connections keeps nobody waiting for
\* ever.
Fairness ==
    /\ \A r \in Requests : WF_vars(Serve(r)) /\ SF_vars(Dial(r))
    /\ WF_vars(Cleaner) /\ WF_vars(IdleTime)
    /\ \A c \in Conns : WF_vars(Respond(c) \/ (ENABLED Respond(c) /\ Hangup(c)))

FairSpec == Spec /\ Fairness

-----------------------------------------------------------------------------
(* The shape of the state; among it, that no backend has more than max_idle  *)
(* idle connections (put).                                                   *)
TypeOK ==
    /\ next \in 0..(Len(Backends) - 1)
    /\ idle \in [Address -> Seq(Conns)]
    /\ maxIdle \in MaxIdles
    /\ \A b \in Address : idle[b] # <<>> => Len(idle[b]) <= maxIdle
    /\ old \subseteq Conns /\ expired \subseteq Conns
    /\ link \in [Conns -> Link \cup {Nothing}]
    /\ pc \in [Requests -> {"free", "get", "dial", "write", "read", "body", "bad_gateway"}]
    /\ dest \in [Requests -> Address]
    /\ held \in [Requests -> Conns \cup {Nothing}]
    /\ reused \in [Requests -> BOOLEAN]
    /\ upload \in [Requests -> {"none", "unread", "spent"}]
    /\ got \in [Requests -> Response]
    /\ sent \in [Requests -> 0..2] /\ faulty \subseteq Requests

Pooled(c) == \E b \in Address : c \in Range(idle[b])

(* Every open connection has exactly one owner: a request, one place in the  *)
(* pool, or the cleaner. None is used by two requests, closed under a        *)
(* request, pooled after it was closed, or lost open (get, put, discard,     *)
(* cleanup, RoundTrip, connBody.Close).                                      *)
OneOwner ==
    /\ \A c \in Conns :
          link[c] # Nothing <=> Pooled(c) \/ c \in expired \/ \E r \in Requests : held[r] = c
    /\ \A c \in expired : ~Pooled(c)
    /\ \A r \in Requests : ~Pooled(held[r]) /\ held[r] \notin expired
    /\ \A r, q \in Requests : held[r] = held[q] /\ held[r] # Nothing => r = q
    /\ \A a, b \in Address : \A i \in DOMAIN idle[a], j \in DOMAIN idle[b] :
          idle[a][i] = idle[b][j] => a = b /\ i = j

(* "RoundTrip executes a single HTTP transaction, returning a Response for   *)
(* the provided Request": a reused connection never delivers what was left   *)
(* of an earlier one, unless a backend sent an interim response on it, which *)
(* ReadResponse takes for the final one (roundTripConn, connBody.Close).     *)
ResponseIsOwn ==
    \A r \in Requests :
        pc[r] = "body" => got[r].of = r \/ link[held[r]].interim

(* "The pooled connection may be stale": however many of them are, a request *)
(* is only answered 502 when the backend refused or dropped a new            *)
(* connection or answered nonsense on it, or when the request has a body,    *)
(* which cannot be sent again (RoundTrip).                                   *)
StaleIsNotBlamed ==
    \A r \in Requests :
        pc[r] = "bad_gateway" => r \in faulty \/ upload[r] # "none"

(* A request with a body reaches a backend at most once, in spite of the     *)
(* retry (RoundTrip, roundTripConn).                                         *)
UploadedOnce == \A r \in Requests : upload[r] # "none" => sent[r] <= 1

(* No connection stays idle: it is taken or closed, also if requests keep    *)
(* taking and putting back a newer one behind it (get, put, cleanup).        *)
IdleIsReaped == \A c \in Conns : Pooled(c) ~> ~Pooled(c)

(* Every request ends if backends answer or hang up and its client sends and *)
(* reads, also if the pool is full of stale connections and others keep      *)
(* refilling it (RoundTrip).                                                 *)
RequestEnds == \A r \in Requests : pc[r] # "free" ~> pc[r] = "free"
=============================================================================
