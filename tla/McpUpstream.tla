---------------------------- MODULE McpUpstream ----------------------------
(***************************************************************************)
(* One HTTP upstream server of the MCP gateway (mcp-gateway-rs, crate      *)
(* proxy): its circuit breaker, the client calls and health pings that go  *)
(* through it, the catalog worker that goes around it, and the catalog in  *)
(* the gateway's memory with its copy in Valkey.                           *)
(*                                                                         *)
(* The catalog is several lists, fetched one after the other; what the     *)
(* server has is a version that changes.                                   *)
(***************************************************************************)
EXTENDS Integers, FiniteSets

CONSTANTS
    Calls,       \* client requests at a time, and the health check
    Readers,     \* handlers that look at the catalog at a time
    NumLists,    \* lists of a catalog (tools, resources, prompts)
    Threshold,   \* failure_threshold
    Reset,       \* reset_seconds
    None,
    MaxVersions, \* bound: versions of the server's lists
    MaxFaults    \* bound: outages, edits of the bundle, errors of Valkey

Lists == 1 .. NumLists
\* A list that could not be fetched: unwrap_or_default().
Empty == 0
Catalogs == [Lists -> 0 .. MaxVersions]

ASSUME UpstreamAssumption ==
    /\ NumLists \in Nat \ {0} /\ Threshold \in Nat \ {0} /\ Reset \in Nat \ {0}
    /\ MaxVersions \in Nat \ {0}
    /\ None \notin Nat \cup Catalogs

VARIABLES
    server,   \* it fails, or answers below 500, with what is asked for or not
    version,  \* of the lists it has
    enabled,  \* the bundle has the server, and enabled
    failures, \* CbState.failures, or None if the map has no entry
    openFor,  \* how long open_until is still ahead
    call,     \* per request: idle, routed, sent, or lost (it will fail)
    worker,   \* catalog worker: step, whether initialize gave it a session,
              \* lists fetched so far
    cache,    \* catalog in memory, or None
    copy,     \* catalog in Valkey, or None
    reader,   \* per handler: step, catalog it has read from Valkey
    faults

breaker == <<failures, openFor>>
store == <<cache, copy>>
world == <<server, version, enabled, faults>>
vars == <<server, version, enabled, failures, openFor, call, worker, cache,
          copy, reader, faults>>

Nothing == [l \in Lists |-> Empty]
Resting == [step |-> "sleep", session |-> FALSE, list |-> 1, got |-> Nothing]
Away == [step |-> "idle", got |-> Nothing]

Init ==
    /\ server = "serves"
    /\ version = 1
    /\ enabled = TRUE
    /\ failures = None
    /\ openFor = 0
    /\ call = [c \in Calls |-> "idle"]
    /\ worker = Resting
    /\ cache = None
    /\ copy = None
    /\ reader = [r \in Readers |-> Away]
    /\ faults = 0

-----------------------------------------------------------------------------
(* CircuitBreaker.                                                         *)

check == openFor = 0

\* Mutant: the entry stays in the map, with its failures.
record_success_Keeps ==
    /\ openFor' = 0
    /\ UNCHANGED failures

record_success ==
    /\ failures' = None
    /\ openFor' = 0

\* The count is only ever compared with the threshold, and capped there.
record_failure ==
    LET n == (IF failures = None THEN 0 ELSE failures) + 1 IN
    /\ failures' = IF n > Threshold THEN Threshold ELSE n
    /\ openFor' = IF n >= Threshold THEN Reset ELSE openFor

answers == server # "fails"

\* An answer below 500 is a success, everything else a failure.
Record == IF answers THEN record_success ELSE record_failure

-----------------------------------------------------------------------------
(* send_request, for clients and for the health check.                     *)

\* Routed to an enabled server; policies and limits come before the circuit.
Route(c) ==
    /\ call[c] = "idle"
    /\ enabled
    /\ call' = [call EXCEPT ![c] = "routed"]
    /\ UNCHANGED <<world, breaker, worker, store, reader>>

\* 503 while the circuit is open.
Send(c) ==
    /\ call[c] = "routed"
    /\ call' = [call EXCEPT ![c] = IF ~check THEN "idle"
                                   ELSE IF answers THEN "sent" ELSE "lost"]
    /\ UNCHANGED <<world, breaker, worker, store, reader>>

Return(c) ==
    /\ call[c] \in {"sent", "lost"}
    /\ IF call[c] = "sent" THEN record_success ELSE record_failure
    /\ call' = [call EXCEPT ![c] = "idle"]
    /\ UNCHANGED <<world, worker, store, reader>>

\* The client has gone, or HEALTH_CHECK_TIMEOUT has passed: the future is
\* dropped and nothing is recorded.
HangUp(c) ==
    /\ call[c] # "idle"
    /\ call' = [call EXCEPT ![c] = "idle"]
    /\ UNCHANGED <<world, breaker, worker, store, reader>>

-----------------------------------------------------------------------------
(* CatalogWorker: refresh_all, with refresh_one for this server.           *)

Wake ==
    /\ worker.step = "sleep"
    /\ worker' = [worker EXCEPT !.step = IF enabled THEN "initialize" ELSE "sweep"]
    /\ UNCHANGED <<world, breaker, call, store, reader>>

\* initialize is skipped while the circuit is open: there is no session then.
Initialize ==
    /\ worker.step = "initialize"
    /\ worker' = [worker EXCEPT !.step = IF check THEN "greet" ELSE "fetch"]
    /\ UNCHANGED <<world, breaker, call, store, reader>>

\* Only the status 200 gives a session.  One that a refusing server may give is
\* not told apart from none: what it then serves is a choice (Fetched).
Greeted ==
    /\ worker.step = "greet"
    /\ Record
    /\ worker' = [worker EXCEPT !.step = "fetch", !.session = (server = "serves")]
    /\ UNCHANGED <<world, call, store, reader>>

\* What comes of one fetch: no list without an answer; the list if the server
\* serves it in a session; else the list or, by a status other than 200 or an
\* answer without a result, none.
Fetched(list) ==
    \/ list = Empty /\ ~(server = "serves" /\ worker.session)
    \/ list = version /\ answers

\* Mutant: a refresh in which no list could be had is stored like any other.
Fetch_StoresNothing ==
    /\ worker.step = "fetch"
    /\ Record
    /\ \E list \in 0 .. MaxVersions :
         LET got == [worker.got EXCEPT ![worker.list] = list] IN
         /\ Fetched(list)
         /\ worker' = IF worker.list < NumLists
                      THEN [worker EXCEPT !.got = got, !.list = @ + 1]
                      ELSE [step |-> "copy", session |-> FALSE, list |-> 1, got |-> got]
    /\ UNCHANGED <<world, call, store, reader>>

\* Mutant: the loop over the lists goes one too far.
Fetch_Past ==
    /\ worker.step = "fetch"
    /\ Record
    /\ \E list \in 0 .. MaxVersions :
         LET got == [worker.got EXCEPT ![worker.list] = list] IN
         /\ Fetched(list)
         /\ worker' = IF worker.list <= NumLists
                      THEN [worker EXCEPT !.got = got, !.list = @ + 1]
                      ELSE [step |-> IF got = Nothing THEN "clear" ELSE "copy",
                            session |-> FALSE, list |-> 1, got |-> got]
    /\ UNCHANGED <<world, call, store, reader>>

\* fetch_list, not gated by the circuit: it doubles as the recovery probe.
\* A catalog is stored if one of its lists could be had.
Fetch ==
    /\ worker.step = "fetch"
    /\ Record
    /\ \E list \in 0 .. MaxVersions :
         LET got == [worker.got EXCEPT ![worker.list] = list] IN
         /\ Fetched(list)
         /\ worker' = IF worker.list < NumLists
                      THEN [worker EXCEPT !.got = got, !.list = @ + 1]
                      ELSE [step |-> IF got = Nothing THEN "clear" ELSE "copy",
                            session |-> FALSE, list |-> 1, got |-> got]
    /\ UNCHANGED <<world, call, store, reader>>

\* CatalogStore::store: Valkey, whose errors are ignored, then memory.
StoreCopy ==
    /\ worker.step = "copy"
    /\ copy' = worker.got
    /\ worker' = [worker EXCEPT !.step = "cache"]
    /\ UNCHANGED <<world, breaker, call, cache, reader>>

\* Mutant: an entry that is there already is kept (or_insert).
StoreCache_OrInsert ==
    /\ worker.step = "cache"
    /\ cache' = IF cache = None THEN worker.got ELSE cache
    /\ worker' = Resting
    /\ UNCHANGED <<world, breaker, call, copy, reader>>

StoreCache ==
    /\ worker.step = "cache"
    /\ cache' = worker.got
    /\ worker' = Resting
    /\ UNCHANGED <<world, breaker, call, copy, reader>>

\* CatalogStore::clear: memory, then Valkey.
Clear ==
    /\ worker.step = "clear"
    /\ cache' = None
    /\ worker' = [worker EXCEPT !.step = "delete"]
    /\ UNCHANGED <<world, breaker, call, copy, reader>>

Delete ==
    /\ worker.step = "delete"
    /\ copy' = None
    /\ worker' = Resting
    /\ UNCHANGED <<world, breaker, call, cache, reader>>

\* Mutant: no catalog is dropped.
Sweep_None ==
    /\ worker.step = "sweep"
    /\ worker' = Resting
    /\ UNCHANGED <<world, breaker, call, store, reader>>

\* The end of refresh_all: a cached catalog is dropped if its server was not
\* enabled when the cycle began.
Sweep ==
    /\ worker.step = "sweep"
    /\ worker' = IF cache = None THEN Resting ELSE [worker EXCEPT !.step = "clear"]
    /\ UNCHANGED <<world, breaker, call, store, reader>>

Refresh ==
    \/ Wake \/ Initialize \/ Greeted \/ Fetch \/ StoreCopy \/ StoreCache
    \/ Clear \/ Delete \/ Sweep

-----------------------------------------------------------------------------
(* CatalogStore::get in a handler, for each enabled server.                *)

Enumerate(r) ==
    /\ reader[r].step = "idle"
    /\ enabled
    /\ reader' = [reader EXCEPT ![r].step = "listed"]
    /\ UNCHANGED <<world, breaker, call, worker, store>>

\* From memory, or else from Valkey.
Lookup(r) ==
    /\ reader[r].step = "listed"
    /\ reader' = [reader EXCEPT ![r] = IF cache = None /\ copy # None
                                       THEN [step |-> "read", got |-> copy] ELSE Away]
    /\ UNCHANGED <<world, breaker, call, worker, store>>

Insert(r) ==
    /\ reader[r].step = "read"
    /\ cache' = reader[r].got
    /\ reader' = [reader EXCEPT ![r] = Away]
    /\ UNCHANGED <<world, breaker, call, worker, copy>>

-----------------------------------------------------------------------------
(* The server, the bundle, Valkey, the clock.                              *)

Event ==
    /\ faults < MaxFaults
    /\ faults' = faults + 1

\* Any of the requests in flight are lost with it.
ServerFails ==
    /\ answers
    /\ Event
    /\ server' = "fails"
    /\ \E lost \in SUBSET {c \in Calls : call[c] = "sent"} :
        call' = [c \in Calls |-> IF c \in lost THEN "lost" ELSE call[c]]
    /\ UNCHANGED <<version, enabled, breaker, worker, store, reader>>

\* It wants credentials it is not sent, or does not know one of the methods.
ServerRefuses ==
    /\ server = "serves"
    /\ Event
    /\ server' = "refuses"
    /\ UNCHANGED <<version, enabled, breaker, call, worker, store, reader>>

ServerReturns ==
    /\ server # "serves"
    /\ server' = "serves"
    /\ UNCHANGED <<version, enabled, faults, breaker, call, worker, store, reader>>

ServerChanges ==
    /\ version < MaxVersions
    /\ version' = version + 1
    /\ UNCHANGED <<server, enabled, faults, breaker, call, worker, store, reader>>

\* watch_config puts another bundle in place.
Reconfigure ==
    /\ Event
    /\ enabled' = ~enabled
    /\ UNCHANGED <<server, version, breaker, call, worker, store, reader>>

\* CATALOG_TTL has passed, or Valkey has lost its data.
ExpireCopy ==
    /\ copy # None
    /\ Event
    /\ copy' = None
    /\ UNCHANGED <<server, version, enabled, breaker, call, worker, cache, reader>>

Tick ==
    /\ openFor > 0
    /\ openFor' = openFor - 1
    /\ UNCHANGED <<world, failures, call, worker, store, reader>>

Next ==
    \/ \E c \in Calls : Route(c) \/ Send(c) \/ Return(c) \/ HangUp(c)
    \/ Refresh
    \/ \E r \in Readers : Enumerate(r) \/ Lookup(r) \/ Insert(r)
    \/ ServerFails \/ ServerRefuses \/ ServerReturns \/ ServerChanges
    \/ Reconfigure \/ ExpireCopy \/ Tick

Spec == Init /\ [][Next]_vars

\* The worker sleeps for a fixed time and then goes on; every request has a
\* timeout; handlers that have begun are scheduled; time passes.  Nobody has
\* to send a request, and the server need not come back.
Fairness ==
    /\ WF_vars(Refresh) /\ WF_vars(Tick)
    /\ \A c \in Calls : WF_vars(Send(c) \/ Return(c))
    /\ \A r \in Readers : WF_vars(Lookup(r) \/ Insert(r))

FairSpec == Spec /\ Fairness

-----------------------------------------------------------------------------
(* Properties.                                                             *)

\* Types of the breaker, the store and the workers' locals.
TypeOK ==
    /\ server \in {"fails", "refuses", "serves"} /\ enabled \in BOOLEAN
    /\ version \in 1 .. MaxVersions
    /\ failures \in 1 .. Threshold \cup {None}
    /\ openFor \in 0 .. Reset
    /\ call \in [Calls -> {"idle", "routed", "sent", "lost"}]
    /\ worker \in [step : {"sleep", "initialize", "greet", "fetch", "copy", "cache",
                           "clear", "delete", "sweep"},
                   session : BOOLEAN, list : Lists, got : Catalogs]
    /\ cache \in Catalogs \cup {None} /\ copy \in Catalogs \cup {None}
    /\ reader \in [Readers -> [step : {"idle", "listed", "read"}, got : Catalogs]]
    /\ faults \in Nat

\* What one refresh of the server can have fetched, list after list: something,
\* nothing the server has not had, and no list newer than the ones after it.
OneRefresh(catalog) ==
    /\ catalog # Nothing
    /\ \A l \in Lists : catalog[l] <= version
    /\ \A k, l \in Lists :
        k < l /\ catalog[k] # Empty /\ catalog[l] # Empty => catalog[k] <= catalog[l]

\* "Failed to fetch catalog; cleared": the catalogs that handlers are given, from
\* memory, from Valkey or on their way from one to the other, are each what one
\* refresh has fetched, however the worker and the handlers interleave and whatever
\* lists could not be had: never the parts of two, never a list of an outage alone.
CatalogWhole ==
    \A catalog \in {cache, copy}
                   \cup {reader[r].got : r \in {q \in Readers : reader[q].step = "read"}} :
        catalog # None => OneRefresh(catalog)

\* Once the server answers for good its circuit closes and stays closed, whether
\* or not it serves what it is asked and anybody sends it requests: "the periodic
\* refresh doubles as the recovery probe".  Failures of requests that were in
\* flight come in late.
CircuitCloses == <>[](answers /\ enabled) => <>[](failures = None)

\* Once the server gives its lists to whoever has a session, and stays as it is,
\* the catalog in memory is complete and current, although handlers put older
\* copies from Valkey there, lists that could not be fetched have been stored as
\* empty, and a refresh gets no session while the circuit is open.
CatalogCurrent ==
    <>[](server = "serves" /\ enabled) => <>[](cache = [l \in Lists |-> version])

\* The catalog of a server that is disabled for good leaves the memory, although
\* a handler that has seen the server enabled may put it back.
DisabledGone == <>[](~enabled) => <>[](cache = None)

\* "After reset_seconds, the circuit half-opens (one request allowed); a success
\* closes it, a failure re-opens it."
HalfOpenOne ==
    [][\A c \in Calls :
        (Send(c) /\ call'[c] # "idle" /\ failures = Threshold)
            => \A d \in Calls \ {c} : call[d] \notin {"sent", "lost"}]_vars

=============================================================================
