------------------------------ MODULE McpCalls ------------------------------
(***************************************************************************)
(* A tools/call, resources/read or prompts/get request on its way through  *)
(* the MCP gateway (mcp-gateway-rs): the handler of POST /mcp, the two     *)
(* limits it keeps in Valkey, and the watcher that swaps the configuration *)
(* under it.                                                               *)
(*                                                                         *)
(* Every await of the handler is a step of its own.  Who sends a request,  *)
(* and whether its token and session are good, is a choice: a request that *)
(* is turned away before the limits leaves no trace in them.               *)
(***************************************************************************)
EXTENDS Integers, FiniteSets, Functions

CONSTANTS
    Ids,        \* identities
    Calls,      \* requests the gateway has at a time
    Limits,     \* the concurrent_limit of the bundles the backend writes
    MaxRpm,     \* requests per window
    Window,     \* WINDOW_SECONDS
    SlotTTL,    \* CONCURRENT_SAFETY_TTL
    FailClosed, \* MCP_RATELIMIT_FAIL_CLOSED
    None,
    Faults,     \* which of AllFaults may happen
    MaxTime,    \* bound: ticks of the clock
    MaxCalls,   \* bound: requests in a behaviour
    MaxFaults   \* bound: faults in a behaviour

\* drop: the client goes away, and its handler with it; unlink: the connection to
\* Valkey breaks; early: both also between the first INCR of a key and its EXPIRE;
\* restart: the gateway is restarted; reload: the bundle changes.
AllFaults == {"drop", "early", "unlink", "restart", "reload"}

ASSUME CallsAssumption ==
    /\ Limits \subseteq Nat /\ Limits # {}
    /\ MaxRpm \in Nat \ {0} /\ Window \in Nat \ {0} /\ SlotTTL \in Nat \ {0}
    /\ FailClosed \in BOOLEAN
    /\ None \notin Int \cup Ids
    /\ Faults \subseteq AllFaults
    /\ IsFiniteSet(Calls)

VARIABLES
    config,   \* the bundle in memory: whether it knows anybody, its concurrent_limit
    linked,   \* the multiplexed connection to Valkey works
    now,      \* the clock
    conc,     \* conc[i]: the key mcp:gw:conc:i, its value, and when it expires
    window,   \* window[i]: members of the sorted set mcp:gw:rl:i:tool
    call,     \* per call: its step, its identity, now and ZCARD as sliding_window read them
    \* History variables, read by no guard.
    held,     \* calls whose INCR is still counted in the key
    leaked,   \* leaked[i]: counted slots that no call will give back
    spoiled,  \* identities whose key was decremented for a slot it did not count
    admitted, \* admitted[i][t]: calls the window let through, by their time
    calls, faults

history == <<held, leaked, spoiled, admitted>>
bounds == <<calls, faults>>
vars == <<config, linked, now, conc, window, call, held, leaked, spoiled, admitted, calls, faults>>

Bundles == [open : {TRUE}, limit : Limits]
\* ConfigBundle::default(): no identities, no servers, limit 0.
DefaultBundle == [open |-> FALSE, limit |-> 0]
Idle == [pc |-> "idle", who |-> None, stamp |-> 0, card |-> 0]
NoKey == [there |-> FALSE, n |-> 0, exp |-> None]

Init ==
    /\ config \in Bundles
    /\ linked = TRUE
    /\ now = 0
    /\ conc = [i \in Ids |-> NoKey]
    /\ window = [i \in Ids |-> {}]
    /\ call = [c \in Calls |-> Idle]
    /\ held = {}
    /\ leaked = [i \in Ids |-> 0]
    /\ spoiled = {}
    /\ admitted = [i \in Ids |-> [t \in 0 .. MaxTime |-> 0]]
    /\ calls = 0
    /\ faults = 0

\* A call goes on to its next step; one that ends leaves nothing behind.
Goto(c, from, to) ==
    /\ call[c].pc = from
    /\ call' = [call EXCEPT ![c] = IF to = "idle" THEN Idle ELSE [@ EXCEPT !.pc = to]]

-----------------------------------------------------------------------------
(* handle_post and handle_call up to the limits.                           *)

\* The bundle must know the identity, and the session must be in Valkey.
Post(c, i) ==
    /\ calls < MaxCalls
    /\ call[c].pc = "idle"
    /\ config.open /\ linked
    /\ call' = [call EXCEPT ![c] = [pc |-> "trim", who |-> i, stamp |-> now, card |-> 0]]
    /\ calls' = calls + 1
    /\ UNCHANGED <<config, linked, now, conc, window, history, faults>>

\* sliding_window: ZREMRANGEBYSCORE, ZCARD, then ZADD.
Trim(c) ==
    LET i == call[c].who IN
    /\ Goto(c, "trim", "count")
    /\ linked
    /\ window' = [window EXCEPT ![i] = {m \in @ : m[1] > call[c].stamp - Window}]
    /\ UNCHANGED <<config, linked, now, conc, history, bounds>>

\* Mutant: the call that finds the window full is let through.
Count_AtMax(c) ==
    LET n == Cardinality(window[call[c].who]) IN
    /\ call[c].pc = "count"
    /\ linked
    /\ call' = [call EXCEPT ![c] = IF n > MaxRpm THEN Idle ELSE [@ EXCEPT !.pc = "add", !.card = n]]
    /\ UNCHANGED <<config, linked, now, conc, window, history, bounds>>

Count(c) ==
    LET n == Cardinality(window[call[c].who]) IN
    /\ call[c].pc = "count"
    /\ linked
    /\ call' = [call EXCEPT ![c] = IF n >= MaxRpm THEN Idle ELSE [@ EXCEPT !.pc = "add", !.card = n]]
    /\ UNCHANGED <<config, linked, now, conc, window, history, bounds>>

\* The member is named after the time and the count, so that two calls that
\* read the same count in the same millisecond write the same member.
Add(c) ==
    LET i == call[c].who IN
    /\ call[c].pc = "add"
    /\ linked
    /\ call' = [call EXCEPT ![c] = [pc |-> "scan", who |-> i, stamp |-> 0, card |-> 0]]
    /\ window' = [window EXCEPT ![i] = @ \cup {<<call[c].stamp, call[c].card>>}]
    /\ admitted' = [admitted EXCEPT ![i][call[c].stamp] = @ + 1]
    /\ UNCHANGED <<config, linked, now, conc, held, leaked,
                   spoiled, bounds>>

\* check_rate_limit on an error: fail_open.
RateError(c) ==
    /\ \E from \in {"trim", "count", "add"} :
        Goto(c, from, IF FailClosed THEN "idle" ELSE "scan")
    /\ ~linked
    /\ UNCHANGED <<config, linked, now, conc, window, history, bounds>>

\* DLP and guardrail rules on the request.
Scan(c) ==
    /\ \E next \in {"idle", "acquire"} : Goto(c, "scan", next)
    /\ UNCHANGED <<config, linked, now, conc, window, history, bounds>>

-----------------------------------------------------------------------------
(* acquire_concurrent_slot, the call upstream, release_concurrent_slot.    *)

\* The limit is read from the bundle of this moment.
NoLimit(c) ==
    /\ Goto(c, "acquire", "upstream")
    /\ config.limit <= 0
    /\ UNCHANGED <<config, linked, now, conc, window, history, bounds>>

\* Mutant: the comparison lets one call too many through.
Incr_OneTooMany(c) ==
    LET i == call[c].who
        count == conc[i].n + 1
    IN
    /\ Goto(c, "acquire", CASE count = 1 -> "expire"
                            [] count > config.limit + 1 -> "undo"
                            [] OTHER -> "upstream")
    /\ config.limit > 0 /\ linked
    /\ conc' = [conc EXCEPT ![i].n = count, ![i].there = TRUE]
    /\ held' = held \cup {c}
    /\ UNCHANGED <<config, linked, now, window, leaked, spoiled,
                   admitted, bounds>>

Incr(c) ==
    LET i == call[c].who
        count == conc[i].n + 1
    IN
    /\ Goto(c, "acquire", CASE count = 1 -> "expire"
                            [] count # 1 /\ count > config.limit -> "undo"
                            [] OTHER -> "upstream")
    /\ config.limit > 0 /\ linked
    /\ conc' = [conc EXCEPT ![i].n = count, ![i].there = TRUE]
    /\ held' = held \cup {c}
    /\ UNCHANGED <<config, linked, now, window, leaked, spoiled,
                   admitted, bounds>>

AcquireError(c) ==
    /\ Goto(c, "acquire", IF FailClosed THEN "idle" ELSE "upstream")
    /\ config.limit > 0 /\ ~linked
    /\ UNCHANGED <<config, linked, now, conc, window, history, bounds>>

\* Mutant: EXPIRE is left out.
Expire_None(c) ==
    /\ Goto(c, "expire", "upstream")
    /\ UNCHANGED <<config, linked, now, conc, window, history, bounds>>

\* EXPIRE does nothing to a key that is gone; an error is ignored.
Expire(c) ==
    LET i == call[c].who IN
    /\ Goto(c, "expire", "upstream")
    /\ conc' = IF linked /\ conc[i].there
               THEN [conc EXCEPT ![i].exp = now + SlotTTL] ELSE conc
    /\ UNCHANGED <<config, linked, now, window, history, bounds>>

\* DECR, if the connection works; on a missing key it starts from 0.
Decr(c) ==
    LET i == call[c].who IN
    /\ conc' = IF linked THEN [conc EXCEPT ![i].n = @ - 1, ![i].there = TRUE] ELSE conc
    /\ held' = held \ {c}
    /\ spoiled' = IF linked /\ c \notin held THEN spoiled \cup {i} ELSE spoiled
    /\ leaked' = IF ~linked /\ c \in held THEN [leaked EXCEPT ![i] = @ + 1] ELSE leaked

\* Mutant: a rejected call keeps its slot.
Undo_Keeps(c) ==
    /\ Goto(c, "undo", "idle")
    /\ held' = held \ {c}
    /\ UNCHANGED <<config, linked, now, conc, window, leaked, spoiled, admitted, bounds>>

\* The call was over the limit: it gives its slot back and is rejected.
Undo(c) ==
    /\ Goto(c, "undo", "idle")
    /\ Decr(c)
    /\ UNCHANGED <<config, linked, now, window, admitted, bounds>>

\* The upstream has answered, or the request to it has failed.
Answered(c) ==
    /\ Goto(c, "upstream", "release")
    /\ UNCHANGED <<config, linked, now, conc, window, history, bounds>>

Release(c) ==
    /\ Goto(c, "release", "idle")
    /\ Decr(c)
    /\ UNCHANGED <<config, linked, now, window, admitted, bounds>>

Handle(c) ==
    \/ \E i \in Ids : Post(c, i)
    \/ Trim(c) \/ Count(c) \/ Add(c) \/ RateError(c) \/ Scan(c)
    \/ NoLimit(c) \/ Incr(c) \/ AcquireError(c) \/ Expire(c)
    \/ Undo(c) \/ Answered(c) \/ Release(c)

-----------------------------------------------------------------------------
(* Clients that go away, Valkey, the clock, the watcher, the process.      *)

Fault(f) ==
    /\ f \in Faults
    /\ faults < MaxFaults
    /\ faults' = faults + 1

\* Without the fault "early", nothing stops a handler between INCR and EXPIRE.
NoneEarly(C) == "early" \in Faults \/ \A c \in C : call[c].pc # "expire"

\* The calls C are gone, and with them the slots they hold.
Leak(C) ==
    /\ held' = held \ C
    /\ leaked' = [i \in Ids |-> leaked[i] + Cardinality({c \in C \cap held : call[c].who = i})]

\* The handler's future is dropped at whatever await it is.
Drop(c) ==
    /\ call[c].pc # "idle"
    /\ NoneEarly({c})
    /\ Fault("drop")
    /\ call' = [call EXCEPT ![c] = Idle]
    /\ Leak({c})
    /\ UNCHANGED <<config, linked, now, conc, window, spoiled,
                   admitted, calls>>

Of(i, C) == {c \in C : call[c].who = i}

\* Nor, without it, is the reply lost of an INCR that is to be followed by EXPIRE.
NoFirst(C) ==
    \/ "early" \in Faults
    \/ \A i \in Ids : conc[i].n < 1 => Of(i, C) = {}

\* A handler that gets an error from a limit: fail_open.
Failed(c, next) == IF FailClosed THEN Idle ELSE [call[c] EXCEPT !.pc = next]

\* A MultiplexedConnection does not reconnect.  Of the ZADDs and INCRs that are
\* under way some have been executed, and their replies are lost with it.
Unlink(added, taken) ==
    /\ linked
    /\ NoneEarly(Calls) /\ NoFirst(taken)
    /\ Fault("unlink")
    /\ \A c \in added : call[c].pc = "add"
    /\ \A c \in taken : call[c].pc = "acquire" /\ config.limit > 0
    /\ linked' = FALSE
    /\ window' = [i \in Ids |-> window[i]
                      \cup {<<call[c].stamp, call[c].card>> : c \in Of(i, added)}]
    /\ conc' = [i \in Ids |->
                  [conc[i] EXCEPT !.n = @ + Cardinality(Of(i, taken)),
                                  !.there = @ \/ Of(i, taken) # {}]]
    /\ leaked' = [i \in Ids |-> leaked[i] + Cardinality(Of(i, taken))]
    /\ call' = [c \in Calls |-> IF c \in added THEN Failed(c, "scan")
                                 ELSE IF c \in taken THEN Failed(c, "upstream")
                                 ELSE call[c]]
    /\ UNCHANGED <<config, now, held, spoiled, admitted, calls>>

Restart ==
    /\ NoneEarly(Calls)
    /\ Fault("restart")
    /\ config' \in Bundles
    /\ linked' = TRUE
    /\ call' = [c \in Calls |-> Idle]
    /\ Leak(Calls)
    /\ UNCHANGED <<now, conc, window, spoiled, admitted, calls>>

\* Mutant: a bundle that cannot be read leaves no configuration at all.
Reload_None ==
    /\ Fault("reload")
    /\ config' \in Bundles \cup {None}
    /\ config' # config
    /\ UNCHANGED <<linked, now, conc, window, call, history, calls>>

\* watch_config: the new bundle, or the default one if it cannot be read.
Reload ==
    /\ Fault("reload")
    /\ config' \in Bundles \cup {DefaultBundle}
    /\ config' # config
    /\ UNCHANGED <<linked, now, conc, window, call, history, calls>>

Expired == {i \in Ids : conc[i].exp = now + 1}

\* Time passes; a key whose time has come is gone, whoever holds slots.
Tick ==
    /\ now < MaxTime
    /\ now' = now + 1
    /\ conc' = [i \in Ids |-> IF i \in Expired THEN NoKey ELSE conc[i]]
    /\ held' = {c \in held : call[c].who \notin Expired}
    /\ leaked' = [i \in Ids |-> IF i \in Expired THEN 0 ELSE leaked[i]]
    /\ UNCHANGED <<config, linked, window, call, spoiled, admitted, bounds>>

Next ==
    \/ \E c \in Calls : Handle(c) \/ Drop(c)
    \/ \E added, taken \in SUBSET Calls : Unlink(added, taken)
    \/ Restart \/ Reload \/ Tick

Spec == Init /\ [][Next]_vars

-----------------------------------------------------------------------------
(* Properties.                                                             *)

Steps == {"idle", "trim", "count", "add", "scan", "acquire", "expire", "undo",
          "upstream", "release"}

\* Types of the limits' keys and of the handlers' locals.
TypeOK ==
    /\ config \in Bundles \cup {DefaultBundle}
    /\ linked \in BOOLEAN /\ now \in Nat
    /\ conc \in [Ids -> [there : BOOLEAN, n : Int, exp : Nat \cup {None}]]
    /\ window \in [Ids -> SUBSET (Nat \X Nat)]
    /\ call \in [Calls -> [pc : Steps, who : Ids \cup {None}, stamp : Nat, card : Nat]]
    /\ held \subseteq Calls /\ leaked \in [Ids -> Nat] /\ spoiled \subseteq Ids
    /\ calls \in Nat /\ faults \in Nat

Counted == {c \in held : call[c].pc \in {"expire", "upstream", "release"}}

\* At no time does an identity have more counted calls upstream than the
\* largest limit, whatever the handlers' INCRs and DECRs interleave with,
\* unless its key has been decremented for a slot it did not count.
SlotsBound ==
    \A i \in Ids \ spoiled : \A m \in Limits :
        (\A l \in Limits : l <= m) => Cardinality(Of(i, Counted)) <= m

\* The key counts exactly the calls that hold a slot and the slots that were
\* leaked by calls that are gone, or whose INCR was answered with an error.
SlotsExact ==
    \A i \in Ids \ spoiled :
        conc[i].n = Cardinality(Of(i, held)) + leaked[i]

\* Slots that nobody will release run out with the key: an identity is not
\* blocked for good (CONCURRENT_SAFETY_TTL).
LeakedSlotsExpire ==
    \A i \in Ids : conc[i].n > 0 /\ Of(i, held) = {} => conc[i].exp # None

\* sliding_window counts before it adds, so that calls in the handler together
\* may all pass; but the sorted set never grows beyond the limit by more than
\* they are: whoever counts next is turned away until members have expired.
WindowBound ==
    \A i \in Ids : Cardinality(window[i]) <= MaxRpm - 1 + Cardinality(Calls)

\* "Check if a request is within the per-identity/tool sliding window": a window
\* has at most MaxRpm calls.  Calls that count together pass together, those of one
\* millisecond overwrite each other's member, and a call that was stamped before
\* the window went on is let through after it.
WindowLimit ==
    \A i \in Ids : \A t \in 0 .. now :
        SumFunctionOnSet(admitted[i], {u \in 0 .. t : u > t - Window}) <= MaxRpm

\* release_concurrent_slot: "this function is only reached when a slot was
\* actually acquired (counter >= 1), making the DECR safe".
ReleaseSafe ==
    [][\A c \in Calls : Release(c) /\ linked => conc[call[c].who].n >= 1]_vars

=============================================================================
