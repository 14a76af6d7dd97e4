--------------------------- MODULE McpCallsProofs ---------------------------
(***************************************************************************)
(* Proofs about McpCalls for any number of identities and calls, any       *)
(* limits, any bounds and any choice of faults, and, at the end, about     *)
(* McpUpstream for any number of requests, handlers, lists and outages.    *)
(***************************************************************************)
EXTENDS McpCalls, FiniteSetTheorems, TLAPS

\* A call that has begun has an identity, and windows are finite.
Begun == \A c \in Calls : call[c].pc # "idle" => call[c].who \in Ids
FiniteWindows == \A i \in Ids : IsFiniteSet(window[i])
TInv == TypeOK /\ Begun /\ FiniteWindows

\* A handler that goes to another step keeps its type.
CallType == [pc : Steps, who : Ids \cup {None}, stamp : Nat, card : Nat]

LEMMA CallTypes ==
    ASSUME TInv, NEW c \in Calls, NEW r \in CallType, r.pc # "idle" => r.who \in Ids,
           call' = [call EXCEPT ![c] = r]
    PROVE  /\ call' \in [Calls -> [pc : Steps, who : Ids \cup {None},
                                   stamp : Nat, card : Nat]]
           /\ Begun'
<1>1. call \in [Calls -> CallType]
    BY DEF TInv, TypeOK, CallType
<1>2. call'[c] = r /\ \A d \in Calls \ {c} : call'[d] = call[d]
    BY <1>1
<1>3. call' \in [Calls -> CallType]
    BY <1>1
<1>4. Begun'
    BY <1>2 DEF Begun, TInv
<1> QED  BY <1>3, <1>4 DEF CallType

LEMMA StepTypes ==
    ASSUME TInv, NEW c \in Calls, call[c].who \in Ids, NEW to \in Steps \ {"idle"},
           call' = [call EXCEPT ![c].pc = to]
    PROVE  /\ call' \in [Calls -> [pc : Steps, who : Ids \cup {None},
                                   stamp : Nat, card : Nat]]
           /\ Begun'
<1> DEFINE r == [call[c] EXCEPT !.pc = to]
<1>1. call[c] \in CallType
    BY DEF TInv, TypeOK, CallType
<1>2. r \in CallType /\ r.who = call[c].who
    BY <1>1 DEF CallType
<1>3. call' = [call EXCEPT ![c] = r]
    OBVIOUS
<1> HIDE DEF r
<1> QED  BY <1>2, <1>3, CallTypes

LEMMA IdleTypes ==
    ASSUME TInv, NEW c \in Calls, call' = [call EXCEPT ![c] = Idle]
    PROVE  /\ call' \in [Calls -> [pc : Steps, who : Ids \cup {None},
                                   stamp : Nat, card : Nat]]
           /\ Begun'
BY CallTypes DEF Idle, CallType, Steps

\* The steps of sliding_window keep the types: its ZCARD is a number.
LEMMA WindowTypes ==
    ASSUME TInv, NEW c \in Calls, Trim(c) \/ Count(c) \/ Add(c)
    PROVE  TInv'
<1> USE CallsAssumption DEF TInv, TypeOK, Begun, Steps, Idle
<1>1. CASE Trim(c)
  <2> DEFINE i == call[c].who
             kept == {m \in window[i] : m[1] > call[c].stamp - Window}
  <2>1. i \in Ids /\ kept \in SUBSET window[i] /\ IsFiniteSet(window[i])
      BY <1>1 DEF Trim, Goto, FiniteWindows
  <2>2. IsFiniteSet(kept)
      BY <2>1, FS_Subset
  <2>3. window' = [window EXCEPT ![i] = kept]
      BY <1>1 DEF Trim
  <2>4. FiniteWindows'
      BY <2>1, <2>2, <2>3 DEF FiniteWindows
  <2>5. TypeOK' /\ Begun'
      BY <1>1, <2>1, <2>3 DEF Trim, Goto, history, bounds
  <2> QED  BY <2>4, <2>5
<1>2. CASE Count(c)
  <2>1. Cardinality(window[call[c].who]) \in Nat
      BY <1>2, FS_CardinalityType DEF Count, FiniteWindows
  <2> DEFINE n == Cardinality(window[call[c].who])
             r == [call[c] EXCEPT !.pc = "add", !.card = n]
  <2>2. /\ call[c].pc = "count" /\ call[c].who \in Ids
        /\ \/ call' = [call EXCEPT ![c] = Idle]
           \/ call' = [call EXCEPT ![c] = r]
        /\ UNCHANGED <<config, linked, now, conc, window, history, bounds>>
      BY <1>2 DEF Count
  <2>3. /\ call' \in [Calls -> [pc : Steps, who : Ids \cup {None},
                                stamp : Nat, card : Nat]]
        /\ Begun'
    <3>1. CASE call' = [call EXCEPT ![c] = Idle]
        BY <3>1, IdleTypes
    <3>2. CASE call' = [call EXCEPT ![c] = r]
      <4>1. call[c] \in CallType
          BY DEF CallType
      <4>2. r \in CallType /\ r.who = call[c].who
          BY <2>1, <4>1 DEF CallType
      <4> HIDE DEF r
      <4> QED  BY <2>2, <3>2, <4>2, CallTypes
    <3> QED  BY <2>2, <3>1, <3>2
  <2>4. TypeOK' /\ FiniteWindows'
      BY <2>2, <2>3 DEF history, bounds, FiniteWindows
  <2> QED  BY <2>3, <2>4
<1>3. CASE Add(c)
  <2> DEFINE i == call[c].who
             m == <<call[c].stamp, call[c].card>>
  <2>1. i \in Ids /\ m \in Nat \X Nat /\ IsFiniteSet(window[i])
      BY <1>3 DEF Add, FiniteWindows
  <2>2. IsFiniteSet(window[i] \cup {m})
      BY <2>1, FS_AddElement
  <2>3. window' = [window EXCEPT ![i] = @ \cup {m}]
      BY <1>3 DEF Add
  <2>4. FiniteWindows'
      BY <2>1, <2>2, <2>3 DEF FiniteWindows
  <2>5. window' \in [Ids -> SUBSET (Nat \X Nat)]
      BY <2>1, <2>3
  <2>6. call' = [call EXCEPT ![c] = [pc |-> "scan", who |-> i, stamp |-> 0, card |-> 0]]
      BY <1>3 DEF Add
  <2>7. call' \in [Calls -> [pc : Steps, who : Ids \cup {None}, stamp : Nat, card : Nat]]
      BY <2>1, <2>6
  <2>8. Begun'
      BY <2>1, <2>6
  <2>9. UNCHANGED <<config, linked, now, conc, held, leaked, spoiled, calls, faults>>
      BY <1>3 DEF Add, bounds
  <2>10. TypeOK'
      BY <2>5, <2>7, <2>9
  <2> QED  BY <2>4, <2>8, <2>10
<1> QED  BY <1>1, <1>2, <1>3

\* DECR keeps the types of the keys and of the history.
LEMMA DecrTypes ==
    ASSUME TypeOK, Begun, NEW c \in Calls, call[c].pc # "idle", Decr(c)
    PROVE  /\ conc' \in [Ids -> [there : BOOLEAN, n : Int, exp : Nat \cup {None}]]
           /\ held' \subseteq Calls /\ leaked' \in [Ids -> Nat] /\ spoiled' \subseteq Ids
<1> USE DEF TypeOK, Begun, Decr
<1>1. call[c].who \in Ids
    OBVIOUS
<1>2. conc' \in [Ids -> [there : BOOLEAN, n : Int, exp : Nat \cup {None}]]
    BY <1>1
<1>3. held' \subseteq Calls /\ spoiled' \subseteq Ids
    BY <1>1
<1>4. leaked' \in [Ids -> Nat]
    BY <1>1
<1> QED  BY <1>2, <1>3, <1>4

\* So do the other steps of a handler.
LEMMA HandlerTypes ==
    ASSUME TInv, NEW c \in Calls, Handle(c), ~(Trim(c) \/ Count(c) \/ Add(c))
    PROVE  TInv'
<1> USE CallsAssumption DEF TInv, TypeOK, Begun, FiniteWindows, Steps, Idle, Goto, history, bounds
<1>1. ASSUME NEW i \in Ids, Post(c, i) PROVE TInv'
    BY <1>1 DEF Post
<1>2. CASE RateError(c)  BY <1>2 DEF RateError
<1>3. CASE Scan(c)  BY <1>3 DEF Scan
<1>4. CASE NoLimit(c)  BY <1>4 DEF NoLimit
<1>5. CASE Incr(c)
  <2> DEFINE i == call[c].who
             to == CASE conc[i].n + 1 = 1 -> "expire"
                     [] conc[i].n + 1 # 1 /\ conc[i].n + 1 > config.limit -> "undo"
                     [] OTHER -> "upstream"
  <2>1. i \in Ids /\ to \in Steps \ {"idle"}
      BY <1>5 DEF Incr
  <2>2. call' = [call EXCEPT ![c].pc = to]
      BY <1>5, <2>1 DEF Incr
  <2>3. conc' = [conc EXCEPT ![i].n = @ + 1, ![i].there = TRUE] /\ held' = held \cup {c}
      BY <1>5 DEF Incr
  <2>4. /\ call' \in [Calls -> [pc : Steps, who : Ids \cup {None},
                                stamp : Nat, card : Nat]]
        /\ Begun'
    <3> HIDE DEF to
    <3> QED  BY <2>1, <2>2, StepTypes
  <2>5. conc' \in [Ids -> [there : BOOLEAN, n : Int, exp : Nat \cup {None}]]
      BY <2>1, <2>3
  <2>6. UNCHANGED <<config, linked, now, window, leaked, spoiled, calls, faults>>
      BY <1>5 DEF Incr
  <2>7. TypeOK' /\ FiniteWindows'
      BY <2>3, <2>4, <2>5, <2>6
  <2> QED  BY <2>4, <2>7
<1>6. CASE AcquireError(c)
  <2>1. \/ call' = [call EXCEPT ![c] = Idle]
        \/ call' = [call EXCEPT ![c].pc = "upstream"]
      BY <1>6 DEF AcquireError
  <2>2. UNCHANGED <<config, linked, now, conc, window, held, leaked, spoiled, calls, faults>>
      BY <1>6 DEF AcquireError
  <2>3. call[c].who \in Ids
      BY <1>6 DEF AcquireError
  <2>4. call' \in [Calls -> [pc : Steps, who : Ids \cup {None}, stamp : Nat, card : Nat]]
        /\ Begun'
    <3>1. CASE call' = [call EXCEPT ![c].pc = "upstream"]
        BY <2>3, <3>1, StepTypes
    <3>2. CASE call' = [call EXCEPT ![c] = Idle]
        BY <3>2, IdleTypes
    <3> QED  BY <2>1, <3>1, <3>2
  <2>5. TypeOK' /\ FiniteWindows'
      BY <2>2, <2>4
  <2> HIDE DEF TypeOK, Begun, FiniteWindows
  <2> QED  BY <2>4, <2>5
<1>7. CASE Expire(c)
  <2>1. /\ call[c].pc = "expire" /\ call' = [call EXCEPT ![c].pc = "upstream"]
        /\ UNCHANGED <<config, linked, now, window, held, leaked, spoiled, calls, faults>>
      BY <1>7 DEF Expire
  <2>2. call[c].who \in Ids /\ now + SlotTTL \in Nat
      BY <2>1
  <2>3. \/ conc' = conc
        \/ conc' = [conc EXCEPT ![call[c].who].exp = now + SlotTTL]
      BY <1>7 DEF Expire
  <2>4. conc' \in [Ids -> [there : BOOLEAN, n : Int, exp : Nat \cup {None}]]
      BY <2>2, <2>3
  <2>5. call' \in [Calls -> [pc : Steps, who : Ids \cup {None}, stamp : Nat, card : Nat]]
        /\ Begun'
      BY <2>1, <2>2, StepTypes
  <2>6. TypeOK' /\ FiniteWindows'
      BY <2>1, <2>4, <2>5
  <2> HIDE DEF TypeOK, Begun, FiniteWindows
  <2> QED  BY <2>5, <2>6
<1>8. CASE Answered(c)  BY <1>8 DEF Answered
<1>9. CASE Undo(c)
  <2>1. Decr(c) /\ call[c].pc # "idle" /\ call' = [call EXCEPT ![c] = Idle]
      BY <1>9 DEF Undo
  <2>2. UNCHANGED <<config, linked, now, window, calls, faults>>
      BY <1>9 DEF Undo
  <2> QED  BY <2>1, <2>2, DecrTypes
<1>10. CASE Release(c)
  <2>1. Decr(c) /\ call[c].pc # "idle" /\ call' = [call EXCEPT ![c] = Idle]
      BY <1>10 DEF Release
  <2>2. UNCHANGED <<config, linked, now, window, calls, faults>>
      BY <1>10 DEF Release
  <2> QED  BY <2>1, <2>2, DecrTypes
<1> QED
    BY <1>1, <1>2, <1>3, <1>4, <1>5, <1>6, <1>7, <1>8, <1>9, <1>10 DEF Handle

\* Leaked slots are counted in numbers.
LEMMA LeakTypes ==
    ASSUME TypeOK, NEW C \in SUBSET Calls, Leak(C)
    PROVE  held' \subseteq Calls /\ leaked' \in [Ids -> Nat]
<1> DEFINE Gone(i) == {c \in C \cap held : call[c].who = i}
<1>1. ASSUME NEW i \in Ids PROVE Cardinality(Gone(i)) \in Nat
    BY CallsAssumption, FS_Subset, FS_CardinalityType
<1>2. leaked' = [i \in Ids |-> leaked[i] + Cardinality(Gone(i))]
    BY DEF Leak
<1> HIDE DEF Gone
<1>3. leaked' \in [Ids -> Nat]
    BY <1>1, <1>2 DEF TypeOK
<1> QED
    BY <1>3 DEF TypeOK, Leak

\* A handler that gets an error keeps its identity, or ends.
LEMMA FailedType ==
    ASSUME TInv, NEW c \in Calls, call[c].pc # "idle", NEW next \in Steps \ {"idle"}
    PROVE  /\ Failed(c, next) \in CallType
           /\ Failed(c, next).pc \in {"idle", next}
           /\ Failed(c, next).pc # "idle" => Failed(c, next).who = call[c].who
<1>1. call[c] \in CallType
    BY DEF TInv, TypeOK, CallType
<1> QED  BY <1>1 DEF Failed, Idle, CallType, Steps

\* What the step in which the connection breaks makes of a call.
LEMMA UnlinkCalls ==
    ASSUME TInv, NEW added \in SUBSET Calls, NEW taken \in SUBSET Calls,
           Unlink(added, taken), NEW c \in Calls
    PROVE  /\ call'[c] \in CallType
           /\ call'[c].pc # "idle" => call'[c].who = call[c].who
           /\ \/ call'[c] = call[c]
              \/ call[c].pc = "add" /\ call'[c].pc \in {"idle", "scan"}
              \/ call[c].pc = "acquire" /\ call'[c].pc \in {"idle", "upstream"}
           /\ c \in added => call'[c].pc \in {"idle", "scan"}
<1>1. call'[c] = IF c \in added THEN Failed(c, "scan")
                 ELSE IF c \in taken THEN Failed(c, "upstream") ELSE call[c]
    BY DEF Unlink
<1>2. CASE c \in added
  <2>1. call[c].pc = "add"
      BY <1>2 DEF Unlink
  <2> QED  BY <1>1, <1>2, <2>1, FailedType DEF Steps
<1>3. CASE c \notin added /\ c \in taken
  <2>1. call[c].pc = "acquire"
      BY <1>3 DEF Unlink
  <2> QED  BY <1>1, <1>3, <2>1, FailedType DEF Steps
<1>4. CASE c \notin added /\ c \notin taken
  <2>1. call[c] \in CallType
      BY DEF TInv, TypeOK, CallType
  <2> QED  BY <1>1, <1>4, <2>1
<1> QED  BY <1>2, <1>3, <1>4

\* The calls of one identity among some calls, and the members they add.
LEMMA SomeFinite ==
    ASSUME NEW C \in SUBSET Calls, NEW i \in Ids
    PROVE  /\ IsFiniteSet(Of(i, C)) /\ Cardinality(Of(i, C)) \in Nat
           /\ Of(i, C) \in SUBSET Calls
           /\ IsFiniteSet({<<call[c].stamp, call[c].card>> : c \in Of(i, C)})
           /\ Cardinality({<<call[c].stamp, call[c].card>> : c \in Of(i, C)})
                 <= Cardinality(Of(i, C))
<1> DEFINE f == [c \in Of(i, C) |-> <<call[c].stamp, call[c].card>>]
           S == {<<call[c].stamp, call[c].card>> : c \in Of(i, C)}
<1>1. Of(i, C) \in SUBSET Calls
    BY DEF Of
<1>2. IsFiniteSet(Of(i, C))
    BY <1>1, CallsAssumption, FS_Subset
<1>3. f \in Surjection(Of(i, C), S)
    BY DEF Surjection
<1> HIDE DEF f, S
<1>4. IsFiniteSet(S) /\ Cardinality(S) <= Cardinality(Of(i, C))
    BY <1>2, <1>3, FS_Surjection
<1> QED  BY <1>1, <1>2, <1>4, FS_CardinalityType DEF S

LEMMA UnlinkTypes ==
    ASSUME TInv, NEW added \in SUBSET Calls, NEW taken \in SUBSET Calls,
           Unlink(added, taken)
    PROVE  TInv'
<1>1. call' \in [Calls -> CallType]
  <2>1. call' = [c \in Calls |-> call'[c]]
      BY DEF Unlink
  <2>2. \A c \in Calls : call'[c] \in CallType
      BY UnlinkCalls
  <2> QED  BY <2>1, <2>2
<1>2. Begun'
  <2>1. ASSUME NEW c \in Calls, call'[c].pc # "idle" PROVE call'[c].who \in Ids
    <3>1. call'[c].who = call[c].who /\ call[c].pc # "idle"
        BY <2>1, UnlinkCalls
    <3> QED  BY <3>1 DEF TInv, Begun
  <2> QED  BY <2>1 DEF Begun
<1>3. conc' \in [Ids -> [there : BOOLEAN, n : Int, exp : Nat \cup {None}]]
  <2>1. ASSUME NEW i \in Ids
        PROVE  conc'[i] \in [there : BOOLEAN, n : Int, exp : Nat \cup {None}]
    <3>1. /\ conc[i] \in [there : BOOLEAN, n : Int, exp : Nat \cup {None}]
          /\ Cardinality(Of(i, taken)) \in Nat
        BY SomeFinite DEF TInv, TypeOK
    <3>2. conc[i].n + Cardinality(Of(i, taken)) \in Int
        BY <3>1
    <3>3. (conc[i].there \/ Of(i, taken) # {}) \in BOOLEAN
        BY Zenon
    <3>4. conc'[i] = [conc[i] EXCEPT !.n = @ + Cardinality(Of(i, taken)),
                                    !.there = @ \/ Of(i, taken) # {}]
        BY DEF Unlink
    <3> QED  BY <3>1, <3>2, <3>3, <3>4
  <2> QED  BY <2>1 DEF Unlink
<1>4. leaked' \in [Ids -> Nat]
  <2>1. \A i \in Ids : leaked[i] \in Nat /\ Cardinality(Of(i, taken)) \in Nat
      BY SomeFinite DEF TInv, TypeOK
  <2>2. leaked' = [i \in Ids |-> leaked[i] + Cardinality(Of(i, taken))]
      BY DEF Unlink
  <2> QED  BY <2>1, <2>2
<1>5. ASSUME NEW i \in Ids
      PROVE  window'[i] \in SUBSET (Nat \X Nat) /\ IsFiniteSet(window'[i])
  <2> DEFINE S == {<<call[c].stamp, call[c].card>> : c \in Of(i, added)}
  <2>1. window'[i] = window[i] \cup S
      BY DEF Unlink
  <2>2. \A c \in Of(i, added) : call[c].stamp \in Nat /\ call[c].card \in Nat
      BY DEF TInv, TypeOK, Of
  <2>3. S \in SUBSET (Nat \X Nat)
      BY <2>2
  <2>4. IsFiniteSet(S)
      BY SomeFinite
  <2>5. window[i] \in SUBSET (Nat \X Nat) /\ IsFiniteSet(window[i])
      BY DEF TInv, TypeOK, FiniteWindows
  <2> HIDE DEF S
  <2> QED  BY <2>1, <2>3, <2>4, <2>5, FS_Union
<1>6. window' \in [Ids -> SUBSET (Nat \X Nat)] /\ FiniteWindows'
    BY <1>5 DEF FiniteWindows, Unlink
<1>7. faults' \in Nat
  <2>1. faults \in Nat
      BY DEF TInv, TypeOK
  <2>2. faults' = faults + 1
      BY DEF Unlink, Fault
  <2> QED  BY <2>1, <2>2
<1>8. linked' \in BOOLEAN
    BY Zenon DEF Unlink
<1> QED
    BY <1>1, <1>2, <1>3, <1>4, <1>6, <1>7, <1>8 DEF TInv, TypeOK, CallType, Unlink

\* Clients that go away, faults, reloads and the clock keep the types too.
LEMMA WorldTypes ==
    ASSUME TInv, \/ \E c \in Calls : Drop(c)
                 \/ (\E added, taken \in SUBSET Calls : Unlink(added, taken))
                 \/ Restart \/ Reload \/ Tick \/ UNCHANGED vars
    PROVE  TInv'
<1> USE CallsAssumption DEF TInv, TypeOK, Begun, FiniteWindows, Steps, Idle, history, bounds, Fault
<1>1. ASSUME NEW c \in Calls, Drop(c) PROVE TInv'
    BY <1>1, LeakTypes DEF Drop
<1>2. ASSUME NEW added \in SUBSET Calls, NEW taken \in SUBSET Calls,
             Unlink(added, taken)
      PROVE  TInv'
    BY <1>2, UnlinkTypes
<1>3. CASE Restart
  <2>1. linked' \in BOOLEAN /\ config' \in Bundles
      BY <1>3 DEF Restart
  <2>2. held' \subseteq Calls /\ leaked' \in [Ids -> Nat]
      BY <1>3, LeakTypes DEF Restart
  <2> QED  BY <1>3, <2>1, <2>2 DEF Restart
<1>4. CASE Reload
    BY <1>4 DEF Reload
<1>5. CASE Tick
  <2>1. conc' \in [Ids -> [there : BOOLEAN, n : Int, exp : Nat \cup {None}]]
      BY <1>5 DEF Tick, NoKey
  <2> QED  BY <1>5, <2>1 DEF Tick
<1>6. CASE UNCHANGED vars
    BY <1>6 DEF vars
<1> QED
    BY <1>1, <1>2, <1>3, <1>4, <1>5, <1>6

LEMMA TypesKept == TInv /\ [Next]_vars => TInv'
BY WindowTypes, HandlerTypes, WorldTypes DEF Next, Handle

LEMMA TypesInit == Init => TInv
<1> SUFFICES ASSUME Init PROVE TInv
    OBVIOUS
<1>1. config \in Bundles /\ linked \in BOOLEAN
    BY DEF Init
<1>2. TypeOK
    BY <1>1 DEF Init, TypeOK, Idle, NoKey, Steps
<1>3. Begun
    BY DEF Init, Begun, Idle
<1>4. FiniteWindows
    BY FS_EmptySet DEF Init, FiniteWindows
<1> QED
    BY <1>2, <1>3, <1>4 DEF TInv

\* The bundle, the keys of both limits and the locals of every handler are well
\* typed in every state of the gateway, whatever clients, Valkey and watch_config
\* do.
THEOREM TypeCorrect == Spec => []TypeOK
<1>1. TInv => TypeOK
    BY DEF TInv
<1> QED
    BY <1>1, TypesInit, TypesKept, PTL DEF Spec

-----------------------------------------------------------------------------
(* The slots.                                                              *)

CountedSteps == {"expire", "upstream", "release"}

\* A call that is counted in its key is past its INCR.
Holding == \A c \in held : call[c].pc \in CountedSteps \cup {"undo"}

SInv == TInv /\ Holding /\ SlotsExact /\ SlotsBound

\* The calls of one identity that hold a slot can be counted.
LEMMA HeldFinite ==
    ASSUME TypeOK, NEW i \in Ids
    PROVE  /\ IsFiniteSet(Of(i, held)) /\ Cardinality(Of(i, held)) \in Nat
           /\ Of(i, Counted) \subseteq Of(i, held)
           /\ IsFiniteSet(Of(i, Counted)) /\ Cardinality(Of(i, Counted)) \in Nat
           /\ Cardinality(Of(i, Counted)) <= Cardinality(Of(i, held))
<1>1. held \in SUBSET Calls
    BY DEF TypeOK
<1>2. Of(i, held) \in SUBSET Calls /\ Of(i, Counted) \in SUBSET Of(i, held)
    BY <1>1 DEF Of, Counted
<1>3. IsFiniteSet(Of(i, held))
    BY <1>2, CallsAssumption, FS_Subset
<1> QED
    BY <1>2, <1>3, FS_Subset, FS_CardinalityType

\* Steps that leave the key and the set of held slots alone.
LEMMA QuietStep ==
    ASSUME SInv, TInv', held' = held, leaked' = leaked, spoiled' = spoiled,
           \A i \in Ids : conc'[i].n = conc[i].n,
           \A d \in held : /\ call'[d].who = call[d].who
                           /\ \/ call'[d].pc = call[d].pc
                              \/ call[d].pc \in CountedSteps /\ call'[d].pc \in CountedSteps
    PROVE  Holding' /\ SlotsExact' /\ SlotsBound'
<1> USE DEF SInv
<1>1. Holding'
    BY DEF Holding
<1>2. ASSUME NEW i \in Ids PROVE Of(i, held)' = Of(i, held) /\ Of(i, Counted)' = Of(i, Counted)
    BY DEF Of, Counted, CountedSteps
<1>3. SlotsExact'
    BY <1>2 DEF SlotsExact
<1>4. SlotsBound'
    BY <1>2 DEF SlotsBound
<1> QED  BY <1>1, <1>3, <1>4

\* INCR: the call that was not counted is, and goes upstream within the limit only.
LEMMA IncrStep ==
    ASSUME SInv, TInv', NEW c \in Calls, Incr(c)
    PROVE  Holding' /\ SlotsExact' /\ SlotsBound'
<1> USE DEF SInv
<1>0. PICK i \in Ids : i = call[c].who
    BY DEF Incr, Goto, TInv, Begun
<1> DEFINE count == conc[i].n + 1
<1>1. i \in Ids /\ i = call[c].who /\ c \notin held /\ call[c].pc = "acquire"
    BY <1>0 DEF Incr, Goto, Holding, CountedSteps
<1>2. /\ held' = held \cup {c} /\ spoiled' = spoiled /\ leaked' = leaked
      /\ call'[c].who = i
      /\ call'[c].pc = CASE count = 1 -> "expire"
                         [] count # 1 /\ count > config.limit -> "undo"
                         [] OTHER -> "upstream"
      /\ \A d \in Calls \ {c} : call'[d] = call[d]
      /\ conc'[i].n = count
      /\ \A j \in Ids \ {i} : conc'[j].n = conc[j].n
  <2> DEFINE to == CASE count = 1 -> "expire"
                     [] count # 1 /\ count > config.limit -> "undo"
                     [] OTHER -> "upstream"
  <2>1. held' = held \cup {c} /\ spoiled' = spoiled /\ leaked' = leaked
      BY <1>1 DEF Incr
  <2>2. call' = [call EXCEPT ![c].pc = to]
      BY <1>1 DEF Incr, Goto
  <2>3. conc' = [conc EXCEPT ![i].n = count, ![i].there = TRUE]
      BY <1>1 DEF Incr
  <2>4. conc'[i].n = count /\ \A j \in Ids \ {i} : conc'[j].n = conc[j].n
      BY <1>1, <2>3 DEF TInv, TypeOK
  <2> HIDE DEF to
  <2>5. /\ call'[c].who = i /\ call'[c].pc = to
        /\ \A d \in Calls \ {c} : call'[d] = call[d]
      BY <1>1, <2>2 DEF TInv, TypeOK
  <2> QED  BY <2>1, <2>4, <2>5 DEF to
<1>3. held \subseteq Calls
    BY DEF TInv, TypeOK
<1>4. Holding'
    BY <1>2, <1>3 DEF Holding, CountedSteps
<1>5. ASSUME NEW j \in Ids
      PROVE  Of(j, held)' = IF j = i THEN Of(j, held) \cup {c} ELSE Of(j, held)
    BY <1>1, <1>2, <1>3 DEF Of
<1>6. \A j \in Ids : /\ IsFiniteSet(Of(j, held)) /\ Cardinality(Of(j, held)) \in Nat
                     /\ leaked[j] \in Nat /\ conc[j].n \in Int
    BY HeldFinite DEF TInv, TypeOK
<1>7. /\ Of(i, held)' = Of(i, held) \cup {c} /\ IsFiniteSet(Of(i, held)')
      /\ Cardinality(Of(i, held)') = Cardinality(Of(i, held)) + 1
  <2>1. c \notin Of(i, held)
      BY <1>1 DEF Of
  <2>2. Of(i, held)' = Of(i, held) \cup {c}
      BY <1>1, <1>5
  <2> QED  BY <1>1, <1>6, <2>1, <2>2, FS_AddElement
<1>8. SlotsExact'
  <2>1. ASSUME NEW j \in Ids \ spoiled'
        PROVE  conc'[j].n = Cardinality(Of(j, held)') + leaked'[j]
    <3>1. conc[j].n = Cardinality(Of(j, held)) + leaked[j]
        BY <1>2 DEF SlotsExact
    <3>2. CASE j = i
        BY <1>2, <1>6, <1>7, <3>1, <3>2
    <3>3. CASE j # i
        BY <1>2, <1>5, <3>1, <3>3
    <3> QED  BY <3>2, <3>3
  <2> QED  BY <2>1 DEF SlotsExact
<1>9. SlotsBound'
  <2> SUFFICES ASSUME NEW j \in Ids \ spoiled', NEW m \in Limits, \A l \in Limits : l <= m
               PROVE  Cardinality(Of(j, Counted)') <= m
      BY DEF SlotsBound
  <2>1. config \in Bundles /\ config.limit > 0
    <3>1. config.limit > 0
        BY DEF Incr
    <3>2. config \in Bundles \cup {DefaultBundle}
        BY DEF TInv, TypeOK
    <3>3. DefaultBundle.limit = 0
        BY DEF DefaultBundle
    <3> QED  BY <3>1, <3>2, <3>3
  <2>2. config.limit \in Limits /\ m \in Nat /\ config.limit \in Nat /\ config.limit <= m
      BY <2>1, CallsAssumption DEF Bundles
  <2>3. CASE j = i /\ call'[c].pc # "undo"
    <3>1. count <= m
        BY <1>1, <1>2, <1>6, <2>1, <2>2, <2>3
    <3>2. Of(i, Counted)' \in SUBSET Of(i, held)'
        BY DEF Of, Counted
    <3>3. /\ Cardinality(Of(i, Counted)') \in Nat
          /\ Cardinality(Of(i, Counted)') <= Cardinality(Of(i, held)')
        BY <1>7, <3>2, FS_Subset, FS_CardinalityType
    <3>4. Cardinality(Of(i, held)') <= count
      <4>1. conc[i].n = Cardinality(Of(i, held)) + leaked[i]
          BY <1>2, <2>3 DEF SlotsExact
      <4> QED  BY <1>6, <1>7, <4>1
    <3> QED  BY <1>1, <1>6, <1>7, <2>2, <2>3, <3>1, <3>3, <3>4
  <2>4. CASE ~(j = i /\ call'[c].pc # "undo")
    <3>1. Of(j, Counted)' = Of(j, Counted)
        BY <1>1, <1>2, <1>3, <2>4 DEF Of, Counted
    <3> QED  BY <1>2, <3>1 DEF SlotsBound
  <2> QED  BY <2>3, <2>4
<1> QED  BY <1>4, <1>8, <1>9

\* When calls end, those that were counted are a part of those that were.
LEMMA CountedLess ==
    ASSUME SInv, spoiled \subseteq spoiled', held' \subseteq held,
           \A d \in held' : call'[d] = call[d]
    PROVE  Holding' /\ SlotsBound'
<1> USE DEF SInv
<1>1. Holding'
    BY DEF Holding
<1>2. SlotsBound'
  <2> SUFFICES ASSUME NEW j \in Ids \ spoiled', NEW m \in Limits, \A l \in Limits : l <= m
               PROVE  Cardinality(Of(j, Counted)') <= m
      BY DEF SlotsBound
  <2>1. Of(j, Counted)' \in SUBSET Of(j, Counted)
      BY DEF Of, Counted
  <2>2. /\ IsFiniteSet(Of(j, Counted)) /\ Cardinality(Of(j, Counted)) \in Nat
        /\ Cardinality(Of(j, Counted)) <= m
      BY HeldFinite DEF TInv, SlotsBound
  <2>3. /\ Cardinality(Of(j, Counted)') \in Nat
        /\ Cardinality(Of(j, Counted)') <= Cardinality(Of(j, Counted))
      BY <2>1, <2>2, FS_Subset, FS_CardinalityType
  <2> QED  BY <2>2, <2>3, CallsAssumption
<1> QED  BY <1>1, <1>2

\* DECR at the end of a call, and on rejection.
LEMMA DecrStep ==
    ASSUME SInv, NEW c \in Calls, call[c].pc # "idle", Decr(c),
           call' = [call EXCEPT ![c] = Idle]
    PROVE  Holding' /\ SlotsExact' /\ SlotsBound'
<1> DEFINE i == call[c].who
<1> USE DEF SInv
<1>1. i \in Ids /\ held \subseteq Calls
    BY DEF TInv, Begun, TypeOK
<1>2. \A d \in Calls \ {c} : call'[d] = call[d]
    BY DEF TInv, TypeOK
<1>3. held' = held \ {c} /\ spoiled \subseteq spoiled'
    BY DEF Decr
<1>4. Holding' /\ SlotsBound'
    BY <1>1, <1>2, <1>3, CountedLess
<1>5. ASSUME NEW j \in Ids \ spoiled'
      PROVE  conc'[j].n = Cardinality(Of(j, held)') + leaked'[j]
  <2>1. /\ IsFiniteSet(Of(j, held)) /\ Cardinality(Of(j, held)) \in Nat
        /\ leaked[j] \in Nat /\ conc[j].n \in Int /\ linked \in BOOLEAN
      BY HeldFinite DEF TInv, TypeOK
  <2>2. conc[j].n = Cardinality(Of(j, held)) + leaked[j]
      BY <1>3 DEF SlotsExact
  <2>3. CASE j # i \/ c \notin held
    <3>1. Of(j, held)' = Of(j, held)
        BY <1>1, <1>2, <1>3, <2>3 DEF Of
    <3>2. conc'[j].n = conc[j].n /\ leaked'[j] = leaked[j]
        BY <1>1, <2>3 DEF Decr, TInv, TypeOK
    <3> QED  BY <2>2, <3>1, <3>2
  <2>4. CASE j = i /\ c \in held
    <3>1. Of(j, held)' = Of(j, held) \ {c} /\ c \in Of(j, held)
        BY <1>1, <1>2, <1>3, <2>4 DEF Of
    <3>2. Cardinality(Of(j, held)') = Cardinality(Of(j, held)) - 1
        BY <2>1, <3>1, FS_RemoveElement
    <3>3. \/ conc'[j].n = conc[j].n - 1 /\ leaked'[j] = leaked[j]
          \/ conc'[j].n = conc[j].n /\ leaked'[j] = leaked[j] + 1
        BY <1>1, <2>4 DEF Decr, TInv, TypeOK
    <3> QED  BY <2>1, <2>2, <3>2, <3>3
  <2> QED  BY <2>3, <2>4
<1>6. SlotsExact'
    BY <1>5 DEF SlotsExact
<1> QED  BY <1>4, <1>6

\* Calls that are gone leave their slots behind.
LEMMA LeakStep ==
    ASSUME SInv, NEW C \in SUBSET Calls, Leak(C), spoiled' = spoiled, conc' = conc,
           \A d \in Calls \ C : call'[d] = call[d]
    PROVE  Holding' /\ SlotsExact' /\ SlotsBound'
<1> USE DEF SInv
<1>1. held \subseteq Calls /\ held' = held \ C
    BY DEF TInv, TypeOK, Leak
<1>2. Holding' /\ SlotsBound'
    BY <1>1, CountedLess
<1>3. ASSUME NEW j \in Ids \ spoiled'
      PROVE  conc'[j].n = Cardinality(Of(j, held)') + leaked'[j]
  <2>1. /\ IsFiniteSet(Of(j, held)) /\ Cardinality(Of(j, held)) \in Nat
        /\ leaked[j] \in Nat /\ conc[j].n = Cardinality(Of(j, held)) + leaked[j]
      BY HeldFinite DEF TInv, TypeOK, SlotsExact
  <2>2. Of(j, held)' = Of(j, held) \ C
      BY <1>1 DEF Of
  <2>3. leaked'[j] = leaked[j] + Cardinality(Of(j, held) \cap C)
    <3>1. {c \in C \cap held : call[c].who = j} = Of(j, held) \cap C
        BY DEF Of
    <3> QED  BY <3>1 DEF Leak
  <2>4. /\ Cardinality(Of(j, held)') = Cardinality(Of(j, held)) - Cardinality(Of(j, held) \cap C)
        /\ Cardinality(Of(j, held) \cap C) \in Nat
      BY <2>1, <2>2, FS_Difference, FS_Subset, FS_CardinalityType
  <2> QED  BY <2>1, <2>3, <2>4
<1>4. SlotsExact'
    BY <1>3 DEF SlotsExact
<1> QED  BY <1>2, <1>4

\* A key that expires takes all its slots with it.
LEMMA TickStep ==
    ASSUME SInv, Tick
    PROVE  Holding' /\ SlotsExact' /\ SlotsBound'
<1> USE DEF SInv
<1>1. /\ held' = {c \in held : call[c].who \notin Expired}
      /\ call' = call /\ spoiled' = spoiled
    BY DEF Tick, history
<1>2. Holding' /\ SlotsBound'
    BY <1>1, CountedLess
<1>3. ASSUME NEW j \in Ids \ spoiled'
      PROVE  conc'[j].n = Cardinality(Of(j, held)') + leaked'[j]
  <2>1. CASE j \in Expired
    <3>1. Of(j, held)' = {}
        BY <1>1, <2>1 DEF Of
    <3>2. conc'[j].n = 0 /\ leaked'[j] = 0
        BY <2>1 DEF Tick, NoKey
    <3> QED  BY <3>1, <3>2, FS_EmptySet
  <2>2. CASE j \notin Expired
    <3>1. Of(j, held)' = Of(j, held)
        BY <1>1, <2>2 DEF Of
    <3>2. conc'[j].n = conc[j].n /\ leaked'[j] = leaked[j]
        BY <2>2 DEF Tick
    <3> QED  BY <1>1, <3>1, <3>2 DEF SlotsExact
  <2> QED  BY <2>1, <2>2
<1>4. SlotsExact'
    BY <1>3 DEF SlotsExact
<1> QED  BY <1>2, <1>4

\* The other steps of a handler, and the faults that spare the calls.
LEMMA AloneStep ==
    ASSUME SInv, TInv',
           \/ \E c \in Calls : \/ (\E i \in Ids : Post(c, i)) \/ Trim(c) \/ Count(c) \/ Add(c)
                             \/ RateError(c) \/ Scan(c) \/ NoLimit(c) \/ AcquireError(c)
                             \/ Expire(c) \/ Answered(c)
           \/ Reload \/ UNCHANGED vars
    PROVE  Holding' /\ SlotsExact' /\ SlotsBound'
<1> DEFINE Kept(d) == call'[d].who = call[d].who
                      /\ \/ call'[d].pc = call[d].pc
                         \/ call[d].pc \in CountedSteps /\ call'[d].pc \in CountedSteps
           Alone == /\ held' = held /\ leaked' = leaked /\ spoiled' = spoiled
                    /\ \A i \in Ids : conc'[i].n = conc[i].n
                    /\ \A d \in held : Kept(d)
<1> USE DEF SInv, TInv, TypeOK, Holding, CountedSteps, Goto, history
<1>1. ASSUME NEW c \in Calls, NEW i \in Ids, Post(c, i) PROVE Alone
    BY <1>1 DEF Post
<1>2. ASSUME NEW c \in Calls, Trim(c) PROVE Alone
    BY <1>2 DEF Trim
<1>3. ASSUME NEW c \in Calls, Count(c) PROVE Alone
    BY <1>3 DEF Count
<1>4. ASSUME NEW c \in Calls, Add(c) PROVE Alone
    BY <1>4 DEF Add
<1>5. ASSUME NEW c \in Calls, RateError(c) PROVE Alone
    BY <1>5 DEF RateError
<1>6. ASSUME NEW c \in Calls, Scan(c) PROVE Alone
    BY <1>6 DEF Scan
<1>7. ASSUME NEW c \in Calls, NoLimit(c) PROVE Alone
    BY <1>7 DEF NoLimit
<1>8. ASSUME NEW c \in Calls, AcquireError(c) PROVE Alone
    BY <1>8 DEF AcquireError
<1>9. ASSUME NEW c \in Calls, Expire(c) PROVE Alone
    BY <1>9 DEF Expire
<1>10. ASSUME NEW c \in Calls, Answered(c) PROVE Alone
    BY <1>10 DEF Answered
<1>11. ASSUME Reload PROVE Alone
    BY <1>11 DEF Reload
<1>12. ASSUME UNCHANGED vars PROVE Alone
    BY <1>12 DEF vars
<1>13. Alone
    BY <1>1, <1>2, <1>3, <1>4, <1>5, <1>6, <1>7, <1>8, <1>9, <1>10, <1>11, <1>12
<1> QED
    BY <1>13, QuietStep

\* The INCRs whose replies are lost are slots that nobody will give back.
LEMMA UnlinkStep ==
    ASSUME SInv, NEW added \in SUBSET Calls, NEW taken \in SUBSET Calls,
           Unlink(added, taken)
    PROVE  Holding' /\ SlotsExact' /\ SlotsBound'
<1> USE DEF SInv
<1>1. held' = held /\ spoiled' = spoiled /\ held \subseteq Calls
    BY DEF Unlink, TInv, TypeOK
<1>2. \A d \in held' : call'[d] = call[d]
    BY <1>1, UnlinkCalls DEF Holding, CountedSteps
<1>3. Holding' /\ SlotsBound'
    BY <1>1, <1>2, CountedLess
<1>4. ASSUME NEW j \in Ids \ spoiled'
      PROVE  conc'[j].n = Cardinality(Of(j, held)') + leaked'[j]
  <2>1. /\ conc'[j].n = conc[j].n + Cardinality(Of(j, taken))
        /\ leaked'[j] = leaked[j] + Cardinality(Of(j, taken))
    <3>1. conc[j] \in [there : BOOLEAN, n : Int, exp : Nat \cup {None}]
        BY DEF TInv, TypeOK
    <3> QED  BY <3>1 DEF Unlink
  <2>2. Of(j, held)' = Of(j, held)
      BY <1>1, <1>2 DEF Of
  <2>3. /\ conc[j].n = Cardinality(Of(j, held)) + leaked[j]
        /\ leaked[j] \in Nat /\ Cardinality(Of(j, held)) \in Nat
        /\ Cardinality(Of(j, taken)) \in Nat
      BY <1>1, HeldFinite, SomeFinite DEF SlotsExact, TInv, TypeOK
  <2> QED  BY <2>1, <2>2, <2>3
<1>5. SlotsExact'
    BY <1>4 DEF SlotsExact
<1> QED  BY <1>3, <1>5

LEMMA SlotsKept == SInv /\ [Next]_vars => SInv'
<1> SUFFICES ASSUME SInv, [Next]_vars PROVE SInv'
    OBVIOUS
<1>1. TInv'
    BY TypesKept DEF SInv
<1>2. ASSUME NEW c \in Calls, Undo(c) \/ Release(c)
      PROVE  Holding' /\ SlotsExact' /\ SlotsBound'
    BY <1>2, DecrStep DEF Undo, Release, Goto
<1>3. ASSUME NEW c \in Calls, Drop(c) PROVE Holding' /\ SlotsExact' /\ SlotsBound'
  <2>1. \A d \in Calls \ {c} : call'[d] = call[d]
      BY <1>3 DEF Drop, SInv, TInv, TypeOK
  <2>2. Leak({c}) /\ spoiled' = spoiled /\ conc' = conc
      BY <1>3 DEF Drop
  <2> QED  BY <2>1, <2>2, LeakStep
<1>4. ASSUME Restart PROVE Holding' /\ SlotsExact' /\ SlotsBound'
  <2>1. Leak(Calls) /\ spoiled' = spoiled /\ conc' = conc
      BY <1>4 DEF Restart
  <2>2. Calls \in SUBSET Calls /\ \A d \in Calls \ Calls : call'[d] = call[d]
      OBVIOUS
  <2> QED  BY <2>1, <2>2, LeakStep
<1>5. ASSUME Reload \/ UNCHANGED vars PROVE Holding' /\ SlotsExact' /\ SlotsBound'
    BY <1>1, <1>5, AloneStep
<1>6. ASSUME Tick PROVE Holding' /\ SlotsExact' /\ SlotsBound'
    BY <1>6, TickStep
<1>7. ASSUME NEW c \in Calls, Handle(c), ~Undo(c), ~Release(c)
      PROVE  Holding' /\ SlotsExact' /\ SlotsBound'
  <2>1. CASE Incr(c)
      BY <1>1, <2>1, IncrStep
  <2>2. CASE ~Incr(c)
      BY <1>1, <1>7, <2>2, AloneStep DEF Handle
  <2> QED  BY <2>1, <2>2
<1>8. ASSUME NEW added \in SUBSET Calls, NEW taken \in SUBSET Calls,
             Unlink(added, taken)
      PROVE  Holding' /\ SlotsExact' /\ SlotsBound'
    BY <1>8, UnlinkStep
<1>9. Holding' /\ SlotsExact' /\ SlotsBound'
    BY <1>2, <1>3, <1>4, <1>5, <1>6, <1>7, <1>8 DEF Next
<1> QED
    BY <1>1, <1>9 DEF SInv

LEMMA SlotsInit == Init => SInv
<1> SUFFICES ASSUME Init PROVE SInv
    OBVIOUS
<1>1. TInv
    BY TypesInit
<1>2. \A i \in Ids : Of(i, held) = {} /\ Of(i, Counted) = {}
    BY DEF Init, Of, Counted
<1>3. Cardinality({}) = 0
    BY FS_EmptySet
<1>4. /\ held = {} /\ \A i \in Ids : leaked[i] = 0
      /\ \A i \in Ids : conc[i].n = 0
    BY DEF Init, NoKey
<1>6. Holding /\ SlotsExact
    BY <1>2, <1>3, <1>4 DEF Holding, SlotsExact
<1>5. SlotsBound
    BY <1>2, <1>3, CallsAssumption DEF SlotsBound
<1> QED
    BY <1>1, <1>5, <1>6 DEF SInv

\* The key counts held and leaked slots, and the calls that hold one are past
\* their INCR: together with the types this is inductive.
THEOREM SlotsInvariant == Spec => []SInv
BY SlotsInit, SlotsKept, PTL DEF Spec

\* The key mcp:gw:conc:{identity} always counts the calls between their INCR and
\* their DECR and the slots that dropped calls left behind, unless it has been
\* decremented for a slot it did not count.
THEOREM SlotsExactCorrect == Spec => []SlotsExact
<1>1. SInv => SlotsExact
    BY DEF SInv
<1> QED
    BY <1>1, SlotsInvariant, PTL

\* acquire_concurrent_slot never lets more calls of an identity go upstream than
\* the largest limit of any bundle, for any number of concurrent handlers, with the
\* same exception.
THEOREM SlotsBoundCorrect == Spec => []SlotsBound
<1>1. SInv => SlotsBound
    BY DEF SInv
<1> QED
    BY <1>1, SlotsInvariant, PTL

-----------------------------------------------------------------------------
(* The safety TTL.                                                         *)

\* A key above zero that does not expire was raised there by a call that is about
\* to set its expiry, and the connection works meanwhile.
Expiring(i) == \E c \in held : call[c].who = i /\ call[c].pc = "expire"
EInv ==
    /\ TInv
    /\ \A c \in Calls : call[c].pc = "expire" => linked
    /\ \A i \in Ids : conc[i].n # 0 => conc[i].there
    /\ \A i \in Ids : conc[i].n > 0 /\ conc[i].exp = None => Expiring(i)

LEMMA ExpiryKept == "early" \notin Faults /\ EInv /\ [Next]_vars => EInv'
<1> SUFFICES ASSUME "early" \notin Faults, EInv, [Next]_vars PROVE EInv'
    OBVIOUS
<1>0. TInv'
    BY TypesKept DEF EInv
<1> DEFINE E == /\ \A c \in Calls : call'[c].pc = "expire" => linked'
                /\ \A i \in Ids : conc'[i].n # 0 => conc'[i].there
                /\ \A i \in Ids : conc'[i].n > 0 /\ conc'[i].exp = None => Expiring(i)'
<1> USE DEF EInv, TInv, TypeOK, Expiring, Goto, history, Idle
<1>1. ASSUME NEW c \in Calls, NEW i \in Ids, Post(c, i) PROVE E
    BY <1>1 DEF Post
<1>2. ASSUME NEW c \in Calls, Trim(c) PROVE E
    BY <1>2 DEF Trim
<1>3. ASSUME NEW c \in Calls, Count(c) PROVE E
    BY <1>3 DEF Count
<1>4. ASSUME NEW c \in Calls, Add(c) PROVE E
    BY <1>4 DEF Add
<1>5. ASSUME NEW c \in Calls, RateError(c) PROVE E
    BY <1>5 DEF RateError
<1>6. ASSUME NEW c \in Calls, Scan(c) PROVE E
    BY <1>6 DEF Scan
<1>7. ASSUME NEW c \in Calls, NoLimit(c) PROVE E
    BY <1>7 DEF NoLimit
<1>8. ASSUME NEW c \in Calls, AcquireError(c) PROVE E
    BY <1>8 DEF AcquireError
<1>9. ASSUME NEW c \in Calls, Expire(c) PROVE E
    BY <1>9, CallsAssumption DEF Expire
<1>10. ASSUME NEW c \in Calls, Answered(c) PROVE E
    BY <1>10 DEF Answered
<1>11. ASSUME NEW c \in Calls, Incr(c) PROVE E
  <2>1. PICK k \in Ids : k = call[c].who
      BY <1>11 DEF Incr, Begun
  <2>2. /\ linked' /\ held' = held \cup {c} /\ call[c].pc = "acquire"
        /\ conc' = [conc EXCEPT ![k].n = conc[k].n + 1, ![k].there = TRUE]
      BY <1>11, <2>1 DEF Incr
  <2>3. /\ call'[c].who = k /\ \A d \in Calls \ {c} : call'[d] = call[d]
        /\ conc[k].n + 1 = 1 => call'[c].pc = "expire"
    <3>1. PICK to : /\ call' = [call EXCEPT ![c].pc = to]
                    /\ conc[k].n + 1 = 1 => to = "expire"
        BY <1>11, <2>1 DEF Incr
    <3> QED  BY <2>1, <3>1 DEF TypeOK
  <2>4. ASSUME NEW i \in Ids, conc'[i].n > 0, conc'[i].exp = None PROVE Expiring(i)'
    <3>1. conc'[i].exp = conc[i].exp /\ (i # k => conc'[i].n = conc[i].n)
        BY <2>2
    <3>2. CASE i = k /\ conc[k].n = 0
        BY <2>2, <2>3, <3>2
    <3>3. CASE conc[i].n > 0
      <4>1. PICK d \in held : call[d].who = i /\ call[d].pc = "expire"
          BY <2>4, <3>1, <3>3
      <4>2. d \in held' /\ call'[d] = call[d]
          BY <2>2, <2>3, <4>1
      <4> QED  BY <4>1, <4>2
    <3>4. i = k => conc'[i].n = conc[i].n + 1
        BY <2>2
    <3>5. conc[i].n \in Int
        OBVIOUS
    <3>6. (i = k /\ conc[k].n = 0) \/ conc[i].n > 0
      <4>1. CASE i # k
          BY <2>4, <3>1, <4>1
      <4>2. CASE i = k
        <5>1. conc[k].n \in Int /\ conc[k].n + 1 > 0
            BY <2>4, <3>4, <3>5, <4>2
        <5>2. conc[k].n >= 0
            BY <5>1
        <5> QED  BY <4>2, <5>1, <5>2
      <4> QED  BY <4>1, <4>2
    <3> QED  BY <3>2, <3>3, <3>6
  <2> QED  BY <2>2, <2>4
<1>12. ASSUME NEW c \in Calls, Undo(c) \/ Release(c) PROVE E
  <2>1. PICK k \in Ids : k = call[c].who
      BY <1>12 DEF Undo, Release, Begun
  <2>2. /\ linked' = linked /\ held' = held \ {c} /\ call[c].pc # "expire"
        /\ call' = [call EXCEPT ![c] = Idle]
      BY <1>12 DEF Undo, Release, Decr
  <2>3. \/ conc' = conc
        \/ conc' = [conc EXCEPT ![k].n = @ - 1, ![k].there = TRUE]
      BY <1>12, <2>1 DEF Undo, Release, Decr
  <2>4. \A i \in Ids : conc'[i].n > 0 /\ conc'[i].exp = None
                        => conc[i].n > 0 /\ conc[i].exp = None
    <3>1. CASE conc' = conc
        BY <3>1
    <3>2. CASE conc' = [conc EXCEPT ![k].n = @ - 1, ![k].there = TRUE]
      <4> TAKE i \in Ids
      <4>1. conc'[i].exp = conc[i].exp /\ (i # k => conc'[i].n = conc[i].n)
          BY <3>2
      <4>2. i = k => conc'[i].n = conc[i].n - 1
          BY <3>2
      <4>3. conc[i].n \in Int
          OBVIOUS
      <4> QED  BY <4>1, <4>2, <4>3
    <3> QED  BY <2>3, <3>1, <3>2
  <2>5. \A i \in Ids : conc'[i].n # 0 => conc'[i].there
      BY <2>3
  <2>6. ASSUME NEW i \in Ids, Expiring(i) PROVE Expiring(i)'
      BY <2>2, <2>6
  <2>7. \A d \in Calls : call'[d].pc = "expire" => linked'
      BY <2>2
  <2> QED  BY <2>4, <2>5, <2>6, <2>7
<1>13. ASSUME NEW c \in Calls, Drop(c) PROVE E
    BY <1>13 DEF Drop, NoneEarly, Leak
<1>14. ASSUME NEW added \in SUBSET Calls, NEW taken \in SUBSET Calls,
              Unlink(added, taken)
       PROVE  E
  <2>1. ASSUME NEW c \in Calls PROVE call'[c].pc # "expire"
      BY <1>14, UnlinkCalls DEF Unlink, NoneEarly
  <2>2. ASSUME NEW i \in Ids
        PROVE  /\ conc'[i].n # 0 => conc'[i].there
               /\ conc'[i].n > 0 => conc'[i].exp # None
    <3>1. conc[i] \in [there : BOOLEAN, n : Int, exp : Nat \cup {None}]
        OBVIOUS
    <3>2. /\ conc'[i].n = conc[i].n + Cardinality(Of(i, taken))
          /\ conc'[i].exp = conc[i].exp
        BY <1>14, <3>1 DEF Unlink
    <3>3. conc'[i].there <=> conc[i].there \/ Of(i, taken) # {}
        BY <1>14, <3>1 DEF Unlink
    <3>4. conc[i].n < 1 => Of(i, taken) = {}
        BY <1>14 DEF Unlink, NoFirst
    <3>5. Cardinality({}) = 0 /\ conc[i].n \in Int
        BY <3>1, FS_EmptySet
    <3>6. conc[i].n < 1 => conc'[i].n = conc[i].n
      <4>1. conc[i].n < 1 => Cardinality(Of(i, taken)) = 0
          BY <3>4, <3>5
      <4> QED  BY <3>2, <3>5, <4>1
    <3>7. ~Expiring(i)
      <4>1. \A d \in Calls : call[d].pc # "expire"
          BY <1>14 DEF Unlink, NoneEarly
      <4> QED  BY <4>1
    <3>8. conc'[i].n # 0 => conc[i].there
      <4>1. conc'[i].n # 0 => conc[i].n # 0
          BY <3>5, <3>6
      <4> QED  BY <4>1
    <3>9. conc'[i].n > 0 => conc[i].n > 0
        BY <3>5, <3>6
    <3>10. conc[i].n > 0 => conc[i].exp # None
        BY <3>7
    <3> QED  BY <3>2, <3>3, <3>8, <3>9, <3>10
  <2> QED  BY <2>1, <2>2
<1>15. ASSUME Restart PROVE E
    BY <1>15 DEF Restart, NoneEarly, Leak
<1>16. ASSUME Reload PROVE E
    BY <1>16 DEF Reload
<1>17. ASSUME Tick PROVE E
  <2>1. /\ linked' = linked /\ call' = call
        /\ \A i \in Ids : conc'[i] = IF i \in Expired THEN NoKey ELSE conc[i]
        /\ held' = {c \in held : call[c].who \notin Expired}
      BY <1>17 DEF Tick
  <2>2. ASSUME NEW i \in Ids, conc'[i].n > 0, conc'[i].exp = None PROVE Expiring(i)'
      BY <2>1, <2>2 DEF NoKey
  <2>3. \A i \in Ids : conc'[i].n # 0 => conc'[i].there
      BY <2>1 DEF NoKey
  <2> QED  BY <2>1, <2>2, <2>3
<1>18. ASSUME UNCHANGED vars PROVE E
    BY <1>18 DEF vars
<1>19. E
    BY <1>1, <1>2, <1>3, <1>4, <1>5, <1>6, <1>7, <1>8, <1>9, <1>10, <1>11, <1>12,
       <1>13, <1>14, <1>15, <1>16, <1>17, <1>18 DEF Next, Handle
<1> QED
    BY <1>0, <1>19

\* Unless a client goes away between INCR and EXPIRE, a key above zero that no
\* call holds a slot of will expire: leaked slots do not block an identity for
\* good (CONCURRENT_SAFETY_TTL).
THEOREM LeakedSlotsExpireCorrect ==
    ASSUME "early" \notin Faults PROVE Spec => []LeakedSlotsExpire
<1>1. Init => EInv
    BY TypesInit DEF Init, EInv, Idle, NoKey
<1>2. EInv => LeakedSlotsExpire
    BY DEF EInv, LeakedSlotsExpire, Expiring, Of
<1>3. EInv /\ [Next]_vars => EInv'
    BY ExpiryKept
<1> QED
    BY <1>1, <1>2, <1>3, PTL DEF Spec

-----------------------------------------------------------------------------
(* The window.                                                             *)

\* The calls of an identity that have counted and not yet added.
Adding(i) == {c \in Calls : call[c].pc = "add" /\ call[c].who = i}

\* What a window holds and is about to hold.
Filled(i) == Cardinality(window[i]) + Cardinality(Adding(i))
WInv == TInv /\ \A i \in Ids : Filled(i) <= MaxRpm - 1 + Cardinality(Calls)

\* Windows and the calls that add to them can be counted.
LEMMA AddingFinite ==
    ASSUME TInv, NEW i \in Ids
    PROVE  /\ IsFiniteSet(window[i]) /\ Cardinality(window[i]) \in Nat
           /\ IsFiniteSet(Adding(i)) /\ Cardinality(Adding(i)) \in Nat
           /\ Cardinality(Adding(i)) <= Cardinality(Calls)
           /\ Cardinality(Calls) \in Nat
<1>1. IsFiniteSet(window[i])
    BY DEF TInv, FiniteWindows
<1>2. Adding(i) \in SUBSET Calls
    BY DEF Adding
<1> QED
    BY <1>1, <1>2, CallsAssumption, FS_Subset, FS_CardinalityType

\* A step that neither counts nor adds leaves a window no fuller.
LEMMA NoFuller ==
    ASSUME TInv, NEW i \in Ids, window'[i] \in SUBSET window[i],
           \A c \in Calls : call'[c].pc = "add"
                            => call[c].pc = "add" /\ call'[c].who = call[c].who
    PROVE  Filled(i)' <= Filled(i)
<1>1. Adding(i)' \in SUBSET Adding(i)
    BY DEF Adding
<1>2. /\ Cardinality(window[i])' \in Nat
      /\ Cardinality(window[i])' <= Cardinality(window[i])
    BY AddingFinite, FS_Subset, FS_CardinalityType
<1>3. /\ Cardinality(Adding(i))' \in Nat
      /\ Cardinality(Adding(i))' <= Cardinality(Adding(i))
    BY <1>1, AddingFinite, FS_Subset, FS_CardinalityType
<1> QED
    BY <1>2, <1>3, AddingFinite DEF Filled

\* ZCARD lets a call through only while the window is not full, and the calls
\* that are let through together are calls of the handler.
LEMMA CountStep ==
    ASSUME WInv, TInv', NEW c \in Calls, Count(c), NEW i \in Ids
    PROVE  Filled(i)' <= MaxRpm - 1 + Cardinality(Calls)
<1> DEFINE n == Cardinality(window[call[c].who])
<1>1. /\ window' = window
      /\ call' = [call EXCEPT ![c] = IF n >= MaxRpm THEN Idle
                                     ELSE [@ EXCEPT !.pc = "add", !.card = n]]
    BY DEF Count
<1>2. call \in [Calls -> [pc : Steps, who : Ids \cup {None}, stamp : Nat, card : Nat]]
    BY DEF WInv, TInv, TypeOK
<1>3. CASE i = call[c].who /\ n < MaxRpm
  <2>1. Cardinality(window[i])' < MaxRpm
      BY <1>1, <1>3
  <2>2. Cardinality(window[i])' \in Nat /\ Cardinality(Calls) \in Nat
      BY <1>1, AddingFinite DEF WInv
  <2>3. Adding(i)' \in SUBSET Calls
      BY DEF Adding
  <2>4. /\ Cardinality(Adding(i))' \in Nat
        /\ Cardinality(Adding(i))' <= Cardinality(Calls)
      BY <2>3, CallsAssumption, FS_Subset, FS_CardinalityType
  <2> QED
      BY <2>1, <2>2, <2>4, CallsAssumption DEF Filled
<1>4. CASE i # call[c].who \/ n >= MaxRpm
  <2>1. Adding(i)' \in SUBSET Adding(i)
    <3>1. ASSUME NEW d \in Calls, call'[d].pc = "add", call'[d].who = i
          PROVE  call[d].pc = "add" /\ call[d].who = i
        BY <1>1, <1>2, <1>4, <3>1 DEF Idle
    <3> QED  BY <3>1 DEF Adding
  <2>2. /\ Cardinality(Adding(i))' \in Nat
        /\ Cardinality(Adding(i))' <= Cardinality(Adding(i))
      BY <2>1, AddingFinite, FS_Subset, FS_CardinalityType DEF WInv
  <2>3. Cardinality(window[i])' = Cardinality(window[i])
      BY <1>1
  <2>4. Filled(i) <= MaxRpm - 1 + Cardinality(Calls)
      BY DEF WInv
  <2> QED
      BY <2>2, <2>3, <2>4, AddingFinite, CallsAssumption DEF Filled, WInv
<1>5. n \in Nat /\ MaxRpm \in Nat
  <2>1. call[c].who \in Ids
      BY DEF Count, WInv, TInv, Begun
  <2> QED  BY <2>1, AddingFinite, CallsAssumption DEF WInv
<1> QED
    BY <1>3, <1>4, <1>5

\* ZADD: the call that was about to add a member has added it.
LEMMA AddStep ==
    ASSUME WInv, NEW c \in Calls, Add(c), NEW i \in Ids
    PROVE  Filled(i)' <= Filled(i)
<1> DEFINE m == <<call[c].stamp, call[c].card>>
<1>1. /\ call[c].pc = "add"
      /\ window' = [window EXCEPT ![call[c].who] = @ \cup {m}]
      /\ call' = [call EXCEPT ![c] = [pc |-> "scan", who |-> call[c].who,
                                      stamp |-> 0, card |-> 0]]
    BY DEF Add
<1>2. /\ call \in [Calls -> [pc : Steps, who : Ids \cup {None}, stamp : Nat, card : Nat]]
      /\ window \in [Ids -> SUBSET (Nat \X Nat)] /\ TInv
    BY DEF WInv, TInv, TypeOK
<1>3. CASE i = call[c].who
  <2>1. window'[i] = window[i] \cup {m}
      BY <1>1, <1>2, <1>3
  <2>2. /\ Cardinality(window[i])' \in Nat
        /\ Cardinality(window[i])' <= Cardinality(window[i]) + 1
    <3>1. IsFiniteSet(window[i]) /\ Cardinality(window[i]) \in Nat
        BY <1>2, AddingFinite
    <3>2. Cardinality(window[i] \cup {m}) = IF m \in window[i]
                                            THEN Cardinality(window[i])
                                            ELSE Cardinality(window[i]) + 1
        BY <3>1, FS_AddElement
    <3> QED  BY <2>1, <3>1, <3>2
  <2>3. Adding(i)' = Adding(i) \ {c} /\ c \in Adding(i)
      BY <1>1, <1>2, <1>3 DEF Adding
  <2>4. Cardinality(Adding(i))' = Cardinality(Adding(i)) - 1
      BY <1>2, <2>3, AddingFinite, FS_RemoveElement
  <2> QED
      BY <1>2, <2>2, <2>4, AddingFinite DEF Filled
<1>4. CASE i # call[c].who
  <2>1. window'[i] \in SUBSET window[i]
      BY <1>1, <1>2, <1>4
  <2>2. \A d \in Calls : call'[d].pc = "add"
                         => call[d].pc = "add" /\ call'[d].who = call[d].who
      BY <1>1, <1>2
  <2> QED  BY <1>2, <2>1, <2>2, NoFuller
<1> QED  BY <1>3, <1>4

\* The same of ZADDs whose replies are lost.
LEMMA LostAdds ==
    ASSUME WInv, NEW added \in SUBSET Calls, NEW taken \in SUBSET Calls,
           Unlink(added, taken), NEW i \in Ids
    PROVE  Filled(i)' <= Filled(i)
<1> DEFINE S == {<<call[c].stamp, call[c].card>> : c \in Of(i, added)}
<1>1. TInv /\ window'[i] = window[i] \cup S
    BY DEF WInv, Unlink
<1>2. /\ IsFiniteSet(window[i]) /\ IsFiniteSet(S)
      /\ Cardinality(S) <= Cardinality(Of(i, added))
      /\ IsFiniteSet(Of(i, added)) /\ Cardinality(Of(i, added)) \in Nat
    BY <1>1, AddingFinite, SomeFinite
<1> HIDE DEF S
<1>3. /\ Cardinality(window'[i]) <= Cardinality(window[i]) + Cardinality(Of(i, added))
      /\ Cardinality(window'[i]) \in Nat /\ Cardinality(window[i]) \in Nat
  <2>1. /\ IsFiniteSet(window[i] \cup S)
        /\ Cardinality(window[i] \cup S)
             = Cardinality(window[i]) + Cardinality(S) - Cardinality(window[i] \cap S)
      BY <1>2, FS_Union
  <2>2. IsFiniteSet(window[i] \cap S)
      BY <1>2, FS_Intersection
  <2>3. /\ Cardinality(window[i]) \in Nat /\ Cardinality(S) \in Nat
        /\ Cardinality(window[i] \cap S) \in Nat
        /\ Cardinality(window[i] \cup S) \in Nat
      BY <1>2, <2>1, <2>2, FS_CardinalityType
  <2> QED  BY <1>1, <1>2, <2>1, <2>3
<1>4. Of(i, added) \in SUBSET Adding(i)
    BY DEF Of, Adding, Unlink
<1>5. Adding(i)' \in SUBSET (Adding(i) \ Of(i, added))
  <2>1. ASSUME NEW c \in Calls, call'[c].pc = "add", call'[c].who = i
        PROVE  c \notin added /\ call[c].pc = "add" /\ call[c].who = i
      BY <1>1, <2>1, UnlinkCalls
  <2> QED  BY <2>1 DEF Adding, Of
<1>6. /\ IsFiniteSet(Adding(i)) /\ Cardinality(Adding(i)) \in Nat
      /\ IsFiniteSet(Adding(i) \ Of(i, added))
      /\ Cardinality(Adding(i) \ Of(i, added))
           = Cardinality(Adding(i)) - Cardinality(Of(i, added))
  <2>1. IsFiniteSet(Adding(i)) /\ Cardinality(Adding(i)) \in Nat
      BY <1>1, AddingFinite
  <2>2. Adding(i) \cap Of(i, added) = Of(i, added)
      BY <1>4
  <2>3. /\ IsFiniteSet(Adding(i) \ Of(i, added))
        /\ Cardinality(Adding(i) \ Of(i, added))
             = Cardinality(Adding(i)) - Cardinality(Adding(i) \cap Of(i, added))
      BY <2>1, FS_Difference
  <2> QED  BY <2>1, <2>2, <2>3
<1>7. /\ Cardinality(Adding(i)') <= Cardinality(Adding(i)) - Cardinality(Of(i, added))
      /\ Cardinality(Adding(i)') \in Nat
    BY <1>5, <1>6, FS_Subset, FS_CardinalityType
<1> QED  BY <1>2, <1>3, <1>6, <1>7 DEF Filled

LEMMA WindowKept == WInv /\ [Next]_vars => WInv'
<1> SUFFICES ASSUME WInv, [Next]_vars PROVE WInv'
    OBVIOUS
<1>0. TInv /\ TInv'
    BY TypesKept DEF WInv
<1> DEFINE Less == /\ \A i \in Ids : window'[i] \in SUBSET window[i]
                   /\ \A c \in Calls : call'[c].pc = "add"
                            => call[c].pc = "add" /\ call'[c].who = call[c].who
           Room == \A i \in Ids : Filled(i)' <= MaxRpm - 1 + Cardinality(Calls)
<1>1. ASSUME NEW i \in Ids, Filled(i)' <= Filled(i)
      PROVE  Filled(i)' <= MaxRpm - 1 + Cardinality(Calls)
  <2>1. Filled(i) <= MaxRpm - 1 + Cardinality(Calls)
      BY DEF WInv
  <2>2. Filled(i) \in Int
      BY <1>0, AddingFinite DEF Filled
  <2>3. IsFiniteSet(window'[i]) /\ Adding(i)' \in SUBSET Calls
      BY <1>0 DEF TInv, FiniteWindows, Adding
  <2>4. Cardinality(window'[i]) \in Nat /\ Cardinality(Adding(i)') \in Nat
      BY <2>3, CallsAssumption, FS_Subset, FS_CardinalityType
  <2>5. Filled(i)' \in Int
      BY <2>4 DEF Filled
  <2>6. MaxRpm \in Nat /\ Cardinality(Calls) \in Nat
      BY CallsAssumption, FS_CardinalityType
  <2> QED  BY <1>1, <2>1, <2>2, <2>5, <2>6
<1>2. ASSUME NEW c \in Calls, Count(c) PROVE Room
    BY <1>0, <1>2, CountStep
<1>3. ASSUME NEW c \in Calls, Add(c) PROVE Room
  <2>1. \A i \in Ids : Filled(i)' <= Filled(i)
      BY <1>3, AddStep
  <2> QED  BY <1>1, <2>1
<1>4. Less => Room
  <2>1. ASSUME Less, NEW i \in Ids PROVE Filled(i)' <= Filled(i)
      BY <1>0, <2>1, NoFuller
  <2> QED  BY <1>1, <2>1
<1> USE DEF TInv, TypeOK, Goto, Idle
<1>5. ASSUME NEW c \in Calls, NEW i \in Ids, Post(c, i) PROVE Less
    BY <1>0, <1>5 DEF Post
<1>6. ASSUME NEW c \in Calls, Trim(c) PROVE Less
    BY <1>0, <1>6 DEF Trim
<1>7. ASSUME NEW c \in Calls, RateError(c) PROVE Less
    BY <1>0, <1>7 DEF RateError
<1>8. ASSUME NEW c \in Calls, Scan(c) PROVE Less
    BY <1>0, <1>8 DEF Scan
<1>9. ASSUME NEW c \in Calls, NoLimit(c) PROVE Less
    BY <1>0, <1>9 DEF NoLimit
<1>10. ASSUME NEW c \in Calls, Incr(c) PROVE Less
  <2>1. PICK to \in Steps \ {"add"} : Goto(c, "acquire", to) /\ window' = window
    <3> DEFINE n == conc[call[c].who].n + 1
               to == IF n = 1 THEN "expire"
                     ELSE IF n > config.limit THEN "undo" ELSE "upstream"
    <3>1. Goto(c, "acquire", to)
        BY <1>10 DEF Incr
    <3>2. window' = window
        BY <1>10 DEF Incr
    <3>3. to \in Steps \ {"add"}
        BY DEF Steps
    <3> QED  BY <3>1, <3>2, <3>3
  <2> QED  BY <1>0, <2>1
<1>11. ASSUME NEW c \in Calls, AcquireError(c) PROVE Less
    BY <1>0, <1>11 DEF AcquireError
<1>12. ASSUME NEW c \in Calls, Expire(c) PROVE Less
    BY <1>0, <1>12 DEF Expire
<1>13. ASSUME NEW c \in Calls, Undo(c) PROVE Less
    BY <1>0, <1>13 DEF Undo
<1>14. ASSUME NEW c \in Calls, Answered(c) PROVE Less
    BY <1>0, <1>14 DEF Answered
<1>15. ASSUME NEW c \in Calls, Release(c) PROVE Less
    BY <1>0, <1>15 DEF Release
<1>16. ASSUME NEW c \in Calls, Drop(c) PROVE Less
    BY <1>0, <1>16 DEF Drop
<1>17. ASSUME Restart PROVE Less
    BY <1>0, <1>17 DEF Restart
<1>18. ASSUME Reload \/ Tick \/ UNCHANGED vars PROVE Less
    BY <1>0, <1>18 DEF Reload, Tick, vars, history
<1>19. ASSUME NEW added \in SUBSET Calls, NEW taken \in SUBSET Calls,
              Unlink(added, taken)
       PROVE  Room
  <2>1. \A i \in Ids : Filled(i)' <= Filled(i)
      BY <1>19, LostAdds
  <2> QED  BY <1>1, <2>1
<1>20. Room
    BY <1>2, <1>3, <1>4, <1>5, <1>6, <1>7, <1>8, <1>9, <1>10, <1>11, <1>12,
       <1>13, <1>14, <1>15, <1>16, <1>17, <1>18, <1>19 DEF Next, Handle
<1> QED
    BY <1>0, <1>20 DEF WInv

\* The sorted set of an identity never has more than MaxRpm - 1 members and one
\* for every call of the handler: check_rate_limit counts and adds in two steps,
\* so that calls pass together, but only those that are in flight.
THEOREM WindowBoundCorrect == Spec => []WindowBound
<1>1. Init => WInv
  <2> SUFFICES ASSUME Init PROVE WInv
      OBVIOUS
  <2>1. \A i \in Ids : window[i] = {} /\ Adding(i) = {}
      BY DEF Init, Adding, Idle
  <2>2. Cardinality({}) = 0 /\ Cardinality(Calls) \in Nat
      BY FS_EmptySet, CallsAssumption, FS_CardinalityType
  <2>3. \A i \in Ids : Filled(i) = 0
      BY <2>1, <2>2 DEF Filled
  <2> QED
      BY <2>2, <2>3, TypesInit, CallsAssumption DEF WInv
<1>2. WInv => WindowBound
  <2> SUFFICES ASSUME WInv, NEW i \in Ids
               PROVE  Cardinality(window[i]) <= MaxRpm - 1 + Cardinality(Calls)
      BY DEF WindowBound
  <2> QED
      BY AddingFinite, CallsAssumption DEF WInv, Filled
<1> QED
    BY <1>1, <1>2, WindowKept, PTL DEF Spec
-----------------------------------------------------------------------------
(***************************************************************************)
(* The connections to the upstream servers, McpUpstream, are a component   *)
(* of the same gateway with variables of their own.  They are instanced    *)
(* under names that McpCalls does not use, and what McpUpstream assumes of *)
(* its constants is a hypothesis of the lemmas.                            *)
(***************************************************************************)
CONSTANTS Requests, Readers, NumLists, Threshold, Reset, Absent, MaxVersions, MaxOutages
VARIABLES server, version, enabled, failures, openFor, request, worker, cache,
          copy, reader, outages

Up == INSTANCE McpUpstream
        WITH Calls <- Requests, None <- Absent, MaxFaults <- MaxOutages,
             call <- request, faults <- outages

\* The breaker's counter stays within the threshold, the time it is open within
\* the time it is opened for.
BreakerOK == failures \in 1 .. Threshold \cup {Absent} /\ openFor \in 0 .. Reset

LEMMA BreakerKept ==
    ASSUME Up!UpstreamAssumption, BreakerOK,
           Up!record_success \/ Up!record_failure \/ Up!Tick
           \/ UNCHANGED <<failures, openFor>>
    PROVE  BreakerOK'
<1> USE DEF BreakerOK, Up!UpstreamAssumption
<1>1. CASE Up!record_success
    BY <1>1 DEF Up!record_success
<1>2. CASE Up!record_failure
  <2>1. CASE failures = Absent
      BY <1>2, <2>1 DEF Up!record_failure
  <2>2. CASE failures # Absent
      BY <1>2, <2>2 DEF Up!record_failure
  <2> QED  BY <2>1, <2>2
<1>3. CASE Up!Tick
    BY <1>3 DEF Up!Tick
<1>4. CASE UNCHANGED <<failures, openFor>>
    BY <1>4
<1> QED  BY <1>1, <1>2, <1>3, <1>4

WorkerSteps == {"sleep", "initialize", "greet", "fetch", "copy", "cache", "clear",
                "delete", "sweep"}
WorkerType == [step : WorkerSteps, session : BOOLEAN, list : Up!Lists,
               got : Up!Catalogs]
ReaderType == [step : {"idle", "listed", "read"}, got : Up!Catalogs]

\* The parts of the state that the steps of the refresh, of the handlers and of the
\* requests change.
FrameOK == /\ server \in {"fails", "refuses", "serves"} /\ enabled \in BOOLEAN
           /\ version \in 1 .. MaxVersions /\ outages \in Nat
RequestOK == request \in [Requests -> {"idle", "routed", "sent", "lost"}]
StoreOK == cache \in Up!Catalogs \cup {Absent} /\ copy \in Up!Catalogs \cup {Absent}
LocalsOK == worker \in WorkerType /\ reader \in [Readers -> ReaderType]

LEMMA UpstreamTypes ==
    Up!TypeOK <=> FrameOK /\ BreakerOK /\ RequestOK /\ StoreOK /\ LocalsOK
BY DEF Up!TypeOK, FrameOK, BreakerOK, RequestOK, StoreOK, LocalsOK, WorkerType,
       WorkerSteps, ReaderType

LEMMA CatalogTypes ==
    ASSUME Up!UpstreamAssumption
    PROVE  /\ Up!Nothing \in Up!Catalogs /\ 1 \in Up!Lists /\ Up!Lists \subseteq Nat
           /\ Up!Resting \in WorkerType /\ Up!Away \in ReaderType
           /\ Absent \notin Up!Catalogs
BY DEF Up!UpstreamAssumption, Up!Nothing, Up!Catalogs, Up!Lists, Up!Resting, Up!Away,
       Up!Empty, WorkerType, WorkerSteps, ReaderType

\* A refresh that is under way has tried the lists below n.
InOrder(g) ==
    /\ \A l \in Up!Lists : g[l] <= version
    /\ \A k, l \in Up!Lists :
        k < l /\ g[k] # Up!Empty /\ g[l] # Up!Empty => g[k] <= g[l]
Tried(g, n) == InOrder(g) /\ \A l \in Up!Lists : l >= n => g[l] = Up!Empty

\* What the worker has in its hands, and what it and the handlers have stored.
Handed == IF worker.step \in {"copy", "cache"} THEN Up!OneRefresh(worker.got)
          ELSE Tried(worker.got, worker.list)
Given(g) == \/ g = cache \/ g = copy
            \/ \E r \in Readers : reader[r].step = "read" /\ g = reader[r].got

LEMMA WholeMeans ==
    Up!CatalogWhole <=> \A g : Given(g) /\ g # Absent => Up!OneRefresh(g)
BY DEF Up!CatalogWhole, Given

LEMMA OneRefreshMeans ==
    ASSUME NEW g
    PROVE  Up!OneRefresh(g) <=> g # Up!Nothing /\ InOrder(g)
BY DEF Up!OneRefresh, InOrder

UpInv == Up!TypeOK /\ Handed /\ Up!CatalogWhole

\* What was fetched stays what one refresh can have fetched when the server has
\* newer lists.
LEMMA OrderKept ==
    ASSUME version \in Int, version' \in Int, version <= version', NEW g \in Up!Catalogs,
           InOrder(g), Up!UpstreamAssumption
    PROVE  InOrder(g)'
<1>1. \A l \in Up!Lists : g[l] \in Int
    BY DEF Up!Catalogs
<1> QED  BY <1>1 DEF InOrder, Up!Lists, Up!Empty

\* One more list is fetched, or cannot be had.
LEMMA ListTried ==
    ASSUME Up!UpstreamAssumption, version \in 1 .. MaxVersions, NEW g \in Up!Catalogs,
           NEW n \in Up!Lists, Tried(g, n), NEW v \in {version, Up!Empty}, NEW h,
           h = [g EXCEPT ![n] = v]
    PROVE  /\ h \in Up!Catalogs /\ InOrder(h)
           /\ n < NumLists => n + 1 \in Up!Lists /\ Tried(h, n + 1)
<1>1. /\ \A l \in Up!Lists : g[l] \in Nat /\ (l >= n => g[l] = 0)
      /\ n \in Nat /\ Up!Lists = 1 .. NumLists /\ NumLists \in Nat /\ version \in Nat
      /\ v \in 0 .. MaxVersions /\ MaxVersions \in Nat
    BY DEF Up!UpstreamAssumption, Up!Catalogs, Up!Lists, Up!Empty, Tried
<1>2. h[n] = v /\ \A l \in Up!Lists \ {n} : h[l] = g[l]
    BY DEF Up!Catalogs
<1>3. h \in Up!Catalogs
    BY <1>1 DEF Up!Catalogs
<1>4. \A l \in Up!Lists : h[l] <= version
    BY <1>1, <1>2 DEF Tried, InOrder, Up!Empty
<1>5. ASSUME NEW k \in Up!Lists, NEW l \in Up!Lists, k < l, h[k] # 0, h[l] # 0
      PROVE  h[k] <= h[l]
  <2>1. CASE l = n
    <3>1. h[k] = g[k] /\ g[k] <= version /\ h[l] = version
        BY <1>1, <1>2, <1>5, <2>1 DEF Tried, InOrder, Up!Empty
    <3> QED  BY <3>1
  <2>2. CASE l # n
    <3>1. h[l] = g[l] /\ l < n
        BY <1>1, <1>2, <1>5, <2>2
    <3>2. h[k] = g[k]
        BY <1>1, <1>2, <1>5, <3>1
    <3> QED  BY <1>5, <3>1, <3>2 DEF Tried, InOrder, Up!Empty
  <2> QED  BY <2>1, <2>2
<1>6. InOrder(h)
    BY <1>4, <1>5 DEF InOrder, Up!Empty
<1>7. ASSUME n < NumLists PROVE n + 1 \in Up!Lists /\ Tried(h, n + 1)
    BY <1>1, <1>2, <1>6, <1>7 DEF Tried, Up!Empty
<1> QED  BY <1>3, <1>6, <1>7

\* A refresh's result may be stored or copied.
LEMMA WholeKept ==
    ASSUME Up!UpstreamAssumption, UpInv, version' \in Int, version <= version',
           \A g : Given(g)' /\ g # Absent
                    => g \in Up!Catalogs /\ (Given(g) \/ Up!OneRefresh(g))
    PROVE  Up!CatalogWhole'
<1>1. ASSUME NEW g, Given(g)', g # Absent PROVE Up!OneRefresh(g)'
  <2>1. g \in Up!Catalogs /\ Up!OneRefresh(g)
      BY <1>1, WholeMeans DEF UpInv
  <2>2. g # Up!Nothing /\ InOrder(g) /\ version \in Int
      BY <2>1, OneRefreshMeans DEF UpInv, Up!TypeOK
  <2>3. InOrder(g)'
      BY <2>1, <2>2, OrderKept
  <2> QED  BY <2>2, <2>3 DEF Up!OneRefresh, InOrder
<1> QED  BY <1>1 DEF Up!CatalogWhole, Given

LEMMA GivenTypes ==
    ASSUME UpInv, NEW g, Given(g), g # Absent
    PROVE  g \in Up!Catalogs
BY UpstreamTypes DEF UpInv, StoreOK, LocalsOK, ReaderType, Given

\* Nothing is stored and nothing is fetched.
LEMMA NothingStored ==
    ASSUME Up!UpstreamAssumption, UpInv, version' \in Int, version <= version',
           cache' = cache \/ cache' = Absent, copy' = copy \/ copy' = Absent,
           \A r \in Readers : reader'[r].step = "read" => reader'[r] = reader[r]
    PROVE  Up!CatalogWhole'
<1>1. ASSUME NEW g, Given(g)', g # Absent PROVE g \in Up!Catalogs /\ Given(g)
  <2>1. Given(g)
      BY <1>1 DEF Given
  <2> QED  BY <1>1, <2>1, GivenTypes
<1> QED  BY <1>1, WholeKept

LEMMA HandedKept ==
    ASSUME Up!UpstreamAssumption, UpInv, version' \in Int, version <= version',
           worker' = worker
    PROVE  Handed'
<1>1. worker.got \in Up!Catalogs /\ version \in Int
    BY UpstreamTypes DEF UpInv, LocalsOK, WorkerType, FrameOK
<1>2. CASE worker.step \in {"copy", "cache"}
  <2>1. worker.got # Up!Nothing /\ InOrder(worker.got)
      BY <1>2, OneRefreshMeans DEF UpInv, Handed
  <2>2. PICK g \in Up!Catalogs : g = worker.got
      BY <1>1
  <2>3. InOrder(g)'
      BY <1>1, <2>1, <2>2, OrderKept
  <2> QED  BY <1>2, <2>1, <2>2, <2>3 DEF Handed, Up!OneRefresh, InOrder
<1>3. CASE worker.step \notin {"copy", "cache"}
  <2>1. Tried(worker.got, worker.list)
      BY <1>3 DEF UpInv, Handed
  <2>2. PICK g \in Up!Catalogs : g = worker.got
      BY <1>1
  <2>3. InOrder(g)'
      BY <1>1, <2>1, <2>2, OrderKept DEF Tried
  <2> QED  BY <1>3, <2>1, <2>2, <2>3 DEF Handed, Tried, InOrder
<1> QED  BY <1>2, <1>3

\* A worker that rests, or is about to begin, has tried no list.
LEMMA NothingTried ==
    ASSUME Up!UpstreamAssumption, version \in Nat
    PROVE  Tried(Up!Nothing, 1) /\ InOrder(Up!Nothing)
BY DEF Tried, InOrder, Up!Nothing, Up!Empty, Up!Lists, Up!UpstreamAssumption

\* A client request and a health check move only themselves and the breaker.
LEMMA RequestStep ==
    ASSUME Up!UpstreamAssumption, UpInv, NEW c \in Requests,
           Up!Route(c) \/ Up!Send(c) \/ Up!Return(c) \/ Up!HangUp(c)
    PROVE  UpInv'
<1>1. FrameOK /\ BreakerOK /\ RequestOK /\ StoreOK /\ LocalsOK
    BY UpstreamTypes DEF UpInv
<1>2. UNCHANGED <<server, version, enabled, outages, worker, cache, copy, reader>>
    BY DEF Up!Route, Up!Send, Up!Return, Up!HangUp, Up!world, Up!store
<1>3. BreakerOK'
  <2>1. Up!record_success \/ Up!record_failure \/ UNCHANGED <<failures, openFor>>
      BY DEF Up!Route, Up!Send, Up!Return, Up!HangUp, Up!breaker
  <2> QED  BY <1>1, <2>1, BreakerKept
<1>4. RequestOK'
    BY <1>1 DEF RequestOK, Up!Route, Up!Send, Up!Return, Up!HangUp
<1>5. Up!TypeOK'
    BY <1>1, <1>2, <1>3, <1>4 DEF Up!TypeOK, FrameOK, BreakerOK, RequestOK, StoreOK,
       LocalsOK, WorkerType, WorkerSteps, ReaderType
<1>6. version' \in Int /\ version <= version'
    BY <1>1, <1>2 DEF FrameOK
<1>7. Handed' /\ Up!CatalogWhole'
    BY <1>2, <1>6, HandedKept, NothingStored
<1> QED  BY <1>5, <1>7 DEF UpInv

\* So do the server, the bundle and the clock.
LEMMA WorldStep ==
    ASSUME Up!UpstreamAssumption, UpInv,
           Up!ServerFails \/ Up!ServerRefuses \/ Up!ServerReturns
           \/ Up!ServerChanges \/ Up!Reconfigure \/ Up!ExpireCopy \/ Up!Tick \/ UNCHANGED Up!vars
    PROVE  UpInv'
<1>1. FrameOK /\ BreakerOK /\ RequestOK /\ StoreOK /\ LocalsOK
    BY UpstreamTypes DEF UpInv
<1>2. /\ UNCHANGED <<worker, cache, reader>> /\ (copy' = copy \/ copy' = Absent)
      /\ server' \in {server, "fails", "refuses", "serves"}
      /\ enabled' \in {enabled, ~enabled}
      /\ version' = version \/ (version' = version + 1 /\ version < MaxVersions)
      /\ outages' \in {outages, outages + 1}
    BY DEF Up!ServerFails, Up!ServerRefuses, Up!ServerReturns, Up!ServerChanges, Up!Reconfigure,
       Up!ExpireCopy, Up!Tick, Up!Event, Up!world, Up!store, Up!vars
<1>3. FrameOK'
  <2>1. version' \in 1 .. MaxVersions
      BY <1>1, <1>2 DEF FrameOK, Up!UpstreamAssumption
  <2>2. server' \in {"fails", "refuses", "serves"} /\ enabled' \in BOOLEAN
      BY <1>1, <1>2, Zenon DEF FrameOK
  <2>3. outages' \in Nat
      BY <1>1, <1>2 DEF FrameOK
  <2> QED  BY <2>1, <2>2, <2>3 DEF FrameOK
<1>4. BreakerOK'
  <2>1. Up!Tick \/ UNCHANGED <<failures, openFor>>
      BY DEF Up!ServerFails, Up!ServerRefuses, Up!ServerReturns, Up!ServerChanges, Up!Reconfigure,
         Up!ExpireCopy, Up!breaker, Up!vars
  <2> QED  BY <1>1, <2>1, BreakerKept
<1>5. RequestOK'
  <2>1. \/ request' = request
        \/ \E lost \in SUBSET Requests :
             request' = [c \in Requests |-> IF c \in lost THEN "lost" ELSE request[c]]
      BY DEF Up!ServerFails, Up!ServerRefuses, Up!ServerReturns, Up!ServerChanges, Up!Reconfigure,
         Up!ExpireCopy, Up!Tick, Up!vars
  <2> QED  BY <1>1, <2>1 DEF RequestOK
<1>6. Up!TypeOK'
    BY <1>1, <1>2, <1>3, <1>4, <1>5 DEF Up!TypeOK, FrameOK, BreakerOK, RequestOK,
       StoreOK, LocalsOK, WorkerType, WorkerSteps, ReaderType
<1>7. version' \in Int /\ version <= version'
    BY <1>1, <1>2 DEF FrameOK
<1>8. Handed' /\ Up!CatalogWhole'
    BY <1>2, <1>7, HandedKept, NothingStored
<1> QED  BY <1>6, <1>8 DEF UpInv

\* A handler that lists catalogs, reads the copy and puts it into memory.
LEMMA HandlerStep ==
    ASSUME Up!UpstreamAssumption, UpInv, NEW r \in Readers,
           Up!Enumerate(r) \/ Up!Lookup(r) \/ Up!Insert(r)
    PROVE  UpInv'
<1>1. FrameOK /\ BreakerOK /\ RequestOK /\ StoreOK /\ LocalsOK
    BY UpstreamTypes DEF UpInv
<1>2. /\ UNCHANGED <<server, version, enabled, outages, failures, openFor, request,
                     worker, copy>>
      /\ cache' = cache \/ (Up!Insert(r) /\ cache' = reader[r].got)
    BY DEF Up!Enumerate, Up!Lookup, Up!Insert, Up!world, Up!breaker, Up!store
<1>3. PICK local \in ReaderType :
        /\ reader' = [reader EXCEPT ![r] = local]
        /\ local.step = "read" => local.got = copy /\ copy # Absent
  <2>1. CASE Up!Enumerate(r)
    <3>1. reader' = [reader EXCEPT ![r] = [reader[r] EXCEPT !.step = "listed"]]
        BY <2>1 DEF Up!Enumerate
    <3>2. reader[r] \in ReaderType
        BY <1>1 DEF LocalsOK
    <3>3. [reader[r] EXCEPT !.step = "listed"] \in ReaderType
          /\ [reader[r] EXCEPT !.step = "listed"].step = "listed"
        BY <3>2 DEF ReaderType
    <3> QED  BY <3>1, <3>3
  <2>2. CASE Up!Lookup(r)
    <3>1. CASE cache = Absent /\ copy # Absent
      <4>1. copy \in Up!Catalogs
          BY <1>1, <3>1 DEF StoreOK
      <4>2. [step |-> "read", got |-> copy] \in ReaderType
          BY <4>1 DEF ReaderType
      <4>3. reader' = [reader EXCEPT ![r] = [step |-> "read", got |-> copy]]
          BY <2>2, <3>1 DEF Up!Lookup
      <4> QED  BY <3>1, <4>2, <4>3
    <3>2. CASE ~(cache = Absent /\ copy # Absent)
      <4>1. reader' = [reader EXCEPT ![r] = Up!Away]
          BY <2>2, <3>2 DEF Up!Lookup
      <4> QED  BY <4>1, CatalogTypes DEF Up!Away
    <3> QED  BY <3>1, <3>2
  <2>3. CASE Up!Insert(r)
    <3>1. reader' = [reader EXCEPT ![r] = Up!Away]
        BY <2>3 DEF Up!Insert
    <3> QED  BY <3>1, CatalogTypes DEF Up!Away
  <2> QED  BY <2>1, <2>2, <2>3
<1>4. reader \in [Readers -> ReaderType] /\ reader' \in [Readers -> ReaderType]
      /\ reader'[r] = local /\ \A q \in Readers \ {r} : reader'[q] = reader[q]
    BY <1>1, <1>3 DEF LocalsOK
<1>5. reader[r].got \in Up!Catalogs /\ (Up!Insert(r) => reader[r].step = "read")
    BY <1>4 DEF ReaderType, Up!Insert
<1>6. StoreOK' /\ LocalsOK'
    BY <1>1, <1>2, <1>4, <1>5 DEF StoreOK, LocalsOK
<1>7. Up!TypeOK'
    BY <1>1, <1>2, <1>6 DEF Up!TypeOK, FrameOK, BreakerOK, RequestOK, StoreOK,
       LocalsOK, WorkerType, WorkerSteps, ReaderType
<1>8. version' \in Int /\ version <= version'
    BY <1>1, <1>2 DEF FrameOK
<1>9. Handed'
    BY <1>2, <1>8, HandedKept
<1>10. ASSUME NEW g, Given(g)', g # Absent PROVE g \in Up!Catalogs /\ Given(g)
  <2>1. ASSUME g = cache' \/ g = copy'
        PROVE  Given(g)
      BY <1>2, <1>5, <2>1 DEF Given
  <2>2. ASSUME NEW q \in Readers, reader'[q].step = "read", g = reader'[q].got
        PROVE  Given(g)
      BY <1>3, <1>4, <2>2 DEF Given
  <2>3. Given(g)
      BY <1>10, <2>1, <2>2 DEF Given
  <2> QED  BY <1>10, <2>3, GivenTypes
<1>11. Up!CatalogWhole'
    BY <1>8, <1>10, WholeKept
<1> QED  BY <1>7, <1>9, <1>11 DEF UpInv

\* The steps of the worker between two fetches, up to where it stores.
LEMMA WorkerStep ==
    ASSUME Up!UpstreamAssumption, UpInv,
           Up!Wake \/ Up!Initialize \/ Up!Greeted \/ Up!StoreCopy \/ Up!StoreCache
           \/ Up!Clear \/ Up!Delete \/ Up!Sweep
    PROVE  UpInv'
<1>1. FrameOK /\ BreakerOK /\ RequestOK /\ StoreOK /\ LocalsOK
    BY UpstreamTypes DEF UpInv
<1>2. UNCHANGED <<server, version, enabled, outages, request, reader>>
    BY DEF Up!Wake, Up!Initialize, Up!Greeted, Up!StoreCopy, Up!StoreCache, Up!Clear,
       Up!Delete, Up!Sweep, Up!world, Up!store
<1>3. BreakerOK'
  <2>1. Up!record_success \/ Up!record_failure \/ UNCHANGED <<failures, openFor>>
      BY DEF Up!Wake, Up!Initialize, Up!Greeted, Up!StoreCopy, Up!StoreCache, Up!Clear,
         Up!Delete, Up!Sweep, Up!breaker, Up!Record
  <2> QED  BY <1>1, <2>1, BreakerKept
<1>4. worker \in WorkerType /\ worker.got \in Up!Catalogs /\ version \in Nat
    BY <1>1 DEF LocalsOK, WorkerType, FrameOK
<1>5. \/ worker' = Up!Resting
      \/ \E step \in WorkerSteps, session \in {worker.session, server = "serves"} :
            /\ worker' = [worker EXCEPT !.step = step, !.session = session]
            /\ worker.step \in {"copy", "cache"} <=> step \in {"copy", "cache"}
  <2>1. CASE Up!Greeted
      BY <2>1, Zenon DEF Up!Greeted, WorkerSteps
  <2>2. CASE Up!StoreCache \/ Up!Delete
      BY <2>2 DEF Up!StoreCache, Up!Delete
  <2>3. CASE Up!Wake \/ Up!Initialize \/ Up!StoreCopy \/ Up!Clear \/ Up!Sweep
    <3>1. \/ worker' = Up!Resting
          \/ \E step \in WorkerSteps :
                /\ worker' = [worker EXCEPT !.step = step]
                /\ worker.step \in {"copy", "cache"} <=> step \in {"copy", "cache"}
        BY <2>3 DEF Up!Wake, Up!Initialize, Up!StoreCopy, Up!Clear, Up!Sweep,
           WorkerSteps
    <3>2. \A step \in WorkerSteps :
            [worker EXCEPT !.step = step]
                = [worker EXCEPT !.step = step, !.session = worker.session]
        BY <1>4 DEF WorkerType
    <3> QED  BY <3>1, <3>2, Zenon
  <2> QED  BY <2>1, <2>2, <2>3
<1>6. worker' \in WorkerType /\ Handed'
  <2>1. CASE worker' = Up!Resting
    <3>1. Tried(Up!Nothing, 1)
        BY <1>4, NothingTried
    <3> QED  BY <1>2, <2>1, <3>1, CatalogTypes
             DEF Handed, Up!Resting, Tried, InOrder
  <2>2. ASSUME NEW step \in WorkerSteps,
               NEW session \in {worker.session, server = "serves"},
               worker' = [worker EXCEPT !.step = step, !.session = session],
               worker.step \in {"copy", "cache"} <=> step \in {"copy", "cache"}
        PROVE  worker' \in WorkerType /\ Handed'
    <3>0. session \in BOOLEAN
        BY <1>4, <2>2, Zenon DEF WorkerType
    <3>1. /\ worker' \in WorkerType /\ worker'.step = step
          /\ worker'.got = worker.got /\ worker'.list = worker.list
        BY <1>4, <2>2, <3>0 DEF WorkerType
    <3>2. worker'.step \in {"copy", "cache"} <=> worker.step \in {"copy", "cache"}
        BY <2>2, <3>1
    <3> QED  BY <1>2, <3>1, <3>2 DEF UpInv, Handed, Tried, InOrder, Up!OneRefresh
  <2> QED  BY <1>5, <2>1, <2>2
<1>7. /\ cache' \in {cache, Absent} \/ (cache' = worker.got /\ worker.step = "cache")
      /\ copy' \in {copy, Absent} \/ (copy' = worker.got /\ worker.step = "copy")
    BY DEF Up!Wake, Up!Initialize, Up!Greeted, Up!StoreCopy, Up!StoreCache, Up!Clear,
       Up!Delete, Up!Sweep, Up!store
<1>8. Up!TypeOK'
  <2>1. StoreOK' /\ LocalsOK'
      BY <1>1, <1>2, <1>4, <1>6, <1>7 DEF StoreOK, LocalsOK
  <2> QED  BY <1>1, <1>2, <1>3, <2>1 DEF Up!TypeOK, FrameOK, BreakerOK, RequestOK,
           StoreOK, LocalsOK, WorkerType, WorkerSteps, ReaderType
<1>9. version' \in Int /\ version <= version'
    BY <1>2, <1>4
<1>10. ASSUME NEW g, Given(g)', g # Absent
       PROVE  g \in Up!Catalogs /\ (Given(g) \/ Up!OneRefresh(g))
  <2>1. Given(g) \/ (g = worker.got /\ worker.step \in {"copy", "cache"})
      BY <1>2, <1>7, <1>10 DEF Given
  <2>2. CASE Given(g)
      BY <1>10, <2>2, GivenTypes
  <2>3. CASE g = worker.got /\ worker.step \in {"copy", "cache"}
      BY <1>4, <2>3 DEF UpInv, Handed
  <2> QED  BY <2>1, <2>2, <2>3
<1>11. Up!CatalogWhole'
    BY <1>9, <1>10, WholeKept
<1> QED  BY <1>6, <1>8, <1>11 DEF UpInv

\* One list is fetched, or cannot be had; the last one decides whether the refresh
\* is stored.
LEMMA FetchStep ==
    ASSUME Up!UpstreamAssumption, UpInv, Up!Fetch
    PROVE  UpInv'
<1>1. FrameOK /\ BreakerOK /\ RequestOK /\ StoreOK /\ LocalsOK
    BY UpstreamTypes DEF UpInv
<1>2. UNCHANGED <<server, version, enabled, outages, request, cache, copy, reader>>
    BY DEF Up!Fetch, Up!world, Up!store
<1>3. BreakerOK'
  <2>1. Up!record_success \/ Up!record_failure
      BY DEF Up!Fetch, Up!Record
  <2> QED  BY <1>1, <2>1, BreakerKept
<1>4. /\ worker \in WorkerType /\ worker.got \in Up!Catalogs /\ worker.list \in Up!Lists
      /\ worker.step = "fetch" /\ version \in 1 .. MaxVersions
    BY <1>1 DEF LocalsOK, WorkerType, FrameOK, Up!Fetch
<1>5. Tried(worker.got, worker.list)
    BY <1>4 DEF UpInv, Handed
<1>0. PICK v \in 0 .. MaxVersions : \E got :
        /\ got = [worker.got EXCEPT ![worker.list] = v]
        /\ Up!Fetched(v)
        /\ worker' = IF worker.list < NumLists
                     THEN [worker EXCEPT !.got = got, !.list = @ + 1]
                     ELSE [step |-> IF got = Up!Nothing THEN "clear" ELSE "copy",
                           session |-> FALSE, list |-> 1, got |-> got]
    BY Zenon DEF Up!Fetch
<1>6. PICK h :
        /\ h = [worker.got EXCEPT ![worker.list] = v]
        /\ Up!Fetched(v)
        /\ worker' = IF worker.list < NumLists
                     THEN [worker EXCEPT !.got = h, !.list = @ + 1]
                     ELSE [step |-> IF h = Up!Nothing THEN "clear" ELSE "copy",
                           session |-> FALSE, list |-> 1, got |-> h]
    BY <1>0, Zenon
<1>7. v \in {version, Up!Empty}
    BY <1>6 DEF Up!Fetched
<1>8. /\ h \in Up!Catalogs /\ InOrder(h)
      /\ worker.list < NumLists
           => worker.list + 1 \in Up!Lists /\ Tried(h, worker.list + 1)
    BY <1>4, <1>5, <1>6, <1>7, ListTried
<1>9. worker' \in WorkerType /\ Handed'
  <2>1. CASE worker.list < NumLists
    <3>1. /\ worker' \in WorkerType /\ worker'.step = "fetch"
          /\ worker'.got = h /\ worker'.list = worker.list + 1
        BY <1>4, <1>6, <1>8, <2>1 DEF WorkerType
    <3> QED  BY <1>2, <1>8, <2>1, <3>1 DEF Handed, Tried, InOrder
  <2>2. CASE ~(worker.list < NumLists) /\ h = Up!Nothing
    <3>1. worker' = [step |-> "clear", session |-> FALSE, list |-> 1,
                     got |-> Up!Nothing]
        BY <1>6, <2>2
    <3>2. Tried(Up!Nothing, 1)
        BY <1>4, NothingTried
    <3> QED  BY <1>2, <3>1, <3>2, CatalogTypes
             DEF Handed, Tried, InOrder, WorkerType, WorkerSteps
  <2>3. CASE ~(worker.list < NumLists) /\ h # Up!Nothing
    <3>1. worker' = [step |-> "copy", session |-> FALSE, list |-> 1, got |-> h]
        BY <1>6, <2>3
    <3> QED  BY <1>2, <1>8, <2>3, <3>1, CatalogTypes
             DEF Handed, Up!OneRefresh, InOrder, WorkerType, WorkerSteps
  <2> QED  BY <2>1, <2>2, <2>3
<1>10. Up!TypeOK'
    BY <1>1, <1>2, <1>3, <1>9 DEF Up!TypeOK, FrameOK, BreakerOK, RequestOK, StoreOK,
       LocalsOK, WorkerType, WorkerSteps, ReaderType
<1>11. Up!CatalogWhole'
  <2>1. version' \in Int /\ version <= version'
      BY <1>2, <1>4
  <2> QED  BY <1>2, <2>1, NothingStored
<1> QED  BY <1>9, <1>10, <1>11 DEF UpInv

\* What the gateway keeps of an upstream server is well formed, and every catalog
\* it gives to a client is what one refresh fetched, for every number of requests,
\* handlers, lists and failures, every interleaving of the catalog worker with the
\* handlers, and every outage.
THEOREM UpstreamCatalogs ==
    ASSUME Up!UpstreamAssumption
    PROVE  Up!Spec => [](Up!TypeOK /\ Up!CatalogWhole)
<1>1. Up!Init => UpInv
  <2> SUFFICES ASSUME Up!Init PROVE UpInv
      OBVIOUS
  <2>1. FrameOK /\ BreakerOK /\ RequestOK /\ StoreOK /\ LocalsOK
      BY CatalogTypes DEF Up!Init, Up!UpstreamAssumption, FrameOK, BreakerOK, RequestOK,
         StoreOK, LocalsOK
  <2>2. Handed
    <3>1. Tried(Up!Nothing, 1)
        BY NothingTried DEF Up!Init
    <3> QED  BY <3>1 DEF Up!Init, Up!Resting, Handed
  <2>3. Up!CatalogWhole
      BY DEF Up!Init, Up!CatalogWhole, Up!Away
  <2> QED  BY <2>1, <2>2, <2>3, UpstreamTypes DEF UpInv
<1>2. UpInv /\ [Up!Next]_(Up!vars) => UpInv'
    BY RequestStep, WorldStep, HandlerStep, WorkerStep, FetchStep DEF Up!Next, Up!Refresh
<1>3. UpInv => Up!TypeOK /\ Up!CatalogWhole
    BY DEF UpInv
<1> QED  BY <1>1, <1>2, <1>3, PTL DEF Up!Spec
=============================================================================
