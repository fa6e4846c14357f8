--------------------------- MODULE McpServerProofs ---------------------------
(***************************************************************************)
(* Theorems about McpServer and the PluginRegistry it extends, for any     *)
(* plugins, calls, files and bounds.                                       *)
(***************************************************************************)
EXTENDS McpServer, FiniteSetTheorems, SequenceTheorems, TLAPS

-----------------------------------------------------------------------------
(***************************************************************************)
(* The registry.  Kept says what holds of it whatever threads do; Alone    *)
(* what holds as long as no two threads registered at the same time.       *)
(***************************************************************************)

RegistryTypes ==
    /\ table \in [Slots -> AllClasses \cup {Nothing}]
    /\ \A s \in Slots : table[s] # Nothing => Slot(table[s]) = s
    /\ imported \subseteq Kinds /\ Eager \in imported
    /\ discovered \in BOOLEAN /\ overlapped \in BOOLEAN
    /\ visit \in [Threads -> Visit]

\* A claim is on the first class that waits; built-ins of one kind wait while that
\* kind is imported, those of Eager never do.
Lookups ==
    \A t \in Threads :
        /\ visit[t].claimed # Nothing =>
              Registering(t) /\ visit[t].queue # <<>> /\ visit[t].claimed = Head(visit[t].queue)
        /\ visit[t].at = "builtins" =>
              visit[t].kind \in Kinds /\ Range(visit[t].queue) \subseteq Range(Builtin[visit[t].kind])
        /\ visit[t].at = "builtins" /\ visit[t].kind = Eager => visit[t].queue = <<>>
        /\ visit[t].imports => visit[t].at = "builtins" /\ visit[t].kind \in imported
        /\ visit[t].at \in {"plugins", "ready"} => discovered

\* The scanners that are built in stay, and no one is about to take their slots.
EagerStay ==
    \A b \in Range(Builtin[Eager]) :
        /\ table[Slot(b)] = b
        /\ \A t \in Threads :
              visit[t].claimed # Nothing /\ Slot(visit[t].claimed) = Slot(b)
              => visit[t].claimed = b

Kept == RegistryTypes /\ Lookups /\ EagerStay

\* One thread registers at a time: its claim stands, the built-ins it imports are
\* in the table or wait, and plugins are loaded before any lookup is done.
OneAtATime == \A t, u \in Threads : Registering(t) /\ Registering(u) => t = u

ClaimsStand == \A t \in Threads : visit[t].claimed # Nothing => MayTake(visit[t].claimed)

Importing ==
    \A t \in Threads : visit[t].imports =>
        \A c \in Range(Builtin[visit[t].kind]) :
            table[Slot(c)] = c \/ c \in Range(visit[t].queue)

Imported ==
    \A k \in imported : \A c \in Range(Builtin[k]) :
        \/ table[Slot(c)] = c
        \/ \E n \in Threads : visit[n].imports /\ visit[n].kind = k

PluginsFirst == \A t, u \in Threads : visit[t].at = "ready" => visit[u].at # "plugins"

Alone == OneAtATime /\ ClaimsStand /\ Importing /\ Imported /\ PluginsFirst

\* The scanners a check was given are those there are, for no plugin comes any more.
ViewStands(n) ==
    /\ worker[n].view = View("Scanner")
    /\ discovered
    /\ \A u \in Threads : visit[u].at # "plugins"

Views ==
    \A n \in Threads :
        \/ worker[n].view = {}
        \/ /\ Range(Builtin[Eager]) \subseteq worker[n].view
           /\ overlapped \/ ViewStands(n)

RegistryInv == Kept /\ (overlapped \/ Alone) /\ Views

\* A slot has one built-in class.
LEMMA OneBuiltin ==
    /\ \A k \in Kinds : \A b \in Range(Builtin[k]) :
          /\ b \in BuiltinClasses /\ b \in AllClasses /\ Slot(b) \in Slots
          /\ b # Nothing /\ b.kind = k /\ b.current
    /\ \A b \in BuiltinClasses : \E k \in Kinds : b \in Range(Builtin[k])
    /\ \A b, c \in BuiltinClasses : Slot(b) = Slot(c) => b = c
    <1>0. \A k \in Kinds : \A b \in Range(Builtin[k]) :
             \E i \in 1..Len(Builtin[k]) : b = Builtin[k][i]
        BY RegistryAssumption DEF Range
    <1>1. ASSUME NEW k \in Kinds, NEW b \in Range(Builtin[k])
          PROVE  /\ b \in BuiltinClasses /\ b \in AllClasses /\ Slot(b) \in Slots
                 /\ b # Nothing /\ b.kind = k /\ b.current
        <2>1. b \in BuiltinClasses /\ b \in AllClasses /\ Slot(b) \in Slots
            BY DEF BuiltinClasses, AllClasses, Slots
        <2>2. PICK i \in 1..Len(Builtin[k]) : b = Builtin[k][i]
            BY <1>0
        <2> QED BY <2>1, <2>2, RegistryAssumption
    <1>2. \A b \in BuiltinClasses : \E k \in Kinds : b \in Range(Builtin[k])
        BY DEF BuiltinClasses
    <1>3. ASSUME NEW b \in BuiltinClasses, NEW c \in BuiltinClasses, Slot(b) = Slot(c)
          PROVE  b = c
        <2>1. PICK k \in Kinds : b \in Range(Builtin[k])
            BY <1>2
        <2>2. PICK l \in Kinds : c \in Range(Builtin[l])
            BY <1>2
        <2>3. b.kind = k /\ c.kind = l
            BY <1>1, <2>1, <2>2
        <2>4. k = l /\ b.name = c.name
            BY <1>3, <2>3 DEF Slot
        <2>5. PICK i \in 1..Len(Builtin[k]) : b = Builtin[k][i]
            BY <1>0, <2>1
        <2>6. PICK j \in 1..Len(Builtin[k]) : c = Builtin[k][j]
            BY <1>0, <2>2, <2>4
        <2> QED BY <2>4, <2>5, <2>6, RegistryAssumption
    <1> QED BY <1>1, <1>2, <1>3

\* What Head and Tail leave of a queue.
LEMMA Queues ==
    ASSUME NEW S, NEW q \in Seq(S), q # <<>>
    PROVE  /\ Head(q) \in S /\ Tail(q) \in Seq(S)
           /\ Head(q) \in Range(q) /\ Range(Tail(q)) \subseteq Range(q)
           /\ Range(q) = {Head(q)} \cup Range(Tail(q))
    <1>1. Head(q) \in S /\ Tail(q) \in Seq(S) /\ Head(q) = q[1] /\ 1 \in DOMAIN q
        OBVIOUS
    <1>2. \A i \in DOMAIN Tail(q) : i + 1 \in DOMAIN q /\ Tail(q)[i] = q[i + 1]
        OBVIOUS
    <1>3. \A i \in DOMAIN q : i = 1 \/ (i - 1 \in DOMAIN Tail(q) /\ q[i] = Tail(q)[i - 1])
        OBVIOUS
    <1> QED BY <1>1, <1>2, <1>3 DEF Range

LEMMA Elements ==
    ASSUME NEW S, NEW q \in Seq(S)
    PROVE  Range(q) \subseteq S
    BY DEF Range

\* The lookup of one thread goes on; two that register have overlapped.
LEMMA StepOf ==
    ASSUME visit \in [Threads -> Visit], overlapped \in BOOLEAN,
           NEW t \in Threads, NEW v \in Visit, Step(t, v)
    PROVE  /\ visit' \in [Threads -> Visit] /\ overlapped' \in BOOLEAN
           /\ visit'[t] = v /\ \A u \in Threads \ {t} : visit'[u] = visit[u]
           /\ ~overlapped' => ~overlapped
           /\ ~overlapped' /\ v.at \in {"builtins", "plugins"} =>
                 \A u \in Threads \ {t} : ~Registering(u)
    <1>1. visit' = [visit EXCEPT ![t] = v]
        BY DEF Step
    <1>2. overlapped' \in BOOLEAN /\ (~overlapped' => ~overlapped)
        BY DEF Step
    <1>3. ~overlapped' /\ v.at \in {"builtins", "plugins"} =>
                 \A u \in Threads \ {t} : ~Registering(u)
        BY DEF Step
    <1> QED BY <1>1, <1>2, <1>3

\* What a lookup may have been before it goes on, and what the step leaves alone.
Elsewhere(t) ==
    /\ visit' \in [Threads -> Visit] /\ overlapped' \in BOOLEAN
    /\ \A u \in Threads \ {t} : visit'[u] = visit[u]
    /\ ~overlapped' => ~overlapped
    /\ ~overlapped' /\ visit'[t].at \in {"builtins", "plugins"} =>
          \A u \in Threads \ {t} : ~Registering(u)

LEMMA Ensured ==
    ASSUME RegistryTypes, NEW t \in Threads, NEW k \in Kinds, NEW waits, Ensure(t, k, waits)
    PROVE  /\ Elsewhere(t) /\ visit[t].at = "idle"
           /\ visit'[t].at = "builtins" /\ visit'[t].kind = k /\ visit'[t].claimed = Nothing
           /\ visit'[t].imports = (k \notin imported)
           /\ visit'[t].queue = IF k \in imported THEN <<>> ELSE Builtin[k]
           /\ imported' = imported \cup {k} /\ UNCHANGED <<table, discovered>>
    <1> DEFINE i == k \notin imported
               q == IF k \in imported THEN <<>> ELSE Builtin[k]
               v1 == [Idle EXCEPT !.at = "builtins"]
               v2 == [v1 EXCEPT !.kind = k]
               v3 == [v2 EXCEPT !.imports = i]
               v == [v3 EXCEPT !.queue = q]
    <1>1. q \in Seq(AllClasses)
        <2>1. Builtin[k] \in Seq(BuiltinClasses) /\ BuiltinClasses \subseteq AllClasses
            BY RegistryAssumption DEF AllClasses
        <2> QED BY <2>1
    <1>2. i \in BOOLEAN
        OBVIOUS
    <1>3. Step(t, v)
        BY DEF Ensure
    <1> HIDE DEF i, q
    <1>4. Idle \in Visit /\ Idle.claimed = Nothing
        <2>1. Len(EntryPoints) \in Nat
            BY RegistryAssumption
        <2> QED BY <2>1 DEF Idle, Visit
    <1>5. v1 \in Visit /\ v1.claimed = Nothing /\ v1.at = "builtins"
        BY <1>4 DEF Visit
    <1> HIDE DEF v1
    <1>6. v2 \in Visit /\ v2.claimed = Nothing /\ v2.at = "builtins" /\ v2.kind = k
        BY <1>5 DEF Visit
    <1> HIDE DEF v2
    <1>7. /\ v3 \in Visit /\ v3.claimed = Nothing /\ v3.at = "builtins" /\ v3.kind = k
          /\ v3.imports = i
        BY <1>2, <1>6 DEF Visit
    <1> HIDE DEF v3
    <1>8. /\ v \in Visit /\ v.claimed = Nothing /\ v.at = "builtins" /\ v.kind = k
          /\ v.imports = i /\ v.queue = q
        BY <1>1, <1>7 DEF Visit
    <1> HIDE DEF v
    <1>9. Elsewhere(t) /\ visit'[t] = v
        BY <1>3, <1>8, StepOf DEF Elsewhere, RegistryTypes
    <1> QED BY <1>8, <1>9 DEF Ensure, i, q

LEMMA ClaimedOne ==
    ASSUME RegistryTypes, NEW t \in Threads, Claim(t)
    PROVE  /\ Elsewhere(t) /\ Registering(t)
           /\ visit[t].claimed = Nothing /\ visit[t].queue # <<>>
           /\ visit'[t].at = visit[t].at /\ visit'[t].kind = visit[t].kind
           /\ visit'[t].imports = visit[t].imports
           /\ \/ /\ ~Head(visit[t].queue).current
                 /\ visit'[t].queue = Tail(visit[t].queue) /\ visit'[t].claimed = Nothing
              \/ /\ MayTake(Head(visit[t].queue))
                 /\ visit'[t].queue = visit[t].queue
                 /\ visit'[t].claimed = Head(visit[t].queue)
              \/ /\ ~MayTake(Head(visit[t].queue))
                 /\ visit'[t].queue = <<>> /\ visit'[t].claimed = Nothing
           /\ UNCHANGED <<table, imported, discovered>>
    <1> DEFINE w == visit[t]
               q == w.queue
               c == Head(q)
               v1 == [w EXCEPT !.queue = Tail(@)]
               v2 == [w EXCEPT !.claimed = c]
               v3 == [w EXCEPT !.queue = <<>>]
    <1>1. w \in Visit /\ q # <<>> /\ w.claimed = Nothing /\ q \in Seq(AllClasses)
        BY DEF Claim, RegistryTypes, Visit
    <1>2. c \in AllClasses /\ Tail(q) \in Seq(AllClasses)
        BY <1>1
    <1>3. /\ v1 \in Visit /\ v1.at = w.at /\ v1.kind = w.kind /\ v1.imports = w.imports
          /\ v1.queue = Tail(q) /\ v1.claimed = Nothing
        BY <1>1, <1>2 DEF Visit
    <1>4. /\ v2 \in Visit /\ v2.at = w.at /\ v2.kind = w.kind /\ v2.imports = w.imports
          /\ v2.queue = q /\ v2.claimed = c
        BY <1>1, <1>2 DEF Visit
    <1>5. /\ v3 \in Visit /\ v3.at = w.at /\ v3.kind = w.kind /\ v3.imports = w.imports
          /\ v3.queue = <<>> /\ v3.claimed = Nothing
        <2>1. <<>> \in Seq(AllClasses)
            OBVIOUS
        <2> QED BY <1>1, <2>1 DEF Visit
    <1>6. \/ ~c.current /\ Step(t, v1)
          \/ MayTake(c) /\ Step(t, v2)
          \/ ~MayTake(c) /\ Step(t, v3)
        BY DEF Claim
    <1> HIDE DEF v1, v2, v3
    <1>7. /\ Elsewhere(t)
          /\ \/ ~c.current /\ visit'[t] = v1
             \/ MayTake(c) /\ visit'[t] = v2
             \/ ~MayTake(c) /\ visit'[t] = v3
        BY <1>3, <1>4, <1>5, <1>6, StepOf DEF Elsewhere, RegistryTypes
    <1> QED BY <1>1, <1>3, <1>4, <1>5, <1>7 DEF Claim

LEMMA StoredOne ==
    ASSUME RegistryTypes, Lookups, NEW t \in Threads, Store(t)
    PROVE  /\ Elsewhere(t) /\ Registering(t)
           /\ visit[t].claimed # Nothing
           /\ visit'[t].at = visit[t].at /\ visit'[t].kind = visit[t].kind
           /\ visit'[t].imports = visit[t].imports
           /\ visit'[t].queue = Tail(visit[t].queue) /\ visit'[t].claimed = Nothing
           /\ table' = [table EXCEPT ![Slot(visit[t].claimed)] = visit[t].claimed]
           /\ UNCHANGED <<imported, discovered>>
    <1> DEFINE w == visit[t]
               v1 == [w EXCEPT !.claimed = Nothing]
               v == [v1 EXCEPT !.queue = Tail(@)]
    <1>1. w \in Visit /\ w.queue # <<>> /\ w.queue \in Seq(AllClasses)
        BY DEF Store, RegistryTypes, Lookups, Visit
    <1>2. /\ v1 \in Visit /\ v1.at = w.at /\ v1.kind = w.kind /\ v1.imports = w.imports
          /\ v1.queue = w.queue /\ v1.claimed = Nothing
        BY <1>1 DEF Visit
    <1>3. Step(t, v)
        BY DEF Store
    <1> HIDE DEF v1
    <1>4. Tail(v1.queue) \in Seq(AllClasses)
        BY <1>1, <1>2
    <1>5. /\ v \in Visit /\ v.at = w.at /\ v.kind = w.kind /\ v.imports = w.imports
          /\ v.queue = Tail(w.queue) /\ v.claimed = Nothing
        BY <1>2, <1>4 DEF Visit
    <1> HIDE DEF v
    <1>6. Elsewhere(t) /\ visit'[t] = v
        BY <1>3, <1>5, StepOf DEF Elsewhere, RegistryTypes
    <1> QED BY <1>5, <1>6 DEF Store

\* The steps that only move a lookup on, its queue being empty.
LEMMA MovedOn ==
    ASSUME RegistryTypes, NEW t \in Threads,
           Discover(t) \/ NextPlugin(t) \/ Discovered(t) \/ Return(t)
    PROVE  /\ Elsewhere(t) /\ UNCHANGED <<table, imported>>
           /\ visit'[t].claimed = Nothing
           /\ \/ /\ visit[t].at = "builtins" /\ visit[t].queue = <<>> /\ ~visit'[t].imports
                 /\ discovered' = TRUE
                 /\ visit'[t].at = IF discovered THEN "ready" ELSE "plugins"
              \/ /\ visit[t].at = "plugins" /\ visit'[t].at \in {"plugins", "ready"}
                 /\ visit'[t].imports = visit[t].imports
                 /\ discovered' = discovered
              \/ /\ visit[t].at = "ready" /\ visit'[t] = Idle
                 /\ discovered' = discovered
    <1> DEFINE w == visit[t]
    <1>0. Len(EntryPoints) \in Nat
        BY RegistryAssumption
    <1>1. w \in Visit
        BY DEF RegistryTypes
    <1>2. CASE Discover(t)
        <2> DEFINE at == IF discovered THEN "ready" ELSE "plugins"
                   v1 == [w EXCEPT !.at = at]
                   v == [v1 EXCEPT !.imports = FALSE]
        <2>1. at \in {"ready", "plugins"}
            OBVIOUS
        <2>2. Step(t, v)
            BY <1>2 DEF Discover
        <2> HIDE DEF at
        <2>3. v1 \in Visit /\ v1.at = at /\ v1.claimed = w.claimed
            BY <1>1, <2>1 DEF Visit
        <2> HIDE DEF v1
        <2>4. v \in Visit /\ v.at = at /\ v.claimed = w.claimed /\ v.imports = FALSE
            BY <2>3 DEF Visit
        <2> HIDE DEF v
        <2>5. Elsewhere(t) /\ visit'[t] = v
            BY <2>2, <2>4, StepOf DEF Elsewhere, RegistryTypes
        <2> QED BY <1>2, <2>4, <2>5 DEF Discover, Resting, at
    <1>3. CASE NextPlugin(t)
        <2> DEFINE e == EntryPoints[w.points + 1]
        <2>1. PICK n \in 0..Len(Classes[e]) :
                  Step(t, [w EXCEPT !.points = @ + 1, !.queue = SubSeq(Classes[e], 1, n)])
            BY <1>3 DEF NextPlugin
        <2> DEFINE q == SubSeq(Classes[e], 1, n)
                   v1 == [w EXCEPT !.points = @ + 1]
                   v == [v1 EXCEPT !.queue = q]
        <2>2. w.points \in Nat /\ w.points < Len(EntryPoints)
            <3>1. w.points \in 0..Len(EntryPoints)
                BY <1>1 DEF Visit
            <3>2. w.points < Len(EntryPoints)
                BY <1>3 DEF NextPlugin
            <3> QED BY <1>0, <3>1, <3>2
        <2>3. e \in Range(EntryPoints)
            <3>1. w.points + 1 \in DOMAIN EntryPoints
                BY <1>0, <2>2, RegistryAssumption
            <3> QED BY <3>1 DEF Range
        <2>4. Classes[e] \in Seq(AllClasses)
            BY <2>3, RegistryAssumption
        <2>5. q \in Seq(AllClasses)
            BY <2>4
        <2>6. Step(t, v)
            BY <2>1
        <2> HIDE DEF q
        <2>7. /\ v1 \in Visit /\ v1.at = w.at /\ v1.claimed = w.claimed
              /\ v1.imports = w.imports
            BY <1>0, <1>1, <2>2 DEF Visit
        <2> HIDE DEF v1
        <2>8. v \in Visit /\ v.at = w.at /\ v.claimed = w.claimed /\ v.imports = w.imports
            BY <2>5, <2>7 DEF Visit
        <2> HIDE DEF v
        <2>9. Elsewhere(t) /\ visit'[t] = v
            BY <2>6, <2>8, StepOf DEF Elsewhere, RegistryTypes
        <2> QED BY <1>3, <2>8, <2>9 DEF NextPlugin, Resting
    <1>4. CASE Discovered(t)
        <2> DEFINE v == [w EXCEPT !.at = "ready"]
        <2>1. v \in Visit /\ v.at = "ready" /\ v.claimed = w.claimed /\ v.imports = w.imports
            BY <1>1 DEF Visit
        <2>2. Step(t, v)
            BY <1>4 DEF Discovered
        <2> HIDE DEF v
        <2>3. Elsewhere(t) /\ visit'[t] = v
            BY <2>1, <2>2, StepOf DEF Elsewhere, RegistryTypes
        <2> QED BY <1>4, <2>1, <2>3 DEF Discovered, Resting
    <1>5. CASE Return(t)
        <2>1. Idle \in Visit /\ Idle.claimed = Nothing
            BY <1>0 DEF Idle, Visit
        <2>2. Elsewhere(t) /\ visit'[t] = Idle
            BY <1>5, <2>1, StepOf DEF Elsewhere, RegistryTypes, Return
        <2> QED BY <1>5, <2>1, <2>2 DEF Return
    <1> QED BY <1>2, <1>3, <1>4, <1>5

\* A built-in class is never refused.
LEMMA BuiltinsMay ==
    ASSUME RegistryTypes, NEW c \in BuiltinClasses
    PROVE  MayTake(c)
    <1>1. Slot(c) \in Slots
        BY DEF Slots, AllClasses
    <1>2. table[Slot(c)] # Nothing => Slot(table[Slot(c)]) = Slot(c)
        BY <1>1 DEF RegistryTypes
    <1>3. CASE table[Slot(c)] \in BuiltinClasses /\ table[Slot(c)] # Nothing
        <2>1. table[Slot(c)] = c
            BY <1>2, <1>3, OneBuiltin
        <2> QED BY <2>1 DEF MayTake
    <1> QED BY <1>3 DEF MayTake

LEMMA TableStored ==
    ASSUME Kept, NEW t \in Threads, Store(t)
    PROVE  /\ table' \in [Slots -> AllClasses \cup {Nothing}]
           /\ \A s \in Slots : table'[s] # Nothing => Slot(table'[s]) = s
           /\ \A s \in Slots : table'[s] = IF s = Slot(visit[t].claimed) THEN visit[t].claimed
                                            ELSE table[s]
    <1> DEFINE c == visit[t].claimed
    <1>1. c \in AllClasses /\ Slot(c) \in Slots
        BY DEF Kept, RegistryTypes, Visit, Store, Slots
    <1>2. table \in [Slots -> AllClasses \cup {Nothing}]
        BY DEF Kept, RegistryTypes
    <1>3. table' = [table EXCEPT ![Slot(c)] = c]
        BY DEF Store
    <1> HIDE DEF c
    <1>4. table' \in [Slots -> AllClasses \cup {Nothing}]
        BY <1>1, <1>2, <1>3
    <1>5. \A s \in Slots : table'[s] = IF s = Slot(c) THEN c ELSE table[s]
        BY <1>2, <1>3
    <1>6. \A s \in Slots : table'[s] # Nothing => Slot(table'[s]) = s
        BY <1>5 DEF Kept, RegistryTypes
    <1> QED BY <1>4, <1>5, <1>6 DEF c

\* The part of Lookups that is about one thread.
LookupOf(t) ==
    /\ visit[t].claimed # Nothing =>
          Registering(t) /\ visit[t].queue # <<>> /\ visit[t].claimed = Head(visit[t].queue)
    /\ visit[t].at = "builtins" =>
          visit[t].kind \in Kinds /\ Range(visit[t].queue) \subseteq Range(Builtin[visit[t].kind])
    /\ visit[t].at = "builtins" /\ visit[t].kind = Eager => visit[t].queue = <<>>
    /\ visit[t].imports => visit[t].at = "builtins" /\ visit[t].kind \in imported
    /\ visit[t].at \in {"plugins", "ready"} => discovered

LEMMA OwnLookup ==
    ASSUME Kept, NEW t \in Threads, Elsewhere(t), LookupOf(t)',
           imported \subseteq imported', discovered => discovered'
    PROVE  Lookups'
    <1>1. \A u \in Threads \ {t} : visit'[u] = visit[u]
        BY DEF Elsewhere
    <1> QED BY <1>1 DEF Kept, Lookups, LookupOf, Registering

LEMMA KeptEnsure ==
    ASSUME Kept, NEW t \in Threads, NEW k \in Kinds, NEW waits, Ensure(t, k, waits)
    PROVE  Kept'
    <1>1. /\ Elsewhere(t) /\ visit[t].at = "idle"
          /\ visit'[t].at = "builtins" /\ visit'[t].kind = k /\ visit'[t].claimed = Nothing
          /\ visit'[t].imports = (k \notin imported)
          /\ visit'[t].queue = IF k \in imported THEN <<>> ELSE Builtin[k]
          /\ imported' = imported \cup {k} /\ UNCHANGED <<table, discovered>>
        BY Ensured DEF Kept
    <1>2. RegistryTypes'
        BY <1>1 DEF Kept, RegistryTypes, Elsewhere
    <1>3. Range(visit'[t].queue) \subseteq Range(Builtin[k])
        BY <1>1 DEF Range
    <1>4. k = Eager => visit'[t].queue = <<>>
        BY <1>1 DEF Kept, RegistryTypes
    <1>5. LookupOf(t)'
        BY <1>1, <1>3, <1>4 DEF LookupOf
    <1>6. Lookups'
        BY <1>1, <1>5, OwnLookup
    <1>7. EagerStay'
        BY <1>1 DEF Kept, EagerStay, Elsewhere
    <1> QED BY <1>2, <1>6, <1>7 DEF Kept

LEMMA KeptClaim ==
    ASSUME Kept, NEW t \in Threads, Claim(t)
    PROVE  Kept'
    <1> DEFINE q == visit[t].queue
    <1>1. /\ Elsewhere(t) /\ Registering(t)
          /\ visit[t].claimed = Nothing /\ q # <<>>
          /\ visit'[t].at = visit[t].at /\ visit'[t].kind = visit[t].kind
          /\ visit'[t].imports = visit[t].imports
          /\ \/ /\ ~Head(q).current /\ visit'[t].queue = Tail(q) /\ visit'[t].claimed = Nothing
             \/ /\ MayTake(Head(q)) /\ visit'[t].queue = q /\ visit'[t].claimed = Head(q)
             \/ /\ ~MayTake(Head(q)) /\ visit'[t].queue = <<>> /\ visit'[t].claimed = Nothing
          /\ UNCHANGED <<table, imported, discovered>>
        BY ClaimedOne DEF Kept
    <1>2. RegistryTypes'
        BY <1>1 DEF Kept, RegistryTypes, Elsewhere
    <1>3. q \in Seq(AllClasses)
        BY DEF Kept, RegistryTypes, Visit
    <1>4. Range(visit'[t].queue) \subseteq Range(q)
        <2>1. Range(Tail(q)) \subseteq Range(q)
            BY <1>1, <1>3, Queues
        <2>2. Range(<<>>) = {}
            BY DEF Range
        <2> QED BY <1>1, <2>1, <2>2
    <1>5. LookupOf(t)
        BY DEF Kept, Lookups, LookupOf
    <1>6. LookupOf(t)'
        <2>1. Registering(t)'
            BY <1>1 DEF Registering
        <2> QED BY <1>1, <1>4, <1>5, <2>1 DEF LookupOf
    <1>7. Lookups'
        BY <1>1, <1>6, OwnLookup
    <1>8. ASSUME NEW b \in Range(Builtin[Eager]), MayTake(Head(q)), Slot(Head(q)) = Slot(b)
          PROVE  Head(q) = b
        <2>1. table[Slot(b)] = b /\ b \in BuiltinClasses /\ b # Nothing
            BY OneBuiltin, RegistryAssumption DEF Kept, EagerStay
        <2> QED BY <1>8, <2>1 DEF MayTake
    <1>9. EagerStay'
        BY <1>1, <1>8 DEF Kept, EagerStay, Elsewhere
    <1> QED BY <1>2, <1>7, <1>9 DEF Kept

LEMMA KeptStore ==
    ASSUME Kept, NEW t \in Threads, Store(t)
    PROVE  Kept'
    <1> DEFINE q == visit[t].queue
    <1>1. /\ Elsewhere(t) /\ Registering(t)
          /\ visit[t].claimed # Nothing
          /\ visit'[t].at = visit[t].at /\ visit'[t].kind = visit[t].kind
          /\ visit'[t].imports = visit[t].imports
          /\ visit'[t].queue = Tail(q) /\ visit'[t].claimed = Nothing
          /\ UNCHANGED <<imported, discovered>>
        BY StoredOne DEF Kept
    <1>2. RegistryTypes'
        BY <1>1, TableStored DEF Kept, RegistryTypes, Elsewhere
    <1>3. q \in Seq(AllClasses)
        BY DEF Kept, RegistryTypes, Visit
    <1>4. LookupOf(t)
        BY DEF Kept, Lookups, LookupOf
    <1>5. q # <<>>
        BY <1>1, <1>4 DEF LookupOf
    <1>6. Range(Tail(q)) \subseteq Range(q)
        BY <1>3, <1>5, Queues
    <1>7. LookupOf(t)'
        BY <1>1, <1>4, <1>5, <1>6 DEF LookupOf
    <1>8. Lookups'
        BY <1>1, <1>7, OwnLookup
    <1>9. EagerStay'
        <2>1. ASSUME NEW b \in Range(Builtin[Eager])
              PROVE  table'[Slot(b)] = b
            <3>1. Slot(b) \in Slots /\ table[Slot(b)] = b
                BY OneBuiltin, RegistryAssumption DEF Kept, EagerStay
            <3>2. Slot(visit[t].claimed) = Slot(b) => visit[t].claimed = b
                BY <1>1 DEF Kept, EagerStay
            <3> QED BY <3>1, <3>2, TableStored
        <2> QED BY <1>1, <2>1 DEF Kept, EagerStay, Elsewhere
    <1> QED BY <1>2, <1>8, <1>9 DEF Kept

LEMMA KeptMove ==
    ASSUME Kept, NEW t \in Threads, Discover(t) \/ NextPlugin(t) \/ Discovered(t) \/ Return(t)
    PROVE  Kept'
    <1>1. /\ Elsewhere(t) /\ UNCHANGED <<table, imported>>
          /\ visit'[t].claimed = Nothing
          /\ discovered => discovered' = TRUE
          /\ discovered' \in BOOLEAN
          /\ \/ ~visit'[t].imports /\ visit'[t].at \in {"plugins", "ready"} /\ discovered' = TRUE
             \/ /\ visit'[t].imports = visit[t].imports /\ visit[t].at = "plugins"
                /\ visit'[t].at \in {"plugins", "ready"} /\ discovered' = discovered
             \/ visit'[t] = Idle
        BY MovedOn DEF Kept, RegistryTypes
    <1>2. RegistryTypes'
        BY <1>1 DEF Kept, RegistryTypes, Elsewhere
    <1>3. LookupOf(t)
        BY DEF Kept, Lookups, LookupOf
    <1>4. LookupOf(t)'
        <2>1. Idle.claimed = Nothing /\ Idle.at = "idle" /\ ~Idle.imports
            BY DEF Idle
        <2> QED BY <1>1, <1>3, <2>1 DEF LookupOf
    <1>5. Lookups'
        BY <1>1, <1>4, OwnLookup
    <1>6. EagerStay'
        BY <1>1 DEF Kept, EagerStay, Elsewhere
    <1> QED BY <1>2, <1>5, <1>6 DEF Kept

\* The next thread registers only after the last one is done.
LEMMA StillOne ==
    ASSUME Kept, OneAtATime, NEW t \in Threads, Elsewhere(t), ~overlapped'
    PROVE  OneAtATime'
    BY DEF Elsewhere, OneAtATime, Registering

LEMMA AloneEnsure ==
    ASSUME Kept, Alone, NEW t \in Threads, NEW k \in Kinds, NEW waits, Ensure(t, k, waits),
           ~overlapped'
    PROVE  Alone'
    <1>1. /\ Elsewhere(t) /\ visit[t].at = "idle"
          /\ visit'[t].at = "builtins" /\ visit'[t].kind = k /\ visit'[t].claimed = Nothing
          /\ visit'[t].imports = (k \notin imported)
          /\ visit'[t].queue = IF k \in imported THEN <<>> ELSE Builtin[k]
          /\ imported' = imported \cup {k} /\ UNCHANGED <<table, discovered>>
        BY Ensured DEF Kept
    <1>2. \A u \in Threads \ {t} : visit'[u] = visit[u]
        BY <1>1 DEF Elsewhere
    <1>3. OneAtATime'
        BY <1>1, StillOne DEF Alone
    <1>4. ClaimsStand'
        BY <1>1, <1>2 DEF Alone, ClaimsStand, MayTake
    <1>5. Importing'
        <2>1. visit'[t].imports => visit'[t].queue = Builtin[k]
            BY <1>1
        <2> QED BY <1>1, <1>2, <2>1 DEF Alone, Importing
    <1>6. ~visit[t].imports
        BY <1>1 DEF Kept, Lookups
    <1>7. Imported'
        <2>1. ASSUME NEW l \in imported, NEW c \in Range(Builtin[l])
              PROVE  \/ table'[Slot(c)] = c
                     \/ \E n \in Threads : visit'[n].imports /\ visit'[n].kind = l
            BY <1>1, <1>2, <1>6 DEF Alone, Imported
        <2>2. k \notin imported => visit'[t].imports /\ visit'[t].kind = k
            BY <1>1
        <2> QED BY <1>1, <2>1, <2>2 DEF Imported
    <1>8. PluginsFirst'
        BY <1>1, <1>2 DEF Alone, PluginsFirst
    <1> QED BY <1>3, <1>4, <1>5, <1>7, <1>8 DEF Alone

LEMMA AloneClaim ==
    ASSUME Kept, Alone, NEW t \in Threads, Claim(t), ~overlapped'
    PROVE  Alone'
    <1> DEFINE q == visit[t].queue
    <1>1. /\ Elsewhere(t) /\ Registering(t)
          /\ visit[t].claimed = Nothing /\ q # <<>>
          /\ visit'[t].at = visit[t].at /\ visit'[t].kind = visit[t].kind
          /\ visit'[t].imports = visit[t].imports
          /\ \/ /\ ~Head(q).current /\ visit'[t].queue = Tail(q) /\ visit'[t].claimed = Nothing
             \/ /\ MayTake(Head(q)) /\ visit'[t].queue = q /\ visit'[t].claimed = Head(q)
             \/ /\ ~MayTake(Head(q)) /\ visit'[t].queue = <<>> /\ visit'[t].claimed = Nothing
          /\ UNCHANGED <<table, imported, discovered>>
        BY ClaimedOne DEF Kept
    <1>2. \A u \in Threads \ {t} : visit'[u] = visit[u]
        BY <1>1 DEF Elsewhere
    <1>3. OneAtATime'
        BY <1>1, StillOne DEF Alone
    <1>4. ClaimsStand'
        <2>1. \A c : MayTake(c)' = MayTake(c)
            BY <1>1 DEF MayTake
        <2> QED BY <1>1, <1>2, <2>1 DEF Alone, ClaimsStand, MayTake
    <1>5. visit[t].imports => visit'[t].queue = q
        <2>1. q \in Seq(AllClasses)
            BY DEF Kept, RegistryTypes, Visit
        <2>2. Head(q) \in Range(q)
            BY <1>1, <2>1, Queues
        <2>3. visit[t].imports =>
                 visit[t].kind \in Kinds /\ Head(q) \in Range(Builtin[visit[t].kind])
            BY <2>2 DEF Kept, Lookups
        <2>4. visit[t].imports => Head(q).current /\ Head(q) \in BuiltinClasses
            BY <2>3, OneBuiltin
        <2> QED BY <1>1, <2>4, BuiltinsMay DEF Kept
    <1>6. Importing'
        BY <1>1, <1>2, <1>5 DEF Alone, Importing
    <1>7. Imported'
        BY <1>1, <1>2 DEF Alone, Imported
    <1>8. PluginsFirst'
        BY <1>1, <1>2 DEF Alone, PluginsFirst
    <1> QED BY <1>3, <1>4, <1>6, <1>7, <1>8 DEF Alone

LEMMA AloneStore ==
    ASSUME Kept, Alone, NEW t \in Threads, Store(t), ~overlapped'
    PROVE  Alone'
    <1> DEFINE q == visit[t].queue
               d == visit[t].claimed
    <1>1. /\ Elsewhere(t) /\ Registering(t)
          /\ d # Nothing
          /\ visit'[t].at = visit[t].at /\ visit'[t].kind = visit[t].kind
          /\ visit'[t].imports = visit[t].imports
          /\ visit'[t].queue = Tail(q) /\ visit'[t].claimed = Nothing
          /\ UNCHANGED <<imported, discovered>>
        BY StoredOne DEF Kept
    <1>2. \A u \in Threads \ {t} : visit'[u] = visit[u]
        BY <1>1 DEF Elsewhere
    <1>3. \A u \in Threads \ {t} : ~Registering(u)
        BY <1>1 DEF Alone, OneAtATime
    <1>4. \A u \in Threads \ {t} : visit[u].claimed = Nothing /\ ~visit[u].imports
        BY <1>3 DEF Kept, Lookups, Registering
    <1>5. ASSUME NEW k \in Kinds, NEW c \in Range(Builtin[k])
          PROVE  /\ table[Slot(c)] = c => table'[Slot(c)] = c
                 /\ c = d => table'[Slot(c)] = c
        <2>1. Slot(c) \in Slots /\ c \in BuiltinClasses /\ c # Nothing
            BY OneBuiltin
        <2>2. table[Slot(c)] = c /\ Slot(d) = Slot(c) => d = c
            BY <1>1, <2>1 DEF Alone, ClaimsStand, MayTake
        <2> QED BY <2>1, <2>2, TableStored
    <1>6. q \in Seq(AllClasses) /\ q # <<>> /\ d = Head(q)
        BY <1>1 DEF Kept, RegistryTypes, Visit, Lookups
    <1>7. Range(q) = {d} \cup Range(Tail(q))
        BY <1>6, Queues
    <1>8. OneAtATime'
        BY <1>1, StillOne DEF Alone
    <1>9. ClaimsStand'
        BY <1>1, <1>2, <1>4 DEF ClaimsStand
    <1>10. Importing'
        <2>1. ASSUME visit[t].imports, NEW c \in Range(Builtin[visit[t].kind])
              PROVE  table'[Slot(c)] = c \/ c \in Range(Tail(q))
            <3>1. visit[t].kind \in Kinds
                BY <2>1 DEF Kept, Lookups
            <3>2. table[Slot(c)] = c \/ c \in Range(q)
                BY <2>1 DEF Alone, Importing
            <3> QED BY <1>5, <1>7, <3>1, <3>2
        <2> QED BY <1>1, <1>2, <1>4, <2>1 DEF Importing
    <1>11. Imported'
        <2>1. imported \subseteq Kinds
            BY DEF Kept, RegistryTypes
        <2> QED BY <1>1, <1>2, <1>5, <2>1 DEF Alone, Imported
    <1>12. PluginsFirst'
        BY <1>1, <1>2 DEF Alone, PluginsFirst
    <1> QED BY <1>8, <1>9, <1>10, <1>11, <1>12 DEF Alone

LEMMA AloneMove ==
    ASSUME Kept, Alone, NEW t \in Threads,
           Discover(t) \/ NextPlugin(t) \/ Discovered(t) \/ Return(t), ~overlapped'
    PROVE  Alone'
    <1>1. /\ Elsewhere(t) /\ UNCHANGED <<table, imported>>
          /\ visit'[t].claimed = Nothing
          /\ \/ /\ visit[t].at = "builtins" /\ visit[t].queue = <<>> /\ ~visit'[t].imports
                /\ discovered' = TRUE
                /\ visit'[t].at = IF discovered THEN "ready" ELSE "plugins"
             \/ /\ visit[t].at = "plugins" /\ visit'[t].at \in {"plugins", "ready"}
                /\ visit'[t].imports = visit[t].imports
                /\ discovered' = discovered
             \/ /\ visit[t].at = "ready" /\ visit'[t] = Idle
                /\ discovered' = discovered
        BY MovedOn DEF Kept
    <1>2. \A u \in Threads \ {t} : visit'[u] = visit[u]
        BY <1>1 DEF Elsewhere
    <1>3. ~visit'[t].imports
        <2>1. visit[t].at = "plugins" => ~visit[t].imports
            BY DEF Kept, Lookups
        <2> QED BY <1>1, <2>1 DEF Idle
    <1>4. OneAtATime'
        BY <1>1, StillOne DEF Alone
    <1>5. ClaimsStand'
        <2>1. \A c : MayTake(c)' = MayTake(c)
            BY <1>1 DEF MayTake
        <2> QED BY <1>1, <1>2, <2>1 DEF Alone, ClaimsStand
    <1>6. Importing'
        BY <1>1, <1>2, <1>3 DEF Alone, Importing
    <1>7. Imported'
        <2>1. ASSUME NEW k \in imported, NEW c \in Range(Builtin[k]),
                     visit[t].imports, visit[t].kind = k
              PROVE  table[Slot(c)] = c
            <3>1. visit[t].queue = <<>>
                BY <1>1, <2>1 DEF Kept, Lookups
            <3>2. Range(<<>>) = {}
                BY DEF Range
            <3> QED BY <2>1, <3>1, <3>2 DEF Alone, Importing
        <2> QED BY <1>1, <1>2, <2>1 DEF Alone, Imported
    <1>8. PluginsFirst'
        <2>1. visit[t].at \in {"builtins", "plugins"} =>
                 \A u \in Threads \ {t} : visit[u].at # "plugins"
            BY DEF Alone, OneAtATime, Registering
        <2>2. visit'[t].at = "plugins" => \A u \in Threads : visit[u].at # "ready"
            <3>1. ~discovered => \A u \in Threads : visit[u].at # "ready"
                BY DEF Kept, Lookups
            <3>2. visit[t].at = "plugins" => \A u \in Threads : visit[u].at # "ready"
                BY DEF Alone, PluginsFirst
            <3> QED BY <1>1, <3>1, <3>2 DEF Idle
        <2>3. visit'[t].at = "ready" => visit[t].at \in {"builtins", "plugins"}
            BY <1>1 DEF Idle
        <2> QED BY <1>2, <2>1, <2>2, <2>3 DEF Alone, PluginsFirst
    <1> QED BY <1>4, <1>5, <1>6, <1>7, <1>8 DEF Alone

-----------------------------------------------------------------------------
(***************************************************************************)
(* Fixes.                                                                  *)
(***************************************************************************)

CallOf(w) ==
    [tool |-> w.tool, at |-> w.at, args |-> w.args, view |-> w.view, files |-> w.files,
     found |-> w.found, entry |-> w.entry, text |-> w.text, out |-> w.out]

Calls == worker = [n \in Threads |-> CallOf(worker[n])]

FixPlaces == {"recall", "reading", "applying", "returned", "raised"}

\* What FixFits says of one call.
Fit(w) ==
    w.tool = "nephilex_fix" /\ w.out \notin {Nothing, NoFix} =>
        LET fix == w.out
            line == fix.of.line
        IN  /\ Id(fix.of) = fix.asked
            /\ Fires(fix.of.rule, fix.old[line]) /\ Within(fix.of.code, fix.old[line])
            /\ ~Fires(fix.of.rule, fix.new[line])
            /\ fix.new = [fix.old EXCEPT ![line] = fix.new[line]]
            /\ Parses(fix.new)

\* The finding is the one that was asked for; until the file is edited, its text is
\* the one in which the line was compared.
Ready(w) ==
    /\ w.at \in {"reading", "applying"} => Id(w.entry) = w.args
    /\ w.at = "applying" => w.text = TextOf(w.entry) /\ LineUnchanged(w.entry, w.text)

Placed(w) ==
    /\ w.at # "none" => w.tool \in DOMAIN First
    /\ w.tool = "nephilex_fix" => w.at \in FixPlaces /\ (w.at # "returned" => w.out = Nothing)

FixInv ==
    /\ Calls
    /\ \A n \in Threads : Placed(worker[n])
    /\ \A n \in Threads \ shaken : Ready(worker[n]) /\ Fit(worker[n])

LEMMA OneCall ==
    ASSUME Calls, NEW n \in Threads, NEW w, w = CallOf(w), worker' = [worker EXCEPT ![n] = w]
    PROVE  Calls' /\ worker'[n] = w /\ \A m \in Threads \ {n} : worker'[m] = worker[m]
    <1>1. worker' = [m \in Threads |-> IF m = n THEN w ELSE worker[m]]
        BY DEF Calls
    <1>2. \A m \in Threads : worker'[m] = CallOf(worker'[m])
        BY <1>1 DEF Calls
    <1>3. worker' = [m \in Threads |-> CallOf(worker'[m])]
        BY <1>1, <1>2
    <1> QED BY <1>1, <1>3 DEF Calls

\* What a call has been asked to check, and what it has found, stay.
SameCheck(n) ==
    /\ worker'[n].args = worker[n].args
    /\ worker'[n].files = worker[n].files /\ worker'[n].found = worker[n].found

LEMMA Ending ==
    ASSUME Calls, NEW n \in Threads, NEW at, NEW out, Ends(n, at, out)
    PROVE  /\ Calls'
           /\ \A m \in Threads \ {n} : worker'[m] = worker[m]
           /\ worker'[n].tool = worker[n].tool /\ worker'[n].at = at
           /\ worker'[n].view = worker[n].view /\ worker'[n].out = out
           /\ worker'[n].files = {} /\ worker'[n].found = <<>>
    <1> DEFINE w0 == [NoCall EXCEPT !.tool = worker[n].tool]
               w1 == [w0 EXCEPT !.at = at]
               w2 == [w1 EXCEPT !.view = worker[n].view]
               w == [w2 EXCEPT !.out = out]
    <1>0. NoCall = CallOf(NoCall) /\ NoCall.files = {} /\ NoCall.found = <<>>
        BY DEF NoCall, CallOf
    <1>1. /\ w0 = CallOf(w0) /\ w0.tool = worker[n].tool
          /\ w0.files = {} /\ w0.found = <<>>
        BY <1>0 DEF CallOf
    <1> HIDE DEF w0
    <1>2. /\ w1 = CallOf(w1) /\ w1.tool = w0.tool /\ w1.at = at
          /\ w1.files = {} /\ w1.found = <<>>
        BY <1>1 DEF CallOf
    <1> HIDE DEF w1
    <1>3. /\ w2 = CallOf(w2) /\ w2.tool = w1.tool /\ w2.at = w1.at /\ w2.view = worker[n].view
          /\ w2.files = {} /\ w2.found = <<>>
        BY <1>2 DEF CallOf
    <1> HIDE DEF w2
    <1>4. /\ w = CallOf(w) /\ w.tool = w2.tool /\ w.at = w2.at /\ w.view = w2.view
          /\ w.out = out /\ w.files = {} /\ w.found = <<>>
        BY <1>3 DEF CallOf
    <1>5. worker' = [worker EXCEPT ![n] = w]
        BY DEF Ends, w0, w1, w2
    <1> HIDE DEF w
    <1>6. Calls' /\ worker'[n] = w /\ \A m \in Threads \ {n} : worker'[m] = worker[m]
        BY <1>4, <1>5, OneCall
    <1> QED BY <1>1, <1>2, <1>3, <1>4, <1>6

LEMMA Going ==
    ASSUME Calls, NEW n \in Threads, NEW at, To(n, at)
    PROVE  /\ Calls'
           /\ \A m \in Threads \ {n} : worker'[m] = worker[m]
           /\ worker'[n].tool = worker[n].tool /\ worker'[n].at = at
           /\ worker'[n].view = worker[n].view /\ worker'[n].out = worker[n].out
           /\ SameCheck(n)
    <1> DEFINE w == [worker[n] EXCEPT !.at = at]
    <1>1. worker' = [worker EXCEPT ![n] = w]
        BY DEF To
    <1>2. worker[n] = CallOf(worker[n])
        BY DEF Calls
    <1>3. /\ w = CallOf(w) /\ w.tool = worker[n].tool /\ w.at = at
          /\ w.view = worker[n].view /\ w.out = worker[n].out
          /\ w.args = worker[n].args /\ w.files = worker[n].files /\ w.found = worker[n].found
        BY <1>2 DEF CallOf
    <1> HIDE DEF w
    <1>4. Calls' /\ worker'[n] = w /\ \A m \in Threads \ {n} : worker'[m] = worker[m]
        BY <1>1, <1>3, OneCall DEF Calls
    <1> QED BY <1>3, <1>4 DEF SameCheck

\* A step of a thread is about its own call, and only a lookup changes what the
\* call was told.
Own(n) ==
    /\ Calls'
    /\ \A m \in Threads \ {n} : worker'[m] = worker[m]
    /\ worker'[n].tool = worker[n].tool

LEMMA ApartFrom ==
    ASSUME FixInv, NEW n \in Threads, UNCHANGED <<disk, shaken>>, Own(n),
           Placed(worker'[n]), n \in shaken \/ (Ready(worker[n])' /\ Fit(worker'[n]))
    PROVE  FixInv'
    <1>1. \A m \in Threads : Placed(worker'[m])
        BY DEF FixInv, Own
    <1>2. \A m \in Threads \ shaken : Ready(worker[m])' /\ Fit(worker'[m])
        BY DEF FixInv, Own, Ready, TextOf
    <1> QED BY <1>1, <1>2 DEF FixInv, Own

\* A call that ends without an answer, or goes on to a place of another tool.
LEMMA NoAnswer ==
    ASSUME FixInv, NEW n \in Threads, UNCHANGED <<disk, shaken>>, Own(n),
           \/ worker'[n].at \in {"returned", "raised"} /\ worker'[n].out \in {Nothing, NoFix}
              /\ (worker'[n].at = "raised" => worker'[n].out = Nothing)
           \/ /\ worker[n].tool # "nephilex_fix"
              /\ worker'[n].at \notin {"reading", "applying"}
           \/ worker'[n] = worker[n],
           worker[n].at # "none"
    PROVE  FixInv'
    <1>1. Placed(worker'[n])
        BY DEF FixInv, Own, Placed, FixPlaces
    <1>2. n \in shaken \/ (Ready(worker[n])' /\ Fit(worker'[n]))
        BY DEF FixInv, Own, Ready, Fit, TextOf
    <1> QED BY <1>1, <1>2, ApartFrom

LEMMA LookedUpOwn ==
    ASSUME Calls, NEW n \in Threads, LookedUp(n)
    PROVE  /\ Own(n)
           /\ worker'[n].at = IF View("Scanner") = {} THEN "raised" ELSE worker[n].tool
           /\ worker'[n].view = View("Scanner") /\ worker'[n].out = worker[n].out
           /\ SameCheck(n)
    <1> DEFINE x == View("Scanner")
               y == IF View("Scanner") = {} THEN "raised" ELSE worker[n].tool
               v == [worker[n] EXCEPT !.view = x]
               w == [v EXCEPT !.at = y]
    <1>1. worker[n] = CallOf(worker[n])
        BY DEF Calls
    <1>2. worker' = [worker EXCEPT ![n] = w]
        BY DEF Calls, LookedUp
    <1> HIDE DEF x, y
    <1>3. /\ v = CallOf(v) /\ v.view = x
          /\ v.tool = worker[n].tool /\ v.args = worker[n].args /\ v.entry = worker[n].entry /\ v.text = worker[n].text
          /\ v.out = worker[n].out
          /\ v.files = worker[n].files /\ v.found = worker[n].found
        BY <1>1 DEF CallOf
    <1> HIDE DEF v
    <1>4. /\ w = CallOf(w) /\ w.at = y /\ w.view = v.view
          /\ w.tool = v.tool /\ w.args = v.args /\ w.entry = v.entry /\ w.text = v.text
          /\ w.out = v.out
          /\ w.files = v.files /\ w.found = v.found
        BY <1>3 DEF CallOf
    <1> HIDE DEF w
    <1> QED BY <1>2, <1>3, <1>4, OneCall DEF Own, SameCheck, x, y

LEMMA ResolveOwn ==
    ASSUME Calls, NEW n \in Threads, ResolvePaths(n), ~Raises(n)
    PROVE  /\ Own(n) /\ worker'[n].at = "checking"
           /\ worker'[n].view = worker[n].view /\ worker'[n].out = worker[n].out
           /\ worker'[n].args = worker[n].args /\ worker'[n].found = worker[n].found
           /\ worker'[n].files = Range(worker[n].args)
    <1> DEFINE x == "checking"
               y == Range(worker[n].args)
               v == [worker[n] EXCEPT !.at = x]
               w == [v EXCEPT !.files = y]
    <1>1. worker[n] = CallOf(worker[n])
        BY DEF Calls
    <1>2. worker' = [worker EXCEPT ![n] = w]
        BY DEF Calls, ResolvePaths
    <1> HIDE DEF x, y
    <1>3. /\ v = CallOf(v) /\ v.at = x
          /\ v.tool = worker[n].tool /\ v.args = worker[n].args /\ v.view = worker[n].view /\ v.entry = worker[n].entry
          /\ v.text = worker[n].text /\ v.out = worker[n].out
          /\ v.found = worker[n].found
        BY <1>1 DEF CallOf
    <1> HIDE DEF v
    <1>4. /\ w = CallOf(w) /\ w.files = y /\ w.at = v.at
          /\ w.tool = v.tool /\ w.args = v.args /\ w.view = v.view /\ w.entry = v.entry
          /\ w.text = v.text /\ w.out = v.out
          /\ w.found = v.found
        BY <1>3 DEF CallOf
    <1> HIDE DEF w
    <1> QED BY <1>2, <1>3, <1>4, OneCall DEF Own, x, y

LEMMA CheckFileOwn ==
    ASSUME Calls, NEW n \in Threads, CheckFile(n)
    PROVE  /\ Own(n) /\ worker'[n].at = "checking"
           /\ worker'[n].view = worker[n].view /\ worker'[n].out = worker[n].out
           /\ worker'[n].args = worker[n].args
           /\ \E f \in worker[n].files :
                 /\ worker'[n].files = worker[n].files \ {f}
                 /\ worker'[n].found =
                       IF disk[f] = Gone THEN worker[n].found
                       ELSE worker[n].found \o Found(Home(f).path, disk[f], Home(f).root, Nothing)
    <1>0. worker[n].at = "checking"
        BY DEF CheckFile
    <1>1. PICK f \in worker[n].files :
             worker' = [worker EXCEPT
                ![n].files = @ \ {f},
                ![n].found = IF disk[f] = Gone THEN @
                             ELSE @ \o Found(Home(f).path, disk[f], Home(f).root, Nothing)]
        BY DEF CheckFile
    <1> DEFINE x == worker[n].files \ {f}
               y == IF disk[f] = Gone THEN worker[n].found
                    ELSE worker[n].found \o Found(Home(f).path, disk[f], Home(f).root, Nothing)
               v == [worker[n] EXCEPT !.files = x]
               w == [v EXCEPT !.found = y]
    <1>2. worker[n] = CallOf(worker[n])
        BY DEF Calls
    <1>3. worker' = [worker EXCEPT ![n] = w]
        <2>1. v.found = worker[n].found
            BY <1>2 DEF CallOf
        <2> QED BY <1>1, <2>1 DEF Calls
    <1> HIDE DEF x, y
    <1>4. /\ v = CallOf(v) /\ v.files = x
          /\ v.tool = worker[n].tool /\ v.at = worker[n].at /\ v.args = worker[n].args
          /\ v.view = worker[n].view /\ v.entry = worker[n].entry /\ v.text = worker[n].text
          /\ v.out = worker[n].out
        BY <1>2 DEF CallOf
    <1> HIDE DEF v
    <1>5. /\ w = CallOf(w) /\ w.found = y /\ w.files = v.files
          /\ w.tool = v.tool /\ w.at = v.at /\ w.args = v.args /\ w.view = v.view
          /\ w.entry = v.entry /\ w.text = v.text /\ w.out = v.out
        BY <1>4 DEF CallOf
    <1> HIDE DEF w
    <1>6. Own(n) /\ worker'[n] = w
        BY <1>3, <1>4, <1>5, OneCall DEF Own
    <1> QED BY <1>0, <1>4, <1>5, <1>6 DEF x, y

LEMMA CheckSnippetOwn ==
    ASSUME Calls, NEW n \in Threads, CheckSnippet(n), ~Raises(n)
    PROVE  /\ Own(n) /\ worker'[n].at = "checking"
           /\ worker'[n].view = worker[n].view /\ worker'[n].out = worker[n].out
           /\ worker'[n].args = worker[n].args /\ worker'[n].files = worker[n].files
           /\ worker'[n].found = Found(worker[n].args.path, worker[n].args.text, Nothing,
                                      worker[n].args.text)
    <1> DEFINE x == "checking"
               y == Found(worker[n].args.path, worker[n].args.text, Nothing, worker[n].args.text)
               v == [worker[n] EXCEPT !.at = x]
               w == [v EXCEPT !.found = y]
    <1>1. worker[n] = CallOf(worker[n])
        BY DEF Calls
    <1>2. worker' = [worker EXCEPT ![n] = w]
        BY DEF Calls, CheckSnippet
    <1> HIDE DEF x, y
    <1>3. /\ v = CallOf(v) /\ v.at = x
          /\ v.tool = worker[n].tool /\ v.args = worker[n].args /\ v.view = worker[n].view /\ v.entry = worker[n].entry
          /\ v.text = worker[n].text /\ v.out = worker[n].out
          /\ v.files = worker[n].files
        BY <1>1 DEF CallOf
    <1> HIDE DEF v
    <1>4. /\ w = CallOf(w) /\ w.found = y /\ w.at = v.at
          /\ w.tool = v.tool /\ w.args = v.args /\ w.view = v.view /\ w.entry = v.entry
          /\ w.text = v.text /\ w.out = v.out
          /\ w.files = v.files
        BY <1>3 DEF CallOf
    <1> HIDE DEF w
    <1> QED BY <1>2, <1>3, <1>4, OneCall DEF Own, x, y

LEMMA RecallOwn ==
    ASSUME Calls, NEW n \in Threads, NEW e, worker' = [worker EXCEPT ![n].at = "reading", ![n].entry = e]
    PROVE  /\ Own(n) /\ worker'[n].at = "reading" /\ worker'[n].entry = e
           /\ worker'[n].args = worker[n].args
           /\ worker'[n].view = worker[n].view /\ worker'[n].out = worker[n].out
           /\ SameCheck(n)
    <1> DEFINE x == "reading"
               y == e
               v == [worker[n] EXCEPT !.at = x]
               w == [v EXCEPT !.entry = y]
    <1>1. worker[n] = CallOf(worker[n])
        BY DEF Calls
    <1>2. worker' = [worker EXCEPT ![n] = w]
        BY DEF Calls
    <1> HIDE DEF x, y
    <1>3. /\ v = CallOf(v) /\ v.at = x
          /\ v.tool = worker[n].tool /\ v.args = worker[n].args /\ v.view = worker[n].view /\ v.text = worker[n].text
          /\ v.out = worker[n].out
          /\ v.files = worker[n].files /\ v.found = worker[n].found
        BY <1>1 DEF CallOf
    <1> HIDE DEF v
    <1>4. /\ w = CallOf(w) /\ w.entry = y /\ w.at = v.at
          /\ w.tool = v.tool /\ w.args = v.args /\ w.view = v.view /\ w.text = v.text
          /\ w.out = v.out
          /\ w.files = v.files /\ w.found = v.found
        BY <1>3 DEF CallOf
    <1> HIDE DEF w
    <1> QED BY <1>2, <1>3, <1>4, OneCall DEF Own, SameCheck, x, y

LEMMA ReadOwn ==
    ASSUME Calls, NEW n \in Threads, NEW text, worker' = [worker EXCEPT ![n].at = "applying", ![n].text = text]
    PROVE  /\ Own(n) /\ worker'[n].at = "applying" /\ worker'[n].text = text
           /\ worker'[n].args = worker[n].args /\ worker'[n].entry = worker[n].entry
           /\ worker'[n].view = worker[n].view /\ worker'[n].out = worker[n].out
           /\ SameCheck(n)
    <1> DEFINE x == "applying"
               y == text
               v == [worker[n] EXCEPT !.at = x]
               w == [v EXCEPT !.text = y]
    <1>1. worker[n] = CallOf(worker[n])
        BY DEF Calls
    <1>2. worker' = [worker EXCEPT ![n] = w]
        BY DEF Calls
    <1> HIDE DEF x, y
    <1>3. /\ v = CallOf(v) /\ v.at = x
          /\ v.tool = worker[n].tool /\ v.args = worker[n].args /\ v.view = worker[n].view /\ v.entry = worker[n].entry
          /\ v.out = worker[n].out
          /\ v.files = worker[n].files /\ v.found = worker[n].found
        BY <1>1 DEF CallOf
    <1> HIDE DEF v
    <1>4. /\ w = CallOf(w) /\ w.text = y /\ w.at = v.at
          /\ w.tool = v.tool /\ w.args = v.args /\ w.view = v.view /\ w.entry = v.entry
          /\ w.out = v.out
          /\ w.files = v.files /\ w.found = v.found
        BY <1>3 DEF CallOf
    <1> HIDE DEF w
    <1> QED BY <1>2, <1>3, <1>4, OneCall DEF Own, SameCheck, x, y

\* Neither of them disturbs the fixes: the calls that look up and check.
LEMMA FixOther ==
    ASSUME FixInv, NEW n \in Threads,
           \/ Lookup(n) \/ Looking(n) \/ LookedUp(n)
           \/ ResolvePaths(n) \/ CheckFile(n) \/ CheckSnippet(n) \/ RememberFound(n)
           \/ ScanProject(n) \/ AskProvider(n) \/ ProviderThere(n)
           \/ CheckPackage(n)
    PROVE  FixInv'
    <1> USE DEF NoCall
    <1>0. Calls /\ Placed(worker[n])
        BY DEF FixInv
    <1>1. worker[n].at \notin FixPlaces \cup {"none"} => worker[n].tool # "nephilex_fix"
        BY <1>0 DEF Placed
    <1>2. CASE Lookup(n)
        <2>1. Own(n) /\ worker'[n].at = "looking" /\ worker[n].at = "lookup"
            BY <1>0, <1>2, Going DEF Lookup, Own
        <2> QED BY <1>1, <1>2, <2>1, NoAnswer DEF Lookup, FixPlaces
    <1>3. CASE Looking(n)
        <2>1. Own(n) /\ worker'[n] = worker[n] /\ worker[n].at # "none"
            BY <1>0, <1>3 DEF Looking, Own, Calls
        <2> QED BY <1>3, <2>1, NoAnswer DEF Looking
    <1>4. CASE LookedUp(n)
        <2>1. worker[n].at = "looking" /\ worker[n].tool \in DOMAIN First
            BY <1>0, <1>4 DEF LookedUp, Placed
        <2>2. worker'[n].at \in {"raised"} \cup DOMAIN First /\ Own(n)
            BY <1>0, <1>4, <2>1, LookedUpOwn
        <2>3. worker'[n].at \notin {"reading", "applying"}
            BY <2>2 DEF First
        <2> QED BY <1>1, <1>4, <2>1, <2>2, <2>3, NoAnswer DEF LookedUp, FixPlaces
    <1>5. CASE ResolvePaths(n)
        <2>1. worker[n].at = "nephilex_check_files"
            BY <1>5 DEF ResolvePaths
        <2>2. Own(n) /\ worker'[n].at \in {"checking", "raised"}
            BY <1>0, <1>5, ResolveOwn, Ending DEF Raises, Own
        <2> QED BY <1>1, <1>5, <2>1, <2>2, NoAnswer DEF ResolvePaths, FixPlaces
    <1>6. CASE CheckFile(n)
        <2>1. worker[n].at = "checking"
            BY <1>6 DEF CheckFile
        <2> QED BY <1>0, <1>1, <1>6, <2>1, CheckFileOwn, NoAnswer DEF CheckFile, FixPlaces
    <1>7. CASE CheckSnippet(n)
        <2>1. worker[n].at = "nephilex_check_snippet"
            BY <1>7 DEF CheckSnippet
        <2>2. Own(n) /\ worker'[n].at \in {"checking", "raised"}
            BY <1>0, <1>7, CheckSnippetOwn, Ending DEF Raises, Own
        <2> QED BY <1>1, <1>7, <2>1, <2>2, NoAnswer DEF CheckSnippet, FixPlaces
    <1>8. CASE RememberFound(n)
        <2>1. Own(n) /\ worker'[n].at = "returned" /\ worker[n].at = "checking"
            BY <1>0, <1>8, Ending DEF RememberFound, Returns, Own
        <2> QED BY <1>1, <1>8, <2>1, NoAnswer DEF RememberFound, FixPlaces
    <1>9. CASE ScanProject(n)
        <2>1. worker[n].at = "nephilex_scan"
            BY <1>9 DEF ScanProject
        <2>2. Own(n) /\ worker'[n].at \in {"returned", "raised", "provider"}
            BY <1>0, <1>9, Ending, Going DEF ScanProject, Returns, Raises, Own
        <2> QED BY <1>1, <1>9, <2>1, <2>2, NoAnswer DEF ScanProject, FixPlaces
    <1>10. CASE AskProvider(n)
        <2>1. Own(n) /\ worker'[n].at = "asking" /\ worker[n].at = "provider"
            BY <1>0, <1>10, Going DEF AskProvider, Own
        <2> QED BY <1>1, <1>10, <2>1, NoAnswer DEF AskProvider, FixPlaces
    <1>11. CASE ProviderThere(n)
        <2>1. worker[n].at = "asking"
            BY <1>11 DEF ProviderThere
        <2>2. Own(n) /\ worker'[n].at \in {"returned", "raised"}
            BY <1>0, <1>11, Ending DEF ProviderThere, Returns, Raises, Own
        <2> QED BY <1>1, <1>11, <2>1, <2>2, NoAnswer DEF ProviderThere, FixPlaces
    <1>12. CASE CheckPackage(n)
        <2>1. worker[n].at = "package"
            BY <1>12 DEF CheckPackage
        <2>2. Own(n) /\ worker'[n].at \in {"returned", "raised"}
            BY <1>0, <1>12, Ending DEF CheckPackage, Returns, Raises, Own
        <2> QED BY <1>1, <1>12, <2>1, <2>2, NoAnswer DEF CheckPackage, FixPlaces
    <1> QED BY <1>2, <1>3, <1>4, <1>5, <1>6, <1>7, <1>8, <1>9, <1>10, <1>11, <1>12

LEMMA FixTool ==
    ASSUME FixInv, NEW n \in Threads, Recall(n) \/ ReadLine(n) \/ ApplyDry(n)
    PROVE  FixInv'
    <1>0. Calls /\ Placed(worker[n]) /\ UNCHANGED <<disk, shaken>>
        BY DEF FixInv, Recall, ReadLine, ApplyDry
    <1>1. worker[n].at \in {"recall", "reading", "applying"} /\ worker[n].at # "none"
        BY DEF Recall, ReadLine, ApplyDry
    <1>2. CASE Raises(n) \/ Returns(n, NoFix)
        <2>1. /\ Own(n) /\ worker'[n].at \in {"returned", "raised"}
              /\ worker'[n].out \in {Nothing, NoFix}
              /\ worker'[n].at = "raised" => worker'[n].out = Nothing
            BY <1>0, <1>2, Ending DEF Raises, Returns, Own
        <2> QED BY <1>0, <1>1, <2>1, NoAnswer
    <1>3. ASSUME NEW e \in Recalled(worker[n].args), 
                 worker' = [worker EXCEPT ![n].at = "reading", ![n].entry = e],
                 worker[n].at = "recall"
          PROVE  FixInv'
        <2>1. /\ Own(n) /\ worker'[n].at = "reading" /\ worker'[n].out = worker[n].out
              /\ worker'[n].entry = e /\ worker'[n].args = worker[n].args
            BY <1>0, <1>3, RecallOwn
        <2>2. Id(e) = worker[n].args
            BY DEF Recalled
        <2>3. Placed(worker'[n])
            BY <1>0, <1>3, <2>1 DEF Placed, Own, FixPlaces
        <2>4. Ready(worker[n])'
            BY <2>1, <2>2 DEF Ready
        <2>5. n \in shaken \/ Fit(worker'[n])
            BY <1>0, <1>3, <2>1 DEF Fit, Placed, Own
        <2> QED BY <1>0, <2>1, <2>3, <2>4, <2>5, ApartFrom
    <1>4. ASSUME NEW e, e = worker[n].entry, LineUnchanged(e, TextOf(e)),
                 worker' = [worker EXCEPT ![n].at = "applying", ![n].text = TextOf(e)],
                 worker[n].at = "reading"
          PROVE  FixInv'
        <2>1. /\ Own(n) /\ worker'[n].at = "applying" /\ worker'[n].out = worker[n].out
              /\ worker'[n].entry = e /\ worker'[n].args = worker[n].args
              /\ worker'[n].text = TextOf(e)
            BY <1>0, <1>4, ReadOwn
        <2>2. n \in shaken \/ Id(e) = worker[n].args
            BY <1>4 DEF FixInv, Ready
        <2>3. Placed(worker'[n])
            BY <1>0, <1>4, <2>1 DEF Placed, Own, FixPlaces
        <2>4. n \in shaken \/ Ready(worker[n])'
            BY <1>0, <1>4, <2>1, <2>2 DEF Ready, TextOf
        <2>5. Fit(worker'[n])
            BY <1>0, <1>4, <2>1 DEF Fit, Placed, Own
        <2> QED BY <1>0, <2>1, <2>3, <2>4, <2>5, ApartFrom
    <1>5. ASSUME NEW e, e = worker[n].entry, Applies(e, TextOf(e)), worker[n].at = "applying",
                 Returns(n, [of |-> e,
                             asked |-> worker[n].args,
                             old |-> worker[n].text,
                             new |-> [worker[n].text EXCEPT
                                         ![e.line] = Rewrite(e.rule, TextOf(e)[e.line])]])
          PROVE  FixInv'
        <2> DEFINE text == worker[n].text
                   out == [of |-> e, asked |-> worker[n].args, old |-> text,
                           new |-> [text EXCEPT ![e.line] = Rewrite(e.rule, TextOf(e)[e.line])]]
        <2>1. Own(n) /\ worker'[n].at = "returned" /\ worker'[n].out = out
            BY <1>0, <1>5, Ending DEF Returns, Own
        <2>2. Placed(worker'[n])
            BY <1>0, <1>5, <2>1 DEF Placed, Own, FixPlaces
        <2>3. Ready(worker[n])'
            BY <2>1 DEF Ready
        <2>4. ASSUME n \notin shaken
              PROVE  Fit(worker'[n])
            <3>1. /\ Id(e) = worker[n].args /\ text = TextOf(e) /\ LineUnchanged(e, text)
                BY <1>5, <2>4 DEF FixInv, Ready
            <3>2. out.new = [text EXCEPT ![e.line] = Rewrite(e.rule, @)]
                BY <3>1
            <3>3. out.new[e.line] = Rewrite(e.rule, text[e.line])
                BY <3>1, <3>2 DEF LineUnchanged
            <3> QED BY <1>5, <2>1, <3>1, <3>2, <3>3 DEF Fit, LineUnchanged, Applies
        <2> QED BY <1>0, <2>1, <2>2, <2>3, <2>4, ApartFrom
    <1>6. CASE Recall(n)
        BY <1>2, <1>3, <1>6 DEF Recall
    <1>7. CASE ReadLine(n)
        BY <1>2, <1>4, <1>7 DEF ReadLine
    <1>8. CASE ApplyDry(n)
        BY <1>2, <1>5, <1>8 DEF ApplyDry
    <1> QED BY <1>6, <1>7, <1>8

LEMMA FixStart ==
    ASSUME Init
    PROVE  FixInv
    <1>1. \A n \in Threads : worker[n] = NoCall
        BY DEF Init
    <1>2. CallOf(NoCall) = NoCall
        BY DEF CallOf, NoCall
    <1>3. worker = [n \in Threads |-> NoCall]
        BY DEF Init
    <1>4. Calls
        BY <1>1, <1>2, <1>3 DEF Calls
    <1>5. Placed(NoCall) /\ Ready(NoCall) /\ Fit(NoCall)
        BY DEF Placed, Ready, Fit, NoCall
    <1> QED BY <1>1, <1>4, <1>5 DEF FixInv

LEMMA FixMain ==
    ASSUME FixInv, StartCall \/ Reply \/ Timeout \/ Close \/ Edit \/ UNCHANGED vars
    PROVE  FixInv'
    <1>1. CASE StartCall
        <2>1. PICK r \in Requests : worker' = [worker EXCEPT ![count'] = Starts(r.tool, r.args)]
            BY <1>1 DEF StartCall
        <2> DEFINE v == [NoCall EXCEPT !.tool = r.tool]
                   u == [v EXCEPT !.at = First[r.tool]]
                   w == [u EXCEPT !.args = r.args]
        <2>2. NoCall = CallOf(NoCall) /\ NoCall.out = Nothing
            BY DEF NoCall, CallOf
        <2>3. v = CallOf(v) /\ v.tool = r.tool /\ v.out = Nothing
            BY <2>2 DEF CallOf
        <2> HIDE DEF v
        <2>4. u = CallOf(u) /\ u.tool = r.tool /\ u.at = First[r.tool] /\ u.out = Nothing
            BY <2>3 DEF CallOf
        <2> HIDE DEF u
        <2>5. w = CallOf(w) /\ w.tool = r.tool /\ w.at = First[r.tool] /\ w.out = Nothing
            BY <2>4 DEF CallOf
        <2>6. worker' = [worker EXCEPT ![count'] = w]
            BY <2>1 DEF Starts, v, u
        <2> HIDE DEF w
        <2>7. r.tool \in DOMAIN First
            BY CallAssumption
        <2>8. Placed(w) /\ Fit(w) /\ w.at \notin {"reading", "applying"}
            BY <2>5, <2>7 DEF Placed, Fit, First, FixPlaces
        <2>9. \A m \in Threads : worker'[m] = worker[m] \/ worker'[m] = w
            BY <2>6 DEF FixInv, Calls
        <2>10. CASE count' \in Threads
            <3>1. Calls'
                BY <2>5, <2>6, <2>10, OneCall DEF FixInv
            <3> QED BY <1>1, <2>8, <2>9, <3>1 DEF FixInv, StartCall, Ready, TextOf
        <2>11. CASE count' \notin Threads
            <3>1. worker' = worker
                BY <2>6, <2>11 DEF FixInv, Calls
            <3> QED BY <1>1, <3>1 DEF FixInv, StartCall, Calls, Ready, TextOf
        <2> QED BY <2>10, <2>11
    <1>2. CASE Reply \/ Timeout \/ Close \/ UNCHANGED vars
        <2>1. UNCHANGED <<disk, worker, shaken>>
            BY <1>2 DEF Reply, Timeout, Close, vars
        <2> QED BY <2>1 DEF FixInv, Calls, Ready, TextOf
    <1>3. CASE Edit
        <2>1. worker' = worker /\ shaken' = shaken \cup {n \in Threads : Running(n)}
            BY <1>3 DEF Edit
        <2>2. \A n \in Threads \ shaken' :
                 n \notin shaken /\ worker[n].at \notin {"reading", "applying"}
            BY <2>1 DEF Running
        <2>3. \A n \in Threads \ shaken' : Ready(worker[n])' /\ Fit(worker'[n])
            BY <2>1, <2>2 DEF FixInv, Ready
        <2> QED BY <2>1, <2>3 DEF FixInv, Calls
    <1> QED BY <1>1, <1>2, <1>3

\* A fix that is offered changes one line, the one the finding asked for is about, into
\* one the rule does not flag, unless the file was edited while it was made (FixFits).
THEOREM FixesFit == Spec => []FixFits
    <1>1. FixInv /\ [Next]_vars => FixInv'
        BY FixMain, FixOther, FixTool DEF Next, Work
    <1>2. FixInv => FixFits
        BY DEF FixInv, FixFits, Fit
    <1> QED BY FixStart, <1>1, <1>2, PTL DEF Spec

-----------------------------------------------------------------------------
(***************************************************************************)
(* The scanners of a check.                                                *)
(***************************************************************************)

LEMMA EagerSeen ==
    ASSUME Kept
    PROVE  Range(Builtin[Eager]) \subseteq View("Scanner")
    <1>1. ASSUME NEW b \in Range(Builtin[Eager])
          PROVE  b \in View("Scanner")
        <2>1. Slot(b) \in Slots /\ b # Nothing /\ b.kind = Eager /\ table[Slot(b)] = b
            BY OneBuiltin, RegistryAssumption DEF Kept, EagerStay
        <2>2. Slot(b)[1] = "Scanner"
            BY <2>1 DEF Slot, Eager
        <2> QED BY <2>1, <2>2 DEF View
    <1> QED BY <1>1

\* Once plugins are loaded, what is still imported is no scanner.
LEMMA StoredNoScanner ==
    ASSUME Kept, NEW t \in Threads, Store(t), visit[t].at # "plugins"
    PROVE  View("Scanner")' = View("Scanner")
    <1>1. Registering(t) /\ visit[t].claimed # Nothing
        BY DEF Store
    <1>2. visit[t].at = "builtins" /\ visit[t].kind \in Kinds
        BY <1>1 DEF Registering, Kept, Lookups
    <1>3. /\ visit[t].queue \in Seq(AllClasses) /\ visit[t].queue # <<>>
          /\ visit[t].claimed = Head(visit[t].queue)
        BY <1>1 DEF Kept, RegistryTypes, Visit, Lookups
    <1>4. visit[t].claimed \in Range(Builtin[visit[t].kind])
        <2>1. Head(visit[t].queue) \in Range(visit[t].queue)
            BY <1>3, Queues
        <2> QED BY <1>2, <1>3, <2>1 DEF Kept, Lookups
    <1>5. visit[t].kind # Eager
        BY <1>2, <1>3 DEF Kept, Lookups
    <1>6. Slot(visit[t].claimed)[1] # "Scanner"
        <2>1. visit[t].claimed.kind = visit[t].kind
            BY <1>2, <1>4, OneBuiltin
        <2> QED BY <1>5, <2>1 DEF Slot, Eager
    <1>7. \A s \in Slots : s[1] = "Scanner" => table'[s] = table[s]
        BY <1>6, TableStored
    <1> QED BY <1>7 DEF View

LEMMA ViewsStay ==
    ASSUME Kept, overlapped \/ Alone, Views, NEW t \in Threads,
           \/ \E k \in Kinds, waits \in BOOLEAN : Ensure(t, k, waits)
           \/ Register(t) \/ Return(t),
           \A n \in Threads : worker'[n].view = worker[n].view
    PROVE  Views'
    <1>1. ASSUME NEW n \in Threads, ~overlapped', ViewStands(n)
          PROVE  ViewStands(n)'
        <2>1. CASE \E k \in Kinds, waits \in BOOLEAN : Ensure(t, k, waits)
            <3>1. /\ Elsewhere(t) /\ visit'[t].at = "builtins" /\ UNCHANGED <<table, discovered>>
                BY <2>1, Ensured DEF Kept
            <3> QED BY <1>1, <3>1 DEF ViewStands, View, Elsewhere
        <2>2. CASE Claim(t)
            <3>1. /\ Elsewhere(t) /\ visit'[t].at = visit[t].at /\ UNCHANGED <<table, discovered>>
                BY <2>2, ClaimedOne DEF Kept
            <3> QED BY <1>1, <3>1 DEF ViewStands, View, Elsewhere
        <2>3. CASE Store(t)
            <3>1. /\ Elsewhere(t) /\ visit'[t].at = visit[t].at /\ discovered' = discovered
                BY <2>3, StoredOne DEF Kept
            <3>2. visit[t].at # "plugins"
                BY <1>1 DEF ViewStands
            <3>3. View("Scanner")' = View("Scanner")
                BY <2>3, <3>2, StoredNoScanner
            <3> QED BY <1>1, <3>1, <3>3 DEF ViewStands, Elsewhere
        <2>4. CASE Discover(t) \/ NextPlugin(t) \/ Discovered(t) \/ Return(t)
            <3>1. /\ Elsewhere(t) /\ table' = table /\ discovered' = TRUE
                  /\ \/ visit'[t].at # "plugins"
                     \/ visit'[t] = Idle
                BY <1>1, <2>4, MovedOn DEF Kept, ViewStands
            <3>2. visit'[t].at # "plugins"
                BY <3>1 DEF Idle
            <3> QED BY <1>1, <3>1, <3>2 DEF ViewStands, View, Elsewhere
        <2> QED BY <2>1, <2>2, <2>3, <2>4 DEF Register
    <1>2. ~overlapped' => ~overlapped
        BY Ensured, ClaimedOne, StoredOne, MovedOn DEF Kept, Elsewhere, Register
    <1> QED BY <1>1, <1>2 DEF Views

LEMMA RegistryStep ==
    ASSUME Kept, overlapped \/ Alone, NEW t \in Threads,
           \/ \E k \in Kinds, waits \in BOOLEAN : Ensure(t, k, waits)
           \/ Register(t) \/ Return(t)
    PROVE  Kept' /\ (overlapped' \/ Alone')
    <1>1. Kept'
        BY KeptEnsure, KeptClaim, KeptStore, KeptMove DEF Register
    <1>2. ~overlapped' => ~overlapped
        BY Ensured, ClaimedOne, StoredOne, MovedOn DEF Kept, Elsewhere, Register
    <1>3. ~overlapped' => Alone'
        BY <1>2, AloneEnsure, AloneClaim, AloneStore, AloneMove DEF Register
    <1> QED BY <1>1, <1>3

\* The check is told what there is.
LEMMA ViewTaken ==
    ASSUME RegistryInv, Calls, NEW n \in Threads, LookedUp(n)
    PROVE  Views'
    <1>1. /\ worker'[n].view = View("Scanner")
          /\ \A m \in Threads \ {n} : worker'[m] = worker[m]
        BY LookedUpOwn DEF Own
    <1>2. Return(n) /\ visit[n].at = "ready"
        BY DEF LookedUp, Return
    <1>3. Elsewhere(n) /\ table' = table /\ discovered' = discovered /\ visit'[n].at # "plugins"
        <2>1. Elsewhere(n) /\ table' = table /\ discovered' = discovered /\ visit'[n] = Idle
            BY <1>2, MovedOn DEF RegistryInv, Kept
        <2> QED BY <2>1 DEF Idle
    <1>4. Range(Builtin[Eager]) \subseteq View("Scanner")
        BY EagerSeen DEF RegistryInv
    <1>5. View("Scanner")' = View("Scanner")
        BY <1>3 DEF View
    <1>6. ~overlapped' => ViewStands(n)'
        <2>1. ~overlapped' => Alone
            BY <1>3 DEF RegistryInv, Elsewhere
        <2>2. discovered
            BY <1>2 DEF RegistryInv, Kept, Lookups
        <2>3. Alone => \A u \in Threads : visit[u].at # "plugins"
            BY <1>2 DEF Alone, PluginsFirst
        <2> QED BY <1>1, <1>3, <1>5, <2>1, <2>2, <2>3 DEF ViewStands, Elsewhere
    <1>7. ASSUME NEW m \in Threads \ {n}, ~overlapped', ViewStands(m)
          PROVE  ViewStands(m)'
        BY <1>1, <1>3, <1>5, <1>7 DEF ViewStands, Elsewhere
    <1>8. ~overlapped' => ~overlapped
        BY <1>3 DEF Elsewhere
    <1> QED BY <1>1, <1>4, <1>6, <1>7, <1>8 DEF RegistryInv, Views

\* Only a lookup tells a call its scanners.
LEMMA ViewSame ==
    ASSUME Calls, NEW n \in Threads, Work(n), ~LookedUp(n)
    PROVE  \A m \in Threads : worker'[m].view = worker[m].view
    <1>1. CASE Lookup(n) \/ AskProvider(n) \/ To(n, "provider")
        BY <1>1, Going DEF Lookup, AskProvider
    <1>2. CASE worker' = worker
        BY <1>2
    <1>3. CASE ResolvePaths(n) \/ CheckFile(n) \/ CheckSnippet(n)
        BY <1>3, ResolveOwn, CheckFileOwn, CheckSnippetOwn, Ending DEF Raises, Own
    <1>4. CASE Recall(n) \/ ReadLine(n) \/ ApplyDry(n)
        BY <1>4, RecallOwn, ReadOwn, Ending DEF Recall, ReadLine, ApplyDry, Raises, Returns, Own
    <1>5. CASE RememberFound(n) \/ ProviderThere(n) \/ CheckPackage(n)
        BY <1>5, Ending DEF RememberFound, ProviderThere, CheckPackage, Raises, Returns
    <1>6. CASE ScanProject(n)
        BY <1>1, <1>6, Ending DEF ScanProject, Raises, Returns
    <1> QED BY <1>1, <1>2, <1>3, <1>4, <1>5, <1>6 DEF Work, Looking

LEMMA RegistryStart ==
    ASSUME Init
    PROVE  RegistryInv
    <1> DEFINE B == Range(Builtin[Eager])
    <1>1. \A b, c \in B : Slot(b) = Slot(c) => b = c
        BY OneBuiltin, RegistryAssumption
    <1>2. \A b \in B : b \in AllClasses /\ Slot(b) \in Slots /\ b # Nothing
        BY OneBuiltin, RegistryAssumption
    <1>3. table = [s \in Slots |-> IF \E c \in B : Slot(c) = s
                                   THEN CHOOSE c \in B : Slot(c) = s ELSE Nothing]
        BY DEF Init, RegistryInit
    <1> HIDE DEF B
    <1>4. \A b \in B : table[Slot(b)] = b
        <2>1. ASSUME NEW b \in B
              PROVE  table[Slot(b)] = b
            <3>1. (CHOOSE c \in B : Slot(c) = Slot(b)) = b
                BY <1>1
            <3> QED BY <1>2, <1>3, <3>1
        <2> QED BY <2>1
    <1>5. \A s \in Slots : table[s] = Nothing \/ (table[s] \in B /\ Slot(table[s]) = s)
        BY <1>3
    <1>6. /\ imported = {Eager} /\ discovered = FALSE /\ overlapped = FALSE
          /\ visit = [t \in Threads |-> Idle]
        BY DEF Init, RegistryInit
    <1>7. Idle \in Visit
        <2>1. Len(EntryPoints) \in Nat
            BY RegistryAssumption
        <2> QED BY <2>1 DEF Idle, Visit
    <1>8. RegistryTypes
        <2>1. table \in [Slots -> AllClasses \cup {Nothing}]
            BY <1>2, <1>3, <1>5
        <2> QED BY <1>5, <1>6, <1>7, <2>1, RegistryAssumption DEF RegistryTypes
    <1>9. \A t \in Threads : /\ visit[t].at = "idle" /\ visit[t].claimed = Nothing
                             /\ ~visit[t].imports
        BY <1>6 DEF Idle
    <1>10. Lookups
        BY <1>9 DEF Lookups
    <1>11. EagerStay
        BY <1>4, <1>9 DEF EagerStay, B
    <1>12. Alone
        BY <1>4, <1>6, <1>9 DEF Alone, OneAtATime, Registering, ClaimsStand, Importing, Imported,
                                PluginsFirst, B
    <1>13. Views
        BY DEF Init, NoCall, Views
    <1> QED BY <1>8, <1>10, <1>11, <1>12, <1>13 DEF RegistryInv, Kept

\* What the registry's steps leave alone.
LEMMA RegistryRests ==
    ASSUME RegistryInv, UNCHANGED registryVars,
           \A n \in Threads : worker'[n].view \in {{}, worker[n].view}
    PROVE  RegistryInv'
    <1>1. Kept'
        BY DEF registryVars, RegistryInv, Kept, RegistryTypes, Lookups, Registering, EagerStay
    <1>2. overlapped' \/ Alone'
        BY DEF registryVars, RegistryInv, Alone, OneAtATime, Registering, ClaimsStand, MayTake,
               Importing, Imported, PluginsFirst
    <1>3. \A n \in Threads : ViewStands(n) => worker'[n].view = {} \/ ViewStands(n)'
        BY DEF registryVars, ViewStands, View
    <1>4. Views'
        BY <1>3 DEF registryVars, RegistryInv, Views
    <1> QED BY <1>1, <1>2, <1>4 DEF RegistryInv

LEMMA RegistryWork ==
    ASSUME RegistryInv, Calls, NEW n \in Threads, Work(n)
    PROVE  RegistryInv'
    <1>1. CASE LookedUp(n)
        BY <1>1, RegistryStep, ViewTaken DEF RegistryInv, LookedUp
    <1>2. CASE Lookup(n) \/ Looking(n) \/ AskProvider(n) \/ ProviderThere(n)
        <2>1. \/ \E k \in Kinds, waits \in BOOLEAN : Ensure(n, k, waits)
              \/ Register(n) \/ Return(n)
            BY <1>2, RegistryAssumption, ServerAssumption
               DEF Lookup, Looking, AskProvider, ProviderThere, Eager
        <2>2. ~LookedUp(n)
            BY <1>2 DEF Lookup, Looking, AskProvider, ProviderThere, LookedUp, Ensure, Return,
                        Register, Claim, Store, Discover, NextPlugin, Discovered, Registering
        <2>3. \A m \in Threads : worker'[m].view = worker[m].view
            BY <2>2, ViewSame
        <2>4. Views'
            BY <2>1, <2>3, ViewsStay DEF RegistryInv
        <2> QED BY <2>1, <2>4, RegistryStep DEF RegistryInv
    <1>3. CASE UNCHANGED registryVars /\ ~LookedUp(n)
        BY <1>3, ViewSame, RegistryRests
    <1>4. \/ LookedUp(n) \/ Lookup(n) \/ Looking(n) \/ AskProvider(n) \/ ProviderThere(n)
          \/ UNCHANGED registryVars
        BY DEF Work, ResolvePaths, CheckFile, CheckSnippet, RememberFound, ScanProject, Recall,
               ReadLine, ApplyDry, CheckPackage
    <1> QED BY <1>1, <1>2, <1>3, <1>4

LEMMA RegistryMain ==
    ASSUME RegistryInv, Calls, StartCall \/ Reply \/ Timeout \/ Close \/ Edit \/ UNCHANGED vars
    PROVE  RegistryInv'
    <1>1. UNCHANGED registryVars
        BY DEF StartCall, Reply, Timeout, Close, Edit, vars
    <1>2. \A n \in Threads : worker'[n].view \in {{}, worker[n].view}
        <2>1. CASE StartCall
            <3>1. PICK r \in Requests : worker' = [worker EXCEPT ![count'] = Starts(r.tool, r.args)]
                BY <2>1 DEF StartCall
            <3>2. Starts(r.tool, r.args).view = {}
                BY CallAssumption DEF Starts, NoCall
            <3> QED BY <3>1, <3>2 DEF Calls
        <2>2. CASE Reply \/ Timeout \/ Close \/ Edit \/ UNCHANGED vars
            BY <2>2 DEF Reply, Timeout, Close, Edit, vars
        <2> QED BY <2>1, <2>2
    <1> QED BY <1>1, <1>2, RegistryRests

\* All checks run the same scanners, the built-in ones among them, and no plugin takes
\* the name of a built-in, unless two threads loaded plugins at once (SameScanners).
THEOREM ScannersSame == Spec => []SameScanners
    <1> DEFINE Inv == FixInv /\ RegistryInv
    <1>1. Init => Inv
        BY FixStart, RegistryStart
    <1>2. Inv /\ [Next]_vars => Inv'
        <2>1. FixInv /\ [Next]_vars => FixInv'
            BY FixMain, FixOther, FixTool DEF Next, Work
        <2>2. Inv /\ [Next]_vars => RegistryInv'
            BY RegistryMain, RegistryWork DEF Next, FixInv
        <2> QED BY <2>1, <2>2
    <1>3. Inv => SameScanners
        BY DEF RegistryInv, Views, ViewStands, Alone, Imported, SameScanners, BuiltinsKeepNames
    <1> QED BY <1>1, <1>2, <1>3, PTL DEF Spec

-----------------------------------------------------------------------------
(***************************************************************************)
(* The store.  It mirrors what was reported: it holds, in order, the       *)
(* latest reports of different ids, all of them or as many as it may.      *)
(***************************************************************************)

\* The reports whose ids did not come up again.
Latest(r) == {i \in 1..Len(r) : \A j \in (i + 1)..Len(r) : Id(r[j]) # Id(r[i])}

\* The store holds the latest reports, each at its place in p, except perhaps, when it
\* is full, some before all of these.
Mirrors(p, s, r) ==
    /\ p \in [1..Len(s) -> Latest(r)]
    /\ \A k \in 1..Len(s) : s[k] = r[p[k]]
    /\ \A k, l \in 1..Len(s) : k < l => p[k] < p[l]
    /\ \A i \in Latest(r) :
          \/ \E k \in 1..Len(s) : p[k] = i
          \/ MaxStored <= Len(s) /\ \A k \in 1..Len(s) : i < p[k]

LEMMA LatestPut ==
    ASSUME NEW A, NEW r \in Seq(A), NEW e \in A
    PROVE  /\ Latest(Append(r, e)) =
                 {i \in Latest(r) : Id(r[i]) # Id(e)} \cup {Len(r) + 1}
           /\ Latest(r) \subseteq 1..Len(r)
    <1> DEFINE t == Append(r, e)
               n == Len(r)
    <1>1. /\ n \in Nat /\ t \in Seq(A) /\ Len(t) = n + 1 /\ t[n + 1] = e
          /\ \A i \in 1..n : t[i] = r[i]
        OBVIOUS
    <1> HIDE DEF t, n
    <1>2. n + 1 \in Latest(t)
        BY <1>1 DEF Latest
    <1>3. ASSUME NEW i \in 1..n
          PROVE  i \in Latest(t) <=> i \in Latest(r) /\ Id(r[i]) # Id(e)
        <2>1. \A j : j \in (i + 1)..(n + 1) <=> j \in (i + 1)..n \/ j = n + 1
            BY <1>1
        <2>2. \A j \in (i + 1)..n : t[j] = r[j]
            BY <1>1
        <2>3. i \in 1..(n + 1) /\ t[i] = r[i]
            BY <1>1
        <2> QED BY <1>1, <2>1, <2>2, <2>3 DEF Latest, n
    <1>4. \A i \in Latest(t) : i \in 1..n \/ i = n + 1
        BY <1>1 DEF Latest
    <1>5. Latest(r) \subseteq 1..n
        BY DEF Latest, n
    <1>6. Latest(t) = {i \in Latest(r) : Id(r[i]) # Id(e)} \cup {n + 1}
        BY <1>2, <1>3, <1>4, <1>5
    <1> QED BY <1>5, <1>6 DEF t, n

\* No two of the latest reports have one id.
LEMMA LatestApart ==
    ASSUME NEW A, NEW r \in Seq(A), NEW i \in Latest(r), NEW j \in Latest(r),
           Id(r[i]) = Id(r[j])
    PROVE  i = j
    <1>1. i \in 1..Len(r) /\ j \in 1..Len(r) /\ Len(r) \in Nat
        BY DEF Latest
    <1>2. i < j => j \in (i + 1)..Len(r)
        BY <1>1
    <1>3. j < i => i \in (j + 1)..Len(r)
        BY <1>1
    <1>4. ~(i < j) /\ ~(j < i)
        BY <1>2, <1>3 DEF Latest
    <1> QED BY <1>1, <1>4

LEMMA OneRemoved ==
    ASSUME NEW A, NEW s \in Seq(A), NEW k \in 1..Len(s)
    PROVE  /\ RemoveAt(s, k) \in Seq(A) /\ Len(RemoveAt(s, k)) = Len(s) - 1
           /\ \A l \in 1..(Len(s) - 1) :
                 RemoveAt(s, k)[l] = IF l < k THEN s[l] ELSE s[l + 1]
    <1> DEFINE a == SubSeq(s, 1, k - 1)
               b == SubSeq(s, k + 1, Len(s))
    <1>1. Len(s) \in Nat /\ k \in Nat /\ k <= Len(s) /\ k > 0
        OBVIOUS
    <1>2. a \in Seq(A) /\ Len(a) = k - 1 /\ \A l \in 1..(k - 1) : a[l] = s[l]
        BY <1>1
    <1>3. b \in Seq(A) /\ Len(b) = Len(s) - k /\ \A l \in 1..(Len(s) - k) : b[l] = s[k + l]
        BY <1>1
    <1>4. RemoveAt(s, k) = a \o b
        BY DEF RemoveAt
    <1> HIDE DEF a, b
    <1>5. a \o b \in Seq(A) /\ Len(a \o b) = Len(s) - 1
        <2>0. a \in Seq(A) /\ b \in Seq(A)
            BY <1>2, <1>3
        <2>1. a \o b \in Seq(A)
            BY <2>0
        <2>2. Len(a \o b) = Len(a) + Len(b)
            BY <2>0
        <2> QED BY <1>1, <1>2, <1>3, <2>1, <2>2
    <1>6. ASSUME NEW l \in 1..(Len(s) - 1)
          PROVE  (a \o b)[l] = IF l < k THEN s[l] ELSE s[l + 1]
        <2>1. CASE l < k
            BY <1>1, <1>2, <1>3, <2>1
        <2>2. CASE ~(l < k)
            <3>1. l - (k - 1) \in 1..(Len(s) - k) /\ k + (l - (k - 1)) = l + 1
                BY <1>1, <2>2
            <3>2. (a \o b)[l] = b[l - (k - 1)]
                BY <1>1, <1>2, <1>3, <2>2
            <3> QED BY <1>3, <2>2, <3>1, <3>2
        <2> QED BY <2>1, <2>2
    <1> QED BY <1>4, <1>5, <1>6

\* One more report.
LEMMA PutMirrors ==
    ASSUME NEW A, NEW s \in Seq(A), NEW r \in Seq(A), NEW e \in A, NEW p, Mirrors(p, s, r)
    PROVE  /\ Put(s, e) \in Seq(A) /\ Append(r, e) \in Seq(A)
           /\ \E q : Mirrors(q, Put(s, e), Append(r, e))
    <1> DEFINE same == {i \in 1..Len(s) : Id(s[i]) = Id(e)}
               t == Append(r, e)
               n == Len(r)
               m == Len(s)
    <1>1. /\ n \in Nat /\ t \in Seq(A) /\ Len(t) = n + 1 /\ t[n + 1] = e
          /\ \A i \in 1..n : t[i] = r[i]
        OBVIOUS
    <1>2. m \in Nat /\ p \in [1..m -> Latest(r)] /\ \A k \in 1..m : p[k] \in 1..n
        BY LatestPut DEF Mirrors
    <1>3. Latest(t) = {i \in Latest(r) : Id(r[i]) # Id(e)} \cup {n + 1}
          /\ Latest(r) \subseteq 1..n
        BY LatestPut
    <1>4. \A k \in 1..m : s[k] = r[p[k]]
        BY DEF Mirrors
    <1>5. \A k, l \in 1..m : k < l => p[k] < p[l]
        BY DEF Mirrors
    <1>6. \A i \in Latest(r) :
             \/ \E k \in 1..m : p[k] = i
             \/ MaxStored <= m /\ \A k \in 1..m : i < p[k]
        BY DEF Mirrors
    <1>7. MaxStored \in Nat \ {0}
        BY ServerAssumption
    <1>8. CASE same = {}
        <2> DEFINE q == [k \in 1..(m + 1) |-> IF k = m + 1 THEN n + 1 ELSE p[k]]
                   u == Append(s, e)
        <2>1. Put(s, e) = u
            BY <1>8 DEF Put
        <2>2. /\ u \in Seq(A) /\ Len(u) = m + 1 /\ u[m + 1] = e
              /\ \A k \in 1..m : u[k] = s[k]
            OBVIOUS
        <2>3. q[m + 1] = n + 1 /\ \A k \in 1..m : q[k] = p[k]
            BY <1>2
        <2>4. DOMAIN q = 1..(m + 1) /\ q = [k \in 1..(m + 1) |-> q[k]]
            OBVIOUS
        <2>5. \A k \in 1..(m + 1) : k = m + 1 \/ k \in 1..m
            BY <1>2
        <2>6. \A k \in 1..m : Id(s[k]) # Id(e)
            BY <1>8
        <2> HIDE DEF q, u, same, t, n, m
        <2>7. \A k \in 1..m : p[k] \in Latest(r) /\ Id(r[p[k]]) # Id(e)
            BY <1>2, <1>4, <2>6
        <2>8. q \in [1..(m + 1) -> Latest(t)]
            BY <1>3, <2>3, <2>4, <2>5, <2>7
        <2>9. \A k \in 1..(m + 1) : u[k] = t[q[k]]
            BY <1>1, <1>2, <1>4, <2>2, <2>3, <2>5
        <2>10. \A k, l \in 1..(m + 1) : k < l => q[k] < q[l]
            BY <1>1, <1>2, <1>5, <2>3, <2>5
        <2>11. ASSUME NEW i \in Latest(t)
               PROVE  \/ \E k \in 1..(m + 1) : q[k] = i
                      \/ MaxStored <= m + 1 /\ \A k \in 1..(m + 1) : i < q[k]
            <3>1. CASE i = n + 1
                BY <1>2, <2>3, <3>1
            <3>2. CASE i # n + 1
                <4>1. i \in Latest(r) /\ i \in 1..n
                    BY <1>3, <3>2
                <4>2. CASE \E k \in 1..m : p[k] = i
                    BY <1>2, <2>3, <4>2
                <4>3. CASE MaxStored <= m /\ \A k \in 1..m : i < p[k]
                    <5>1. ASSUME NEW k \in 1..(m + 1)
                          PROVE  i < q[k]
                        <6>1. CASE k = m + 1
                            BY <1>1, <2>3, <4>1, <6>1
                        <6>2. CASE k \in 1..m
                            BY <2>3, <4>3, <6>2
                        <6> QED BY <2>5, <6>1, <6>2
                    <5>2. MaxStored <= m + 1
                        BY <1>2, <1>7, <4>3
                    <5> QED BY <5>1, <5>2
                <4> QED BY <1>6, <4>1, <4>2, <4>3
            <3> QED BY <3>1, <3>2
        <2>12. Mirrors(q, u, t)
            BY <2>2, <2>8, <2>9, <2>10, <2>11 DEF Mirrors
        <2> QED BY <1>1, <2>1, <2>2, <2>12 DEF t
    <1>9. CASE same # {}
        <2> DEFINE x == CHOOSE i \in same : TRUE
                   w == RemoveAt(s, x)
                   u == Append(w, e)
                   q == [k \in 1..m |-> IF k = m THEN n + 1 ELSE IF k < x THEN p[k] ELSE p[k + 1]]
        <2>1. Put(s, e) = u
            BY <1>9 DEF Put
        <2>2. x \in 1..m /\ Id(s[x]) = Id(e)
            BY <1>9
        <2> HIDE DEF x
        <2>3. /\ w \in Seq(A) /\ Len(w) = m - 1
              /\ \A l \in 1..(m - 1) : w[l] = IF l < x THEN s[l] ELSE s[l + 1]
            BY <2>2, OneRemoved
        <2> HIDE DEF w
        <2>4. /\ u \in Seq(A) /\ Len(u) = m /\ u[m] = e
              /\ \A k \in 1..(m - 1) : u[k] = w[k]
            BY <1>2, <2>3
        <2>5. q[m] = n + 1 /\ \A k \in 1..(m - 1) : q[k] = IF k < x THEN p[k] ELSE p[k + 1]
            BY <1>2, <2>2
        <2>6. DOMAIN q = 1..m /\ q = [k \in 1..m |-> q[k]]
            OBVIOUS
        <2>7. \A k \in 1..m : k = m \/ k \in 1..(m - 1)
            BY <1>2
        <2> HIDE DEF q, u, same, t, n, m
        \* The place of k in the new store is that of y in the old one.
        <2>8. ASSUME NEW k \in 1..(m - 1)
              PROVE  \E y \in 1..m \ {x} :
                        /\ u[k] = s[y] /\ q[k] = p[y] /\ y = IF k < x THEN k ELSE k + 1
            <3> DEFINE y == IF k < x THEN k ELSE k + 1
            <3>1. y \in 1..m \ {x}
                BY <1>2, <2>2
            <3>2. u[k] = s[y] /\ q[k] = p[y]
                BY <2>3, <2>4, <2>5
            <3> QED BY <3>1, <3>2
        <2>9. \A y \in 1..m \ {x} : Id(r[p[y]]) # Id(e)
            <3>1. ASSUME NEW y \in 1..m \ {x}, Id(r[p[y]]) = Id(e)
                  PROVE  FALSE
                <4>1. p[x] \in Latest(r) /\ p[y] \in Latest(r) /\ Id(r[p[x]]) = Id(r[p[y]])
                    BY <1>2, <1>4, <2>2, <3>1
                <4>2. p[x] = p[y]
                    BY <4>1, LatestApart
                <4>3. x < y \/ y < x
                    BY <1>2, <2>2
                <4>4. p[x] < p[y] \/ p[y] < p[x]
                    BY <1>5, <2>2, <4>3
                <4> QED BY <1>2, <2>2, <4>2, <4>4
            <3> QED BY <3>1
        <2>10. \A k \in 1..(m - 1) : q[k] \in Latest(t) /\ q[k] \in 1..n
            BY <1>2, <1>3, <2>8, <2>9
        <2>11. q \in [1..m -> Latest(t)]
            BY <1>3, <2>5, <2>6, <2>7, <2>10
        <2>12. \A k \in 1..m : u[k] = t[q[k]]
            <3>1. ASSUME NEW k \in 1..(m - 1)
                  PROVE  u[k] = t[q[k]]
                <4>1. PICK y \in 1..m \ {x} : u[k] = s[y] /\ q[k] = p[y]
                    BY <2>8
                <4> QED BY <1>1, <1>2, <1>4, <4>1
            <3>2. u[m] = t[q[m]]
                BY <1>1, <2>4, <2>5
            <3> QED BY <2>7, <3>1, <3>2
        <2>13. ASSUME NEW k \in 1..m, NEW l \in 1..m, k < l
               PROVE  q[k] < q[l]
            <3>1. k \in 1..(m - 1)
                BY <1>2, <2>13
            <3>2. CASE l = m
                BY <1>1, <2>5, <2>10, <3>1, <3>2
            <3>3. CASE l # m
                <4>1. l \in 1..(m - 1)
                    BY <2>7, <3>3
                <4>2. PICK y \in 1..m \ {x} : q[k] = p[y] /\ y = IF k < x THEN k ELSE k + 1
                    BY <2>8, <3>1
                <4>3. PICK z \in 1..m \ {x} : q[l] = p[z] /\ z = IF l < x THEN l ELSE l + 1
                    BY <2>8, <4>1
                <4>4. y < z
                    BY <1>2, <2>2, <2>13, <4>2, <4>3
                <4> QED BY <1>5, <4>2, <4>3, <4>4
            <3> QED BY <3>2, <3>3
        <2>14. ASSUME NEW i \in Latest(t)
               PROVE  \/ \E k \in 1..m : q[k] = i
                      \/ MaxStored <= m /\ \A k \in 1..m : i < q[k]
            <3>1. CASE i = n + 1
                BY <1>2, <2>2, <2>5, <3>1
            <3>2. CASE i # n + 1
                <4>1. i \in Latest(r) /\ i \in 1..n /\ Id(r[i]) # Id(e)
                    BY <1>3, <3>2
                <4>2. CASE \E y \in 1..m : p[y] = i
                    <5>1. PICK y \in 1..m : p[y] = i
                        BY <4>2
                    <5>2. y # x
                        BY <1>4, <2>2, <4>1, <5>1
                    <5> DEFINE k == IF y < x THEN y ELSE y - 1
                    <5>3. k \in 1..(m - 1) /\ k \in 1..m /\ q[k] = p[y]
                        BY <1>2, <2>2, <2>5, <5>2
                    <5> QED BY <5>1, <5>3
                <4>3. CASE MaxStored <= m /\ \A y \in 1..m : i < p[y]
                    BY <1>1, <1>2, <2>5, <2>7, <2>8, <4>1, <4>3
                <4> QED BY <1>6, <4>1, <4>2, <4>3
            <3> QED BY <3>1, <3>2
        <2>15. Mirrors(q, u, t)
            BY <2>4, <2>11, <2>12, <2>13, <2>14 DEF Mirrors
        <2> QED BY <1>1, <2>1, <2>4, <2>15 DEF t
    <1> QED BY <1>8, <1>9

LEMMA LeastNumber ==
    ASSUME NEW T, T \subseteq Nat, T # {}
    PROVE  \E n \in T : \A m \in T : ~(m < n)
    <1>1. PICK n \in T : \A m \in T : ~(<<m, n>> \in OpToRel(<, Nat))
        BY NatLessThanWellFounded, WFMin
    <1>2. \A m \in T : m < n => <<m, n>> \in OpToRel(<, Nat)
        BY DEF OpToRel
    <1> QED BY <1>1, <1>2

\* The entries are put one after the other.
Puts(f, k, s, entries) == IF k = 0 THEN s ELSE Put(f[k - 1], entries[k])

IsPuts(f, n, s, entries) == f = [k \in 0..n |-> Puts(f, k, s, entries)]

LEMMA PutsExist ==
    ASSUME NEW s, NEW entries, NEW n \in Nat
    PROVE  \E f : IsPuts(f, n, s, entries)
    <1> DEFINE Exists(m) == \E f : IsPuts(f, m, s, entries)
    <1>1. Exists(0)
        <2> DEFINE f == [k \in 0..0 |-> s]
        <2>1. \A k \in 0..0 : Puts(f, k, s, entries) = s
            BY DEF Puts
        <2>2. f = [k \in 0..0 |-> Puts(f, k, s, entries)]
            BY <2>1
        <2> QED BY <2>2 DEF IsPuts
    <1>2. ASSUME NEW m \in Nat, Exists(m)
          PROVE  Exists(m + 1)
        <2>1. PICK f : IsPuts(f, m, s, entries)
            BY <1>2
        <2> DEFINE g == [k \in 0..(m + 1) |-> Puts(f, k, s, entries)]
        <2>2. ASSUME NEW k \in 0..(m + 1)
              PROVE  Puts(g, k, s, entries) = Puts(f, k, s, entries)
            <3>1. CASE k = 0
                BY <3>1 DEF Puts
            <3>2. CASE k # 0
                <4>1. k - 1 \in 0..m /\ k - 1 \in 0..(m + 1)
                    BY <3>2
                <4>2. f[k - 1] = Puts(f, k - 1, s, entries)
                    BY <2>1, <4>1 DEF IsPuts
                <4>3. g[k - 1] = f[k - 1]
                    BY <4>1, <4>2
                <4> HIDE DEF g
                <4> QED BY <3>2, <4>3 DEF Puts
            <3> QED BY <3>1, <3>2
        <2>3. g = [k \in 0..(m + 1) |-> Puts(g, k, s, entries)]
            <3>1. [k \in 0..(m + 1) |-> Puts(f, k, s, entries)] =
                  [k \in 0..(m + 1) |-> Puts(g, k, s, entries)]
                <4> HIDE DEF g
                <4> QED BY <2>2
            <3> QED BY <3>1
        <2> QED BY <2>3 DEF IsPuts
    <1> DEFINE Bad == {m \in Nat : ~Exists(m)}
    <1>3. ASSUME Bad # {}
          PROVE  FALSE
        <2>1. Bad \subseteq Nat /\ \A m \in Nat : m \in Bad <=> ~Exists(m)
            OBVIOUS
        <2> HIDE DEF Bad, Exists
        <2>2. PICK m \in Bad : \A l \in Bad : ~(l < m)
            BY <1>3, <2>1, LeastNumber
        <2>3. m \in Nat /\ m # 0
            BY <1>1, <2>1
        <2>4. m - 1 \in Nat /\ (m - 1) + 1 = m /\ m - 1 < m
            BY <2>3
        <2>5. Exists((m - 1) + 1)
            BY <1>2, <2>1, <2>2, <2>4
        <2> QED BY <2>1, <2>4, <2>5
    <1> QED BY <1>3

LEMMA OneMore ==
    ASSUME NEW A, NEW r \in Seq(A), NEW s \in Seq(A), NEW k \in 1..Len(s)
    PROVE  Append(r \o SubSeq(s, 1, k - 1), s[k]) = r \o SubSeq(s, 1, k)
    <1> DEFINE a == SubSeq(s, 1, k - 1)
               b == SubSeq(s, 1, k)
               e == s[k]
    <1>1. Len(s) \in Nat /\ k \in Nat /\ k <= Len(s) /\ k > 0 /\ e \in A
        OBVIOUS
    <1>2. a \in Seq(A) /\ Len(a) = k - 1 /\ \A i \in 1..(k - 1) : a[i] = s[i]
        BY <1>1
    <1>3. b \in Seq(A) /\ Len(b) = k /\ \A i \in 1..k : b[i] = s[i]
        BY <1>1
    <1>4. a \in Seq(A) /\ e \in A
        BY <1>1, <1>2
    <1> HIDE DEF a, b, e
    <1>5. Append(a, e) \in Seq(A) /\ Len(Append(a, e)) = k
        BY <1>1, <1>2, <1>4
    <1>6. \A i \in 1..k : Append(a, e)[i] = b[i]
        BY <1>1, <1>2, <1>3, <1>4 DEF e
    <1>7. b = Append(a, e)
        BY <1>3, <1>5, <1>6, SeqEqual
    <1>8. Append(r \o a, e) = r \o Append(a, e)
        <2> DEFINE u == Append(r \o a, e)
                   v == r \o Append(a, e)
                   n == Len(r)
        <2>1. n \in Nat /\ Len(a) = k - 1
            BY <1>2
        <2>2. /\ r \o a \in Seq(A) /\ Len(r \o a) = n + (k - 1)
              /\ \A i \in 1..(n + (k - 1)) :
                    (r \o a)[i] = IF i <= n THEN r[i] ELSE a[i - n]
            <3>1. a \in Seq(A) /\ r \in Seq(A)
                BY <1>4
            <3>2. /\ r \o a \in Seq(A) /\ Len(r \o a) = Len(r) + Len(a)
                  /\ \A i \in 1..(Len(r) + Len(a)) :
                        (r \o a)[i] = IF i <= Len(r) THEN r[i] ELSE a[i - Len(r)]
                BY <3>1, ConcatProperties
            <3> QED BY <2>1, <3>2
        <2>3. /\ Append(a, e) \in Seq(A) /\ Len(Append(a, e)) = k
              /\ \A i \in 1..(k - 1) : Append(a, e)[i] = a[i]
              /\ Append(a, e)[k] = e
            BY <1>1, <1>4, <2>1, AppendProperties
        <2>4. /\ u \in Seq(A) /\ Len(u) = n + k
              /\ \A i \in 1..(n + (k - 1)) : u[i] = (r \o a)[i]
              /\ u[n + k] = e
            BY <1>1, <1>4, <2>1, <2>2, AppendProperties
        <2>5. /\ v \in Seq(A) /\ Len(v) = n + k
              /\ \A i \in 1..(n + k) :
                    v[i] = IF i <= n THEN r[i] ELSE Append(a, e)[i - n]
            BY <1>1, <2>1, <2>3, ConcatProperties
        <2> HIDE DEF u, v, n
        <2>6. ASSUME NEW i \in 1..(n + k)
              PROVE  u[i] = v[i]
            <3>1. i <= n \/ i - n \in 1..(k - 1) \/ i = n + k
                BY <1>1, <2>1
            <3>2. CASE i <= n
                <4>1. i \in 1..(n + (k - 1))
                    BY <1>1, <2>1, <3>2
                <4> QED BY <2>2, <2>4, <2>5, <3>2, <4>1
            <3>3. CASE i - n \in 1..(k - 1)
                <4>1. i \in 1..(n + (k - 1)) /\ ~(i <= n)
                    BY <1>1, <2>1, <3>3
                <4> QED BY <2>2, <2>3, <2>4, <2>5, <3>3, <4>1
            <3>4. CASE i = n + k
                <4>1. i - n = k /\ ~(i <= n)
                    BY <1>1, <2>1, <3>4
                <4> QED BY <2>3, <2>4, <2>5, <3>4, <4>1
            <3> QED BY <3>1, <3>2, <3>3, <3>4
        <2>7. u = v
            BY <2>4, <2>5, <2>6, SeqEqual
        <2> QED BY <2>7 DEF u, v
    <1> QED BY <1>7, <1>8 DEF a, b, e

\* A batch of reports, before the store is cut.
LEMMA BatchMirrors ==
    ASSUME NEW A, NEW s \in Seq(A), NEW r \in Seq(A), NEW entries \in Seq(A),
           NEW p, Mirrors(p, s, r), NEW f, IsPuts(f, Len(entries), s, entries)
    PROVE  /\ f[Len(entries)] \in Seq(A)
           /\ \E q : Mirrors(q, f[Len(entries)], r \o entries)
    <1> DEFINE N == Len(entries)
               Good(k) == /\ f[k] \in Seq(A)
                          /\ \E q : Mirrors(q, f[k], r \o SubSeq(entries, 1, k))
    <1>1. N \in Nat /\ \A k \in 0..N : f[k] = Puts(f, k, s, entries)
        BY DEF IsPuts
    <1>2. Good(0)
        <2>1. f[0] = s
            BY <1>1 DEF Puts
        <2>2. r \o SubSeq(entries, 1, 0) = r
            OBVIOUS
        <2> QED BY <2>1, <2>2
    <1>3. ASSUME NEW k \in 0..N, k # 0, Good(k - 1)
          PROVE  Good(k)
        <2> DEFINE before == r \o SubSeq(entries, 1, k - 1)
        <2>1. f[k] = Put(f[k - 1], entries[k])
            BY <1>1, <1>3 DEF Puts
        <2>2. entries[k] \in A
            BY <1>1, <1>3
        <2>3. before \in Seq(A)
            <3>1. SubSeq(entries, 1, k - 1) \in Seq(A)
                BY <1>1, <1>3
            <3> QED BY <3>1
        <2>4. Append(before, entries[k]) = r \o SubSeq(entries, 1, k)
            <3>1. k \in 1..Len(entries)
                BY <1>1, <1>3
            <3> QED BY <3>1, OneMore
        <2>5. PICK q : Mirrors(q, f[k - 1], before)
            BY <1>3
        <2>6. f[k - 1] \in Seq(A)
            BY <1>3
        <2> HIDE DEF before
        <2>7. /\ Put(f[k - 1], entries[k]) \in Seq(A)
              /\ \E u : Mirrors(u, Put(f[k - 1], entries[k]), Append(before, entries[k]))
            BY <2>2, <2>3, <2>5, <2>6, PutMirrors
        <2> QED BY <2>1, <2>4, <2>7
    <1> DEFINE Bad == {k \in 0..N : ~Good(k)}
    <1>4. ASSUME Bad # {}
          PROVE  FALSE
        <2>1. Bad \subseteq Nat /\ \A k \in 0..N : k \in Bad <=> ~Good(k)
            BY <1>1
        <2>2. Bad \subseteq 0..N
            OBVIOUS
        <2> HIDE DEF Bad, Good, N
        <2>3. PICK k \in Bad : \A l \in Bad : ~(l < k)
            BY <1>4, <2>1, LeastNumber
        <2>4. k \in 0..N /\ k # 0
            BY <1>2, <2>1, <2>2
        <2>5. k - 1 \in 0..N /\ k - 1 < k
            BY <1>1, <2>4
        <2>6. Good(k - 1)
            BY <2>1, <2>3, <2>5
        <2> QED BY <1>3, <2>1, <2>4, <2>6
    <1>5. Good(N)
        <2> HIDE DEF Good
        <2> QED BY <1>1, <1>4
    <1>6. r \o SubSeq(entries, 1, N) = r \o entries
        OBVIOUS
    <1> QED BY <1>5, <1>6

\* What a store holds: no more than its limit.
Mirror(s, r) == Len(s) <= MaxStored /\ \E p : Mirrors(p, s, r)

\* The oldest entries go.
LEMMA CutMirrors ==
    ASSUME NEW A, NEW s \in Seq(A), NEW r \in Seq(A), NEW p, Mirrors(p, s, r),
           NEW u, u = SubSeq(s, IF Len(s) > MaxStored THEN Len(s) - MaxStored + 1 ELSE 1, Len(s))
    PROVE  u \in Seq(A) /\ Mirror(u, r)
    <1>1. MaxStored \in Nat \ {0} /\ Len(s) \in Nat
        BY ServerAssumption
    <1>2. CASE ~(Len(s) > MaxStored)
        <2>1. u = s
            BY <1>1, <1>2
        <2>2. Len(s) <= MaxStored
            BY <1>1, <1>2
        <2> QED BY <2>1, <2>2 DEF Mirror
    <1>3. CASE Len(s) > MaxStored
        <2> DEFINE d == Len(s) - MaxStored
                   m == Len(s)
                   M == MaxStored
                   q == [k \in 1..M |-> p[k + d]]
        <2>1. u \in Seq(A) /\ Len(u) = M /\ \A k \in 1..M : u[k] = s[k + d]
            BY <1>1, <1>3
        <2>2. d \in Nat /\ m \in Nat /\ M \in Nat \ {0} /\ m = M + d
            BY <1>1, <1>3
        <2>3. /\ p \in [1..m -> Latest(r)]
              /\ \A k \in 1..m : s[k] = r[p[k]] /\ p[k] \in 1..Len(r)
              /\ \A k, l \in 1..m : k < l => p[k] < p[l]
            <3>1. Latest(r) \subseteq 1..Len(r)
                BY DEF Latest
            <3>2. p \in [1..m -> Latest(r)]
                BY DEF Mirrors
            <3> QED BY <3>1, <3>2 DEF Mirrors
        <2>4. \A i \in Latest(r) :
                 \/ \E k \in 1..m : p[k] = i
                 \/ \A k \in 1..m : i < p[k]
            BY DEF Mirrors
        <2>5. \A k \in 1..M : q[k] = p[k + d]
            OBVIOUS
        <2>6. \A k \in 1..M : k + d \in 1..m
            BY <2>2
        <2>7. q \in [1..M -> Latest(r)]
            BY <2>3, <2>6
        <2> HIDE DEF q, d, m, M
        <2>8. \A k \in 1..M : u[k] = r[q[k]]
            <3>1. ASSUME NEW k \in 1..M
                  PROVE  u[k] = r[q[k]]
                <4>1. k + d \in 1..m
                    BY <2>6
                <4>2. s[k + d] = r[p[k + d]]
                    BY <2>3, <4>1
                <4>3. u[k] = s[k + d] /\ q[k] = p[k + d]
                    BY <2>1, <2>5
                <4> QED BY <4>2, <4>3
            <3> QED BY <3>1
        <2>9. ASSUME NEW k \in 1..M, NEW l \in 1..M, k < l
              PROVE  q[k] < q[l]
            <3>1. k + d < l + d
                BY <2>2, <2>9
            <3> QED BY <2>3, <2>5, <2>6, <3>1
        <2>10. ASSUME NEW i \in Latest(r), ~ \E k \in 1..M : q[k] = i
               PROVE  \A k \in 1..M : i < q[k]
            <3>1. CASE \E l \in 1..m : p[l] = i
                <4>1. PICK l \in 1..m : p[l] = i
                    BY <3>1
                <4>2. l <= d
                    <5>1. l > d => l - d \in 1..M /\ (l - d) + d = l
                        BY <2>2
                    <5>2. l > d => q[l - d] = i
                        BY <2>5, <4>1, <5>1
                    <5>3. ~(l > d)
                        BY <2>10, <5>1, <5>2
                    <5> QED BY <2>2, <5>3
                <4>3. \A k \in 1..M : l < k + d
                    BY <2>2, <4>2
                <4> QED BY <2>3, <2>5, <2>6, <4>1, <4>3
            <3>2. CASE \A k \in 1..m : i < p[k]
                BY <2>5, <2>6, <3>2
            <3> QED BY <2>4, <3>1, <3>2
        <2>11. Mirrors(q, u, r)
            <3>1. Len(u) = M /\ MaxStored <= M
                BY <2>1, <2>2 DEF M
            <3>2. \A i \in Latest(r) :
                     \/ \E k \in 1..M : q[k] = i
                     \/ MaxStored <= M /\ \A k \in 1..M : i < q[k]
                BY <2>10, <3>1
            <3> QED BY <2>7, <2>8, <2>9, <3>1, <3>2 DEF Mirrors
        <2> QED BY <2>1, <2>2, <2>11 DEF Mirror, M
    <1> QED BY <1>2, <1>3

LEMMA RememberedMirrors ==
    ASSUME NEW A, NEW s \in Seq(A), NEW r \in Seq(A), NEW entries \in Seq(A), Mirror(s, r)
    PROVE  Remembered(s, entries) \in Seq(A) /\ Mirror(Remembered(s, entries), r \o entries)
    <1> DEFINE put == CHOOSE f : IsPuts(f, Len(entries), s, entries)
               all == put[Len(entries)]
               u == SubSeq(all, IF Len(all) > MaxStored THEN Len(all) - MaxStored + 1 ELSE 1,
                           Len(all))
    <1>1. IsPuts(put, Len(entries), s, entries)
        <2>1. \E f : IsPuts(f, Len(entries), s, entries)
            <3>1. Len(entries) \in Nat
                OBVIOUS
            <3> QED BY <3>1, PutsExist
        <2> QED BY <2>1
    <1>2. Remembered(s, entries) = u
        BY DEF Remembered, IsPuts, Puts
    <1>3. PICK p : Mirrors(p, s, r)
        BY DEF Mirror
    <1> HIDE DEF put
    <1>4. all \in Seq(A) /\ \E q : Mirrors(q, all, r \o entries)
        BY <1>1, <1>3, BatchMirrors
    <1>5. r \o entries \in Seq(A)
        OBVIOUS
    <1> HIDE DEF all
    <1>6. u \in Seq(A) /\ Mirror(u, r \o entries)
        BY <1>4, <1>5, CutMirrors
    <1> QED BY <1>2, <1>6

\* What is reported from some point on has as many ids as there are latest reports there.
LEMMA LatestCounted ==
    ASSUME NEW A, NEW r \in Seq(A), NEW i \in 1..Len(r)
    PROVE  LET J == {j \in Latest(r) : j >= i}
           IN  /\ IsFiniteSet(J) /\ Cardinality(J) \in Nat
               /\ Cardinality({Id(r[j]) : j \in i..Len(r)}) = Cardinality(J)
    <1> DEFINE n == Len(r)
               J == {j \in Latest(r) : j >= i}
               I == {Id(r[j]) : j \in i..n}
               h == [j \in J |-> Id(r[j])]
    <1>1. n \in Nat /\ i \in 1..n /\ Latest(r) \subseteq 1..n
        BY DEF Latest
    <1>2. IsFiniteSet(i..n) /\ J \subseteq i..n
        BY <1>1, FS_Interval
    <1>3. IsFiniteSet(J)
        BY <1>2, FS_Subset
    <1>4. ASSUME NEW j \in i..n
          PROVE  \E l \in J : Id(r[l]) = Id(r[j])
        <2> DEFINE T == {n - l : l \in {m \in j..n : Id(r[m]) = Id(r[j])}}
        <2>1. n - j \in T /\ T \subseteq Nat
            BY <1>1
        <2>2. \A m \in j..n : Id(r[m]) = Id(r[j]) => n - m \in T
            OBVIOUS
        <2>3. \A t \in T : \E m \in j..n : t = n - m /\ Id(r[m]) = Id(r[j])
            OBVIOUS
        <2> HIDE DEF T
        <2>4. PICK t \in T : \A u \in T : ~(u < t)
            BY <2>1, LeastNumber
        <2>5. PICK l \in j..n : t = n - l /\ Id(r[l]) = Id(r[j])
            BY <2>3
        <2>6. ASSUME NEW m \in (l + 1)..n
              PROVE  Id(r[m]) # Id(r[l])
            <3>1. m \in j..n /\ n - m < n - l
                BY <1>1
            <3> QED BY <2>2, <2>4, <2>5, <3>1
        <2>7. l \in Latest(r)
            BY <1>1, <2>6 DEF Latest
        <2> QED BY <1>1, <2>5, <2>7
    <1>5. \A j \in J : h[j] = Id(r[j]) /\ h[j] \in I
        BY <1>2
    <1>6. \A x \in I : \E j \in J : h[j] = x
        BY <1>4, <1>5
    <1>7. \A j, l \in J : h[j] = h[l] => j = l
        BY <1>5, LatestApart
    <1>8. h \in [J -> I] /\ DOMAIN h = J
        BY <1>5
    <1> HIDE DEF h, J, I
    <1>9. h \in Surjection(J, I)
        BY <1>6, <1>8 DEF Surjection
    <1>10. h \in Injection(J, I)
        BY <1>7, <1>8 DEF Injection, IsInjective
    <1>11. Cardinality(I) = Cardinality(J) /\ Cardinality(J) \in Nat
        BY <1>3, <1>9, <1>10, FS_Surjection, FS_CardinalityType
    <1> QED BY <1>3, <1>11 DEF I, J, n

\* A store that mirrors the reports holds those whose ids are among the last ones.
LEMMA MirrorTold ==
    ASSUME NEW A, NEW s \in Seq(A), NEW r \in Seq(A), Mirror(s, r), NEW i \in Latest(r)
    PROVE  r[i] \in Range(s) <=> Cardinality({Id(r[j]) : j \in i..Len(r)}) <= MaxStored
    <1> DEFINE n == Len(r)
               m == Len(s)
               J == {j \in Latest(r) : j >= i}
    <1>1. m \in Nat /\ n \in Nat /\ Latest(r) \subseteq 1..n /\ i \in 1..n /\ DOMAIN s = 1..m
        BY DEF Latest
    <1>2. MaxStored \in Nat /\ m <= MaxStored
        BY ServerAssumption DEF Mirror
    <1>3. PICK p : Mirrors(p, s, r)
        BY DEF Mirror
    <1>4. /\ p \in [1..m -> Latest(r)]
          /\ \A k \in 1..m : s[k] = r[p[k]]
          /\ \A k, l \in 1..m : k < l => p[k] < p[l]
          /\ \A j \in Latest(r) :
                \/ \E k \in 1..m : p[k] = j
                \/ MaxStored <= m /\ \A k \in 1..m : j < p[k]
        BY <1>3 DEF Mirrors
    <1>5. /\ IsFiniteSet(J) /\ Cardinality(J) \in Nat
          /\ Cardinality({Id(r[j]) : j \in i..Len(r)}) = Cardinality(J)
        BY <1>1, LatestCounted
    <1> DEFINE P == {p[k] : k \in 1..m}
    <1>6. p \in [1..m -> P]
        BY <1>4
    <1>7. \A x \in P : \E k \in 1..m : p[k] = x
        OBVIOUS
    <1>8. \A k, l \in 1..m : p[k] = p[l] => k = l
        <2>1. \A k \in 1..m : p[k] \in 1..n
            BY <1>1, <1>4
        <2>2. \A k, l \in 1..m : k = l \/ k < l \/ l < k
            BY <1>1
        <2> QED BY <1>1, <1>4, <2>1, <2>2
    <1>9. \A x \in P : x \in Latest(r) /\ x \in 1..n
        BY <1>1, <1>4
    <1> HIDE DEF n, m, J, P
    <1>10. p \in Surjection(1..m, P) /\ p \in Injection(1..m, P)
        BY <1>6, <1>7, <1>8 DEF Surjection, Injection, IsInjective
    <1>11. IsFiniteSet(1..m) /\ Cardinality(1..m) = m
        BY <1>1, FS_Interval
    <1>12. IsFiniteSet(P) /\ Cardinality(P) = m
        BY <1>10, <1>11, FS_Surjection
    <1>13. CASE r[i] \in Range(s)
        <2>1. PICK k \in 1..m : r[i] = s[k]
            BY <1>1, <1>13 DEF Range
        <2>2. i = p[k]
            BY <1>4, <2>1, LatestApart
        <2>3. ASSUME NEW j \in J
              PROVE  j \in P
            <3>1. j \in Latest(r) /\ j >= i /\ j \in 1..n
                BY <1>1 DEF J
            <3>2. ~(j < p[k])
                BY <1>1, <2>2, <3>1
            <3> QED BY <1>4, <3>1, <3>2 DEF P
        <2>4. Cardinality(J) <= m
            BY <1>12, <2>3, FS_Subset
        <2> QED BY <1>1, <1>2, <1>5, <1>13, <2>4
    <1>14. CASE r[i] \notin Range(s)
        <2>1. \A k \in 1..m : p[k] # i
            BY <1>1, <1>4, <1>14 DEF Range
        <2>2. MaxStored <= m /\ \A k \in 1..m : i < p[k]
            BY <1>4, <2>1
        <2>3. i \notin P /\ P \cup {i} \subseteq J
            BY <1>1, <1>7, <1>9, <2>1, <2>2 DEF J
        <2>4. Cardinality(P \cup {i}) = m + 1
            BY <1>12, <2>3, FS_AddElement
        <2>5. m + 1 <= Cardinality(J)
            BY <1>5, <2>3, <2>4, FS_Subset
        <2> QED BY <1>1, <1>2, <1>5, <1>14, <2>2, <2>5
    <1> QED BY <1>13, <1>14

-----------------------------------------------------------------------------
(***************************************************************************)
(* What the store holds, call by call.                                     *)
(***************************************************************************)

AnySeq(q) == \E A : q \in Seq(A)

LEMMA Together ==
    ASSUME NEW q, NEW r, AnySeq(q), AnySeq(r)
    PROVE  \E A : q \in Seq(A) /\ r \in Seq(A) /\ q \o r \in Seq(A)
    <1>1. PICK A : q \in Seq(A)
        BY DEF AnySeq
    <1>2. PICK B : r \in Seq(B)
        BY DEF AnySeq
    <1>3. q \in Seq(A \cup B)
        BY <1>1
    <1>4. r \in Seq(A \cup B)
        BY <1>2
    <1>5. q \o r \in Seq(A \cup B)
        BY <1>3, <1>4
    <1> QED BY <1>3, <1>4, <1>5

LEMMA FoundSeq ==
    ASSUME NEW path, NEW text \in Texts, NEW root, NEW snippet
    PROVE  AnySeq(Found(path, text, root, snippet))
    <1> DEFINE pairs == (1..Len(Rules)) \X (1..Len(text))
               hits == {p \in pairs : Fires(Rules[p[1]], text[p[2]])}
               q == Found(path, text, root, snippet)
               c == Cardinality(hits)
    <1>1. Len(Rules) \in Nat /\ Len(text) \in Nat
        BY ServerAssumption
    <1>2. IsFiniteSet(1..Len(Rules)) /\ IsFiniteSet(1..Len(text))
        BY <1>1, FS_Interval
    <1>3. IsFiniteSet(pairs)
        BY <1>2, FS_Product
    <1>4. hits \in SUBSET pairs
        OBVIOUS
    <1>5. c \in Nat
        BY <1>3, <1>4, FS_Subset, FS_CardinalityType
    <1> DEFINE nth(n) == CHOOSE p \in hits : Cardinality({x \in hits : Before(x, p)}) = n - 1
               E(n) == Entry(Rules[nth(n)[1]], path, text, nth(n)[2], root, snippet)
    <1>6. q = [n \in 1..c |-> E(n)]
        BY DEF Found
    <1> HIDE DEF E, c, q
    <1>7. q \in Seq({E(n) : n \in 1..c})
        BY <1>5, <1>6
    <1> QED BY <1>7 DEF AnySeq, q

Idling == {"none", "returned", "raised"}

\* A call checks what it was asked to; what it finds is a sequence.
Checks(w) ==
    /\ AnySeq(w.found) /\ w.files \subseteq Files
    /\ w.at \in {"nephilex_check_files", "nephilex_check_snippet"} => w.tool = w.at
    /\ w.at \notin Idling /\ w.tool = "nephilex_check_files" => w.args \in Seq(Files)
    /\ w.at \notin Idling /\ w.tool = "nephilex_check_snippet" => w.args.text \in Texts

StoreInv ==
    /\ disk \in [Files -> Texts \cup {Gone}]
    /\ AnySeq(store) /\ AnySeq(reported) /\ Mirror(store, reported)
    /\ \A n \in Threads : Checks(worker[n])

\* An idle call.
LEMMA ChecksEnd ==
    ASSUME NEW w, w.found = <<>>, w.files = {}, w.at \in Idling
    PROVE  Checks(w)
    <1>1. <<>> \in Seq({})
        OBVIOUS
    <1>2. AnySeq(<<>>)
        BY <1>1 DEF AnySeq
    <1>3. w.at \notin {"nephilex_check_files", "nephilex_check_snippet"}
        BY DEF Idling
    <1> QED BY <1>2, <1>3 DEF Checks

LEMMA StoreStart ==
    ASSUME Init
    PROVE  StoreInv
    <1>1. disk \in [Files -> Texts \cup {Gone}]
        BY ServerAssumption DEF Init
    <1>2. store = <<>> /\ reported = <<>>
        BY DEF Init
    <1>3. <<>> \in Seq({})
        OBVIOUS
    <1>4. AnySeq(<<>>)
        BY <1>3 DEF AnySeq
    <1>5. Mirror(<<>>, <<>>)
        <2>1. Latest(<<>>) = {}
            BY DEF Latest
        <2>2. Len(<<>>) = 0 /\ 1..0 = {}
            OBVIOUS
        <2> DEFINE p == [k \in 1..0 |-> 0]
        <2>3. p \in [1..0 -> {}]
            OBVIOUS
        <2>4. Mirrors(p, <<>>, <<>>)
            BY <2>1, <2>2, <2>3 DEF Mirrors
        <2>5. 0 <= MaxStored
            BY ServerAssumption
        <2> QED BY <2>2, <2>4, <2>5 DEF Mirror
    <1>6. \A n \in Threads : worker[n] = NoCall
        BY DEF Init
    <1>7. NoCall.found = <<>> /\ NoCall.files = {} /\ NoCall.at \in Idling
        BY DEF NoCall, Idling
    <1>8. Checks(NoCall)
        BY <1>7, ChecksEnd
    <1> QED BY <1>1, <1>2, <1>4, <1>5, <1>6, <1>8 DEF StoreInv

\* Steps that leave the store and the files alone.
LEMMA StoreRests ==
    ASSUME StoreInv, UNCHANGED <<disk, store, reported>>,
           NEW n \in Threads, \A m \in Threads \ {n} : worker'[m] = worker[m],
           Checks(worker'[n])
    PROVE  StoreInv'
    <1>1. \A m \in Threads : Checks(worker'[m])
        BY DEF StoreInv
    <1>2. (\A m \in Threads : Checks(worker[m]))'
        BY <1>1
    <1> QED BY <1>2 DEF StoreInv

\* Calls that end, and those that go on with what they have.
LEMMA ChecksOn ==
    ASSUME NEW n \in Threads, Checks(worker[n]), SameCheck(n),
           worker'[n].tool = worker[n].tool, worker[n].at \notin Idling,
           worker'[n].at \notin {"nephilex_check_files", "nephilex_check_snippet"}
              \/ worker'[n].at = worker[n].tool
    PROVE  Checks(worker'[n])
    BY DEF Checks, SameCheck

LEMMA StoreMain ==
    ASSUME StoreInv, Calls, StartCall \/ Reply \/ Timeout \/ Close \/ Edit \/ UNCHANGED vars
    PROVE  StoreInv'
    <1>1. UNCHANGED <<store, reported>>
        BY DEF StartCall, Reply, Timeout, Close, Edit, vars
    <1>2. CASE Reply \/ Timeout \/ Close \/ UNCHANGED vars
        BY <1>1, <1>2 DEF Reply, Timeout, Close, vars, StoreInv
    <1>3. CASE Edit
        <2>1. worker' = worker
            BY <1>3 DEF Edit
        <2>2. PICK c \in Changes : disk' = [disk EXCEPT ![c[1]] = c[2]]
            BY <1>3 DEF Edit
        <2>3. c[2] \in Texts \cup {Gone}
            BY ServerAssumption
        <2>4. disk' \in [Files -> Texts \cup {Gone}]
            BY <2>2, <2>3 DEF StoreInv
        <2> QED BY <1>1, <2>1, <2>4 DEF StoreInv
    <1>4. CASE StartCall
        <2>1. PICK r \in Requests : worker' = [worker EXCEPT ![count'] = Starts(r.tool, r.args)]
            BY <1>4 DEF StartCall
        <2> DEFINE v == [NoCall EXCEPT !.tool = r.tool]
                   u == [v EXCEPT !.at = First[r.tool]]
                   w == [u EXCEPT !.args = r.args]
        <2>2. NoCall = CallOf(NoCall) /\ NoCall.files = {} /\ NoCall.found = <<>>
            BY DEF NoCall, CallOf
        <2>3. v = CallOf(v) /\ v.tool = r.tool /\ v.files = {} /\ v.found = <<>>
            BY <2>2 DEF CallOf
        <2> HIDE DEF v
        <2>4. /\ u = CallOf(u) /\ u.tool = r.tool /\ u.at = First[r.tool]
              /\ u.files = {} /\ u.found = <<>>
            BY <2>3 DEF CallOf
        <2> HIDE DEF u
        <2>5. /\ w.tool = r.tool /\ w.at = First[r.tool] /\ w.args = r.args
              /\ w.files = {} /\ w.found = <<>>
            BY <2>4 DEF CallOf
        <2>6. worker' = [worker EXCEPT ![count'] = w]
            BY <2>1 DEF Starts, v, u
        <2> HIDE DEF w
        <2>7. r.tool \in DOMAIN First
            BY CallAssumption
        <2>8. w.at \notin {"nephilex_check_files", "nephilex_check_snippet"}
            BY <2>5, <2>7 DEF First
        <2>9. AnySeq(<<>>)
            <3>1. <<>> \in Seq({})
                OBVIOUS
            <3> QED BY <3>1 DEF AnySeq
        <2>10. Checks(w)
            BY <2>5, <2>8, <2>9, CallAssumption DEF Checks
        <2>11. \A m \in Threads : worker'[m] = worker[m] \/ worker'[m] = w
            BY <2>6 DEF Calls
        <2>12. \A m \in Threads : Checks(worker'[m])
            BY <2>10, <2>11 DEF StoreInv
        <2>13. (\A m \in Threads : Checks(worker[m]))'
            BY <2>12
        <2>14. disk' = disk
            BY <1>4 DEF StartCall
        <2> QED BY <1>1, <2>13, <2>14 DEF StoreInv
    <1> QED BY <1>2, <1>3, <1>4

LEMMA StoreCheck ==
    ASSUME StoreInv, Calls, NEW n \in Threads,
           ResolvePaths(n) \/ CheckFile(n) \/ CheckSnippet(n), ~Raises(n)
    PROVE  StoreInv'
    <1>1. UNCHANGED <<disk, store, reported>>
        BY DEF ResolvePaths, CheckFile, CheckSnippet
    <1>2. Checks(worker[n])
        BY DEF StoreInv
    <1>3. CASE ResolvePaths(n)
        <2>1. /\ Own(n) /\ worker'[n].at = "checking"
              /\ worker'[n].args = worker[n].args /\ worker'[n].found = worker[n].found
              /\ worker'[n].files = Range(worker[n].args)
            BY <1>3, ResolveOwn
        <2>2. worker[n].at = "nephilex_check_files"
            BY <1>3 DEF ResolvePaths
        <2>3. worker[n].args \in Seq(Files)
            BY <1>2, <2>2 DEF Checks, Idling
        <2>4. Range(worker[n].args) \subseteq Files
            BY <2>3, Elements
        <2>5. Checks(worker'[n])
            BY <1>2, <2>1, <2>2, <2>4 DEF Checks, Own, Idling
        <2> QED BY <1>1, <2>1, <2>5, StoreRests DEF Own
    <1>4. CASE CheckFile(n)
        <2>1. /\ Own(n) /\ worker'[n].at = "checking" /\ worker[n].at = "checking"
              /\ worker'[n].args = worker[n].args
            BY <1>4, CheckFileOwn DEF CheckFile
        <2>2. PICK f \in worker[n].files :
                 /\ worker'[n].files = worker[n].files \ {f}
                 /\ worker'[n].found =
                       IF disk[f] = Gone THEN worker[n].found
                       ELSE worker[n].found \o Found(Home(f).path, disk[f], Home(f).root, Nothing)
            BY <1>4, CheckFileOwn
        <2>3. AnySeq(worker[n].found) /\ worker[n].files \subseteq Files
            BY <1>2 DEF Checks
        <2>4. disk[f] \in Texts \cup {Gone}
            BY <2>3 DEF StoreInv
        <2>5. AnySeq(worker'[n].found)
            <3>1. CASE disk[f] = Gone
                BY <2>2, <2>3, <3>1
            <3>2. CASE disk[f] # Gone
                <4> DEFINE q == Found(Home(f).path, disk[f], Home(f).root, Nothing)
                <4>1. AnySeq(q)
                    BY <2>4, <3>2, FoundSeq
                <4>2. worker'[n].found = worker[n].found \o q
                    BY <2>2, <3>2
                <4> HIDE DEF q
                <4>3. AnySeq(worker[n].found \o q)
                    BY <2>3, <4>1, Together DEF AnySeq
                <4> QED BY <4>2, <4>3
            <3> QED BY <3>1, <3>2
        <2>6. Checks(worker'[n])
            BY <1>2, <2>1, <2>2, <2>3, <2>5 DEF Checks, Own, Idling
        <2> QED BY <1>1, <2>1, <2>6, StoreRests DEF Own
    <1>5. CASE CheckSnippet(n)
        <2>1. /\ Own(n) /\ worker'[n].at = "checking"
              /\ worker'[n].args = worker[n].args /\ worker'[n].files = worker[n].files
              /\ worker'[n].found = Found(worker[n].args.path, worker[n].args.text, Nothing,
                                          worker[n].args.text)
            BY <1>5, CheckSnippetOwn
        <2>2. worker[n].at = "nephilex_check_snippet"
            BY <1>5 DEF CheckSnippet
        <2>3. worker[n].args.text \in Texts
            BY <1>2, <2>2 DEF Checks, Idling
        <2>4. AnySeq(worker'[n].found)
            BY <2>1, <2>3, FoundSeq
        <2>5. Checks(worker'[n])
            BY <1>2, <2>1, <2>2, <2>4 DEF Checks, Own, Idling
        <2> QED BY <1>1, <2>1, <2>5, StoreRests DEF Own
    <1> QED BY <1>3, <1>4, <1>5

LEMMA StoreRemember ==
    ASSUME StoreInv, Calls, NEW n \in Threads, RememberFound(n)
    PROVE  StoreInv'
    <1>1. /\ store' = Remembered(store, worker[n].found)
          /\ reported' = reported \o worker[n].found /\ disk' = disk
        BY DEF RememberFound
    <1>2. /\ \A m \in Threads \ {n} : worker'[m] = worker[m]
          /\ worker'[n].files = {} /\ worker'[n].found = <<>> /\ worker'[n].at = "returned"
        BY Ending DEF RememberFound, Returns
    <1>3. Checks(worker'[n])
        BY <1>2, ChecksEnd DEF Idling
    <1>4. AnySeq(store) /\ AnySeq(reported) /\ AnySeq(worker[n].found)
        BY DEF StoreInv, Checks
    <1>5. PICK A : store \in Seq(A) /\ reported \in Seq(A) /\ store \o reported \in Seq(A)
        BY <1>4, Together
    <1>6. AnySeq(store \o reported)
        BY <1>5 DEF AnySeq
    <1>7. PICK B : worker[n].found \in Seq(B)
        BY <1>4 DEF AnySeq
    <1> DEFINE C == A \cup B
    <1>8. store \in Seq(C) /\ reported \in Seq(C)
        BY <1>5
    <1>9. worker[n].found \in Seq(C)
        BY <1>7
    <1> HIDE DEF C
    <1>10. /\ Remembered(store, worker[n].found) \in Seq(C)
           /\ Mirror(Remembered(store, worker[n].found), reported \o worker[n].found)
        BY <1>8, <1>9, RememberedMirrors DEF StoreInv
    <1>11. reported \o worker[n].found \in Seq(C)
        BY <1>8, <1>9
    <1>12. AnySeq(store') /\ AnySeq(reported') /\ Mirror(store', reported')
        BY <1>1, <1>10, <1>11 DEF AnySeq
    <1>13. \A m \in Threads : Checks(worker'[m])
        BY <1>2, <1>3 DEF StoreInv
    <1>14. (\A m \in Threads : Checks(worker[m]))'
        BY <1>13
    <1>15. (AnySeq(store) /\ AnySeq(reported) /\ Mirror(store, reported))'
        BY <1>12
    <1> QED BY <1>1, <1>14, <1>15 DEF StoreInv

\* The calls that look up, scan and fix.
LEMMA StoreOther ==
    ASSUME StoreInv, Calls, NEW n \in Threads, Work(n), ~RememberFound(n)
    PROVE  StoreInv'
    <1>0. /\ UNCHANGED <<disk, store, reported>> /\ Checks(worker[n])
        BY DEF StoreInv, Work, Lookup, Looking, LookedUp, ResolvePaths, CheckFile, CheckSnippet,
               ScanProject, AskProvider, ProviderThere, Recall, ReadLine, ApplyDry, CheckPackage
    <1>1. ASSUME NEW at \in Idling, NEW out, Ends(n, at, out)
          PROVE  StoreInv'
        <2>1. /\ \A m \in Threads \ {n} : worker'[m] = worker[m]
              /\ worker'[n].files = {} /\ worker'[n].found = <<>> /\ worker'[n].at = at
            BY <1>1, Ending
        <2> QED BY <1>0, <2>1, ChecksEnd, StoreRests
    <1>2. ASSUME Raises(n) \/ \E out : Returns(n, out)
          PROVE  StoreInv'
        BY <1>1, <1>2 DEF Raises, Returns, Idling
    <1>3. ASSUME NEW at \in {"looking", "provider", "asking"}, To(n, at), worker[n].at \notin Idling
          PROVE  StoreInv'
        <2>1. /\ \A m \in Threads \ {n} : worker'[m] = worker[m]
              /\ worker'[n].tool = worker[n].tool /\ worker'[n].at = at /\ SameCheck(n)
            BY <1>3, Going
        <2>2. Checks(worker'[n])
            BY <1>0, <1>3, <2>1, ChecksOn
        <2> QED BY <1>0, <2>1, <2>2, StoreRests
    <1>4. CASE Lookup(n) \/ ScanProject(n) \/ AskProvider(n) \/ ProviderThere(n) \/ CheckPackage(n)
        BY <1>2, <1>3, <1>4
           DEF Lookup, ScanProject, AskProvider, ProviderThere, CheckPackage, Idling
    <1>5. CASE Looking(n)
        BY <1>0, <1>5, StoreRests DEF Looking
    <1>6. CASE LookedUp(n)
        <2>1. /\ Own(n) /\ SameCheck(n)
              /\ worker'[n].at = IF View("Scanner") = {} THEN "raised" ELSE worker[n].tool
            BY <1>6, LookedUpOwn
        <2>2. worker[n].at = "looking"
            BY <1>6 DEF LookedUp
        <2>3. Checks(worker'[n])
            BY <1>0, <2>1, <2>2, ChecksOn DEF Own, Idling
        <2> QED BY <1>0, <2>1, <2>3, StoreRests DEF Own
    <1>7. CASE ResolvePaths(n) \/ CheckFile(n) \/ CheckSnippet(n)
        BY <1>2, <1>7, StoreCheck
    <1>8. CASE Recall(n)
        <2>1. ASSUME NEW e, worker' = [worker EXCEPT ![n].at = "reading", ![n].entry = e]
              PROVE  StoreInv'
            <3>1. Own(n) /\ SameCheck(n) /\ worker'[n].at = "reading" /\ worker[n].at = "recall"
                BY <1>8, <2>1, RecallOwn DEF Recall
            <3>2. Checks(worker'[n])
                BY <1>0, <3>1, ChecksOn DEF Own, Idling
            <3> QED BY <1>0, <3>1, <3>2, StoreRests DEF Own
        <2> QED BY <1>2, <1>8, <2>1 DEF Recall
    <1>9. CASE ReadLine(n)
        <2>1. ASSUME NEW text, worker' = [worker EXCEPT ![n].at = "applying", ![n].text = text]
              PROVE  StoreInv'
            <3>1. Own(n) /\ SameCheck(n) /\ worker'[n].at = "applying" /\ worker[n].at = "reading"
                BY <1>9, <2>1, ReadOwn DEF ReadLine
            <3>2. Checks(worker'[n])
                BY <1>0, <3>1, ChecksOn DEF Own, Idling
            <3> QED BY <1>0, <3>1, <3>2, StoreRests DEF Own
        <2> QED BY <1>2, <1>9, <2>1 DEF ReadLine
    <1>10. CASE ApplyDry(n)
        BY <1>2, <1>10 DEF ApplyDry
    <1> QED BY <1>4, <1>5, <1>6, <1>7, <1>8, <1>9, <1>10 DEF Work

\* Whatever calls time out and however their threads are interleaved, the ids that can
\* still be fixed are those of the MaxStored findings reported last, each as the last
\* check that stored it found it (RecentKept).
THEOREM RecentStay == Spec => []RecentKept
    <1>1. Init => FixInv /\ StoreInv
        BY FixStart, StoreStart
    <1>2. FixInv /\ [Next]_vars => FixInv'
        BY FixMain, FixOther, FixTool DEF Next, Work
    <1>3. FixInv /\ StoreInv /\ [Next]_vars => StoreInv'
        BY StoreMain, StoreOther, StoreRemember DEF Next, FixInv
    <1>4. StoreInv => RecentKept
        <2> SUFFICES ASSUME StoreInv, NEW i \in 1..Len(reported),
                            \A j \in (i + 1)..Len(reported) : Id(reported[j]) # Id(reported[i])
                     PROVE  reported[i] \in Range(store) <=>
                               Cardinality({Id(reported[j]) : j \in i..Len(reported)}) <= MaxStored
            BY DEF RecentKept
        <2>1. PICK A : store \in Seq(A) /\ reported \in Seq(A)
            BY Together DEF StoreInv
        <2>2. i \in Latest(reported)
            BY DEF Latest
        <2> QED BY <2>1, <2>2, MirrorTold DEF StoreInv
    <1> QED BY <1>1, <1>2, <1>3, <1>4, PTL DEF Spec
=============================================================================
