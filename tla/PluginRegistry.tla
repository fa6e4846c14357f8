---------------------------- MODULE PluginRegistry ----------------------------
(***************************************************************************)
(* The process-global registry of plugins (core/plugin.py) with the policy *)
(* on entry points (plugins/signing.py) and the deferred registration of   *)
(* the built-ins (plugins/__init__.py).                                    *)
(*                                                                         *)
(* A lookup of a kind runs the loader of that kind and then, once in the   *)
(* life of the process, every third-party entry point.  The registry has   *)
(* no lock: of two threads that look something up, one may be answered     *)
(* while the other is still registering, and a class may be put into the   *)
(* table between another thread's look at the table and its assignment.    *)
(***************************************************************************)
EXTENDS Naturals, Sequences, FiniteSets, SequencesExt

CONSTANTS
    Threads,    \* the threads that look plugins up
    Builtin,    \* the built-in classes of each kind, in the order of their imports
    EntryPoints, \* the third-party entry points, in order
    Classes,    \* what each of them registers, in order
    Denied,     \* those the allowlist, the blocklist or the pins keep out
    Nothing     \* no class, no kind

Kinds == DOMAIN Builtin

BuiltinClasses == UNION {Range(Builtin[k]) : k \in Kinds}
AllClasses == BuiltinClasses \cup UNION {Range(Classes[e]) : e \in Range(EntryPoints)}

\* Where a class is registered: its kind and its name.
Slot(c) == <<c.kind, c.name>>
Slots == {Slot(c) : c \in AllClasses}

\* Built-in scanners are imported, and registered, when the program starts.
Eager == "Scanner"

ASSUME RegistryAssumption ==
    /\ Eager \in Kinds /\ Nothing \notin AllClasses /\ Nothing \notin Kinds
    /\ EntryPoints \in Seq(Range(EntryPoints))
    /\ \A k \in Kinds : Builtin[k] \in Seq(BuiltinClasses)
    /\ \A e \in Range(EntryPoints) : Classes[e] \in Seq(AllClasses)
    /\ \A c \in AllClasses : c.current \in BOOLEAN /\ c.kind \in Kinds
    /\ \A k \in Kinds : \A i \in 1..Len(Builtin[k]) :
          /\ Builtin[k][i].kind = k /\ Builtin[k][i].current
          /\ \A j \in 1..Len(Builtin[k]) :
                Builtin[k][i].name = Builtin[k][j].name => i = j

VARIABLES
    table,     \* the class registered in each slot
    rejected,  \* the slots of classes that were skipped or dropped
    imported,  \* the kinds whose built-in modules have been, or are being, imported
    discovered, \* _loaded_entrypoints
    visit,     \* where the lookup of each thread stands
    overlapped \* two threads registered at the same time

registryVars == <<table, rejected, imported, discovered, visit, overlapped>>

Visit == [at: {"idle", "builtins", "plugins", "ready"},
          kind: Kinds \cup {Nothing},
          points: 0..Len(EntryPoints),    \* entry points that are done
          queue: Seq(AllClasses),         \* classes still to be registered
          claimed: AllClasses \cup {Nothing},
          imports: BOOLEAN]               \* it is the one that imports the built-ins

Idle == [at |-> "idle", kind |-> Nothing, points |-> 0, queue |-> <<>>,
         claimed |-> Nothing, imports |-> FALSE]

RegistryInit ==
    /\ table = [s \in Slots |-> IF \E c \in Range(Builtin[Eager]) : Slot(c) = s
                                THEN CHOOSE c \in Range(Builtin[Eager]) : Slot(c) = s
                                ELSE Nothing]
    /\ rejected = {}
    /\ imported = {Eager}
    /\ discovered = FALSE
    /\ visit = [t \in Threads |-> Idle]
    /\ overlapped = FALSE

Registering(t) == visit[t].at \in {"builtins", "plugins"}

Step(t, v) ==
    /\ visit' = [visit EXCEPT ![t] = v]
    /\ overlapped' = \/ overlapped
                     \/ /\ v.at \in {"builtins", "plugins"}
                        /\ \E u \in Threads \ {t} : Registering(u)

-----------------------------------------------------------------------------
\* _load: whoever comes first runs the loader, others go on without waiting for
\* it.  build_provider imports the modules of its kind itself, and an import
\* waits for one that is running.
Ensure(t, k, waits) ==
    /\ visit[t].at = "idle"
    /\ waits => \A u \in Threads : ~(visit[u].imports /\ visit[u].kind = k)
    /\ imported' = imported \cup {k}
    /\ Step(t, [Idle EXCEPT !.at = "builtins", !.kind = k,
                            !.imports = k \notin imported,
                            !.queue = IF k \in imported THEN <<>> ELSE Builtin[k]])
    /\ UNCHANGED <<table, rejected, discovered>>

\* _claim: whether a class may take its name.
MayTake(c) ==
    \/ table[Slot(c)] \in {Nothing, c}
    \/ c \in BuiltinClasses /\ table[Slot(c)] \notin BuiltinClasses

\* register_scanner, register_reporter and register_ai_provider up to the
\* assignment.  A clash raises: the rest of the plugin's register is lost.
Claim(t) ==
    /\ Registering(t) /\ visit[t].claimed = Nothing /\ visit[t].queue # <<>>
    /\ LET c == Head(visit[t].queue) IN
       \/ /\ ~c.current
          /\ rejected' = rejected \cup {Slot(c)}
          /\ Step(t, [visit[t] EXCEPT !.queue = Tail(@)])
       \/ /\ c.current /\ MayTake(c)
          /\ rejected' = IF table[Slot(c)] \in {Nothing, c} THEN rejected
                         ELSE rejected \cup {Slot(c)}
          /\ Step(t, [visit[t] EXCEPT !.claimed = c])
       \/ /\ c.current /\ ~MayTake(c)
          /\ Step(t, [visit[t] EXCEPT !.queue = <<>>])
          /\ UNCHANGED rejected
    /\ UNCHANGED <<table, imported, discovered>>

Store(t) ==
    /\ Registering(t) /\ visit[t].claimed # Nothing
    /\ table' = [table EXCEPT ![Slot(visit[t].claimed)] = visit[t].claimed]
    /\ Step(t, [visit[t] EXCEPT !.claimed = Nothing, !.queue = Tail(@)])
    /\ UNCHANGED <<rejected, imported, discovered>>

Resting(t) == visit[t].claimed = Nothing /\ visit[t].queue = <<>>

\* Mutant: entry points are loaded by every lookup.
DiscoverAgain(t) ==
    /\ visit[t].at = "builtins" /\ Resting(t)
    /\ discovered' = TRUE
    /\ Step(t, [visit[t] EXCEPT !.at = "plugins", !.imports = FALSE])
    /\ UNCHANGED <<table, rejected, imported>>

\* _ensure_entrypoints up to its loop: the flag is set before anything is loaded.
Discover(t) ==
    /\ visit[t].at = "builtins" /\ Resting(t)
    /\ discovered' = TRUE
    /\ Step(t, [visit[t] EXCEPT !.at = IF discovered THEN "ready" ELSE "plugins",
                                !.imports = FALSE])
    /\ UNCHANGED <<table, rejected, imported>>

\* One entry point: kept out by the policy, or registering its classes until it
\* is done or raises.
NextPlugin(t) ==
    /\ visit[t].at = "plugins" /\ Resting(t)
    /\ visit[t].points < Len(EntryPoints)
    /\ LET e == EntryPoints[visit[t].points + 1] IN
       \E n \in 0..Len(Classes[e]) :
          /\ e \in Denied => n = 0
          /\ Step(t, [visit[t] EXCEPT !.points = @ + 1, !.queue = SubSeq(Classes[e], 1, n)])
    /\ UNCHANGED <<table, rejected, imported, discovered>>

Discovered(t) ==
    /\ visit[t].at = "plugins" /\ Resting(t)
    /\ visit[t].points = Len(EntryPoints)
    /\ Step(t, [visit[t] EXCEPT !.at = "ready"])
    /\ UNCHANGED <<table, rejected, imported, discovered>>

\* scanners(), reporters(), ai_providers(): the classes of the kind as they are.
View(k) == {table[s] : s \in {r \in Slots : r[1] = k}} \ {Nothing}

Return(t) ==
    /\ visit[t].at = "ready"
    /\ Step(t, Idle)
    /\ UNCHANGED <<table, rejected, imported, discovered>>

Register(t) ==
    Claim(t) \/ Store(t) \/ Discover(t) \/ NextPlugin(t) \/ Discovered(t)
=============================================================================
