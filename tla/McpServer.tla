------------------------------ MODULE McpServer ------------------------------
(***************************************************************************)
(* `nephilex mcp`: the server (mcp/server.py) and its tools (mcp/tools.py, *)
(* mcp/packages.py) with the file-level check (integrations/filecheck.py)  *)
(* and the registry of plugins they look their scanners up in.             *)
(*                                                                         *)
(* One thread reads requests and answers them in order.  A tool runs in a  *)
(* thread of its own; when it takes too long, the request is answered with *)
(* an error, and the thread goes on in the background: it may still store  *)
(* what it finds, and register plugins, while later requests are served.   *)
(* Files may be edited at any time.                                        *)
(*                                                                         *)
(* A text is a sequence of lines; a line is the code on it without its     *)
(* white space, which is what a finding is known by: see Rewrites.         *)
(***************************************************************************)
EXTENDS PluginRegistry, Rewrites

CONSTANTS
    Files,         \* the files clients name
    Home(_),       \* the most specific root a file is under, and its path there;
                   \* Nothing when it is outside the roots
    FileAt(_, _),  \* the file at a root and a path
    Texts,         \* what a file, or a snippet, may hold
    Start,         \* the files when the server starts
    Changes,       \* the edits that may happen: pairs of a file and its new text
    Gone,          \* the file does not exist
    Rules,         \* the rules of the file-local scanners, in order
    Unknown,       \* an id no check reported, a name or a tool there is not
    Requests,      \* the calls a client may send: a tool and its arguments
    Offline,       \* NEPHILEX_OFFLINE
    MaxStored,     \* _MAX_STORED
    MaxEdits       \* bound: edits of files

\* Bound: there are as many calls as threads.
ASSUME ServerAssumption ==
    /\ Threads = 1..Cardinality(Threads)
    /\ MaxStored \in Nat \ {0} /\ MaxEdits \in Nat
    /\ Texts \subseteq Seq(Seq(STRING)) /\ Gone \notin Texts /\ Start \in [Files -> Texts]
    /\ Rules \in Seq(STRING)
    /\ Changes \subseteq Files \X (Texts \cup {Gone})
    /\ "AIProvider" \in Kinds

VARIABLES
    disk,      \* the files
    store,     \* _STORE, the oldest entry first
    pc,        \* the main thread: "reading", "calling", "closed"
    count,     \* calls read so far: the last one runs in the thread of this number
    worker,    \* the call each thread runs
    reported,  \* all that was ever remembered, in order
    shaken,    \* the calls during which a file was edited
    edits      \* edits so far

serverVars == <<pc, count>>
vars == <<registryVars, disk, store, serverVars, worker, reported, shaken, edits>>

-----------------------------------------------------------------------------
(***************************************************************************)
(* Findings and the store.                                                 *)
(***************************************************************************)

\* Finding.fingerprint: whitespace-free code, not the line.
Id(f) == <<f.rule, f.path, f.code>>

\* _Stored: a finding in a file has its root, one in a snippet the text.
Entry(rule, path, text, line, root, snippet) ==
    [rule |-> rule, path |-> path, code |-> text[line], line |-> line,
     root |-> root, snippet |-> snippet]

\* The order of pairs of numbers.
Before(p, q) == p[1] < q[1] \/ (p[1] = q[1] /\ p[2] < q[2])

\* What the scanners say of a text: rule by rule, and line by line.
Found(path, text, root, snippet) ==
    LET hits == {p \in (1..Len(Rules)) \X (1..Len(text)) : Fires(Rules[p[1]], text[p[2]])}
        nth(n) == CHOOSE p \in hits : Cardinality({q \in hits : Before(q, p)}) = n - 1
    IN  [n \in 1..Cardinality(hits) |->
            Entry(Rules[nth(n)[1]], path, text, nth(n)[2], root, snippet)]

\* Mutant: an id that is there keeps its place.
PutInPlace(s, e) ==
    IF \E i \in 1..Len(s) : Id(s[i]) = Id(e)
    THEN [i \in 1..Len(s) |-> IF Id(s[i]) = Id(e) THEN e ELSE s[i]]
    ELSE Append(s, e)

\* An entry goes to the end, also when its id is there already.
Put(s, e) ==
    LET same == {i \in 1..Len(s) : Id(s[i]) = Id(e)}
    IN  Append(IF same = {} THEN s ELSE RemoveAt(s, CHOOSE i \in same : TRUE), e)

\* _remember, which holds the lock: the oldest entries beyond the limit go.
Remembered(s, entries) ==
    LET put[k \in 0..Len(entries)] == IF k = 0 THEN s ELSE Put(put[k - 1], entries[k])
        all == put[Len(entries)]
    IN  SubSeq(all, IF Len(all) > MaxStored THEN Len(all) - MaxStored + 1 ELSE 1, Len(all))

Recalled(id) == {e \in Range(store) : Id(e) = id}

-----------------------------------------------------------------------------
(***************************************************************************)
(* Tools.                                                                  *)
(***************************************************************************)

NoCall == [tool |-> "none", at |-> "none", args |-> Nothing, view |-> {}, files |-> {},
           found |-> <<>>, entry |-> Nothing, text |-> Nothing, out |-> Nothing]

\* The first thing a tool does that others can see.
First == [nephilex_scan |-> "lookup", nephilex_check_files |-> "lookup",
          nephilex_check_snippet |-> "lookup", nephilex_check_package |-> "package",
          nephilex_fix |-> "recall"]

ASSUME CallAssumption ==
    \A r \in Requests :
        /\ r.tool \in DOMAIN First
        /\ r.tool = "nephilex_check_files" => r.args \in Seq(Files)
        /\ r.tool = "nephilex_check_snippet" => r.args.text \in Texts

Starts(tool, args) == [NoCall EXCEPT !.tool = tool, !.at = First[tool], !.args = args]

Running(n) == worker[n].at \notin {"none", "returned", "raised"}

To(n, at) == worker' = [worker EXCEPT ![n].at = at]

Ends(n, at, out) ==
    worker' = [worker EXCEPT ![n] = [NoCall EXCEPT !.tool = worker[n].tool, !.at = at,
                                                   !.view = worker[n].view, !.out = out]]

Returns(n, out) == Ends(n, "returned", out)

Raises(n) == Ends(n, "raised", Nothing)

\* file_local_scanners and _select_scanners ask for the scanners; a plugin that
\* is imported may take its time.
Lookup(n) ==
    /\ worker[n].at = "lookup"
    /\ Ensure(n, "Scanner", FALSE)
    /\ To(n, "looking")
    /\ UNCHANGED <<disk, store, serverVars, reported, shaken, edits>>

Looking(n) ==
    /\ worker[n].at \in {"looking", "asking"}
    /\ Register(n)
    /\ UNCHANGED <<disk, store, serverVars, worker, reported, shaken, edits>>

\* check_config with the names of the file-local scanners.
LookedUp(n) ==
    /\ worker[n].at = "looking" /\ Return(n)
    /\ worker' = [worker EXCEPT ![n].view = View("Scanner"),
                                ![n].at = IF View("Scanner") = {} THEN "raised"
                                          ELSE worker[n].tool]
    /\ UNCHANGED <<disk, store, serverVars, reported, shaken, edits>>

\* resolve_scan_path.
Allowed(f) == Home(f) # Nothing /\ disk[f] # Gone

\* The files are checked root by root, in the order in which roots and files come up.
Place(given, f) ==
    <<Min({i \in DOMAIN given : Home(given[i]).root = Home(f).root}),
      Min({i \in DOMAIN given : given[i] = f})>>

\* check_files: every path is resolved before the first file is looked at.
ResolvePaths(n) ==
    /\ worker[n].at = "nephilex_check_files"
    /\ LET given == worker[n].args IN
       IF given = <<>> \/ \E f \in Range(given) : ~Allowed(f) THEN Raises(n)
       ELSE worker' = [worker EXCEPT ![n].at = "checking", ![n].files = Range(given)]
    /\ UNCHANGED <<registryVars, disk, store, serverVars, reported, shaken, edits>>

\* select_files and run_check for one file; one that has gone is skipped.
CheckFile(n) ==
    /\ worker[n].at = "checking"
    /\ \E f \in worker[n].files :
       /\ \A g \in worker[n].files :
             ~Before(Place(worker[n].args, g), Place(worker[n].args, f))
       /\ worker' = [worker EXCEPT
             ![n].files = @ \ {f},
             ![n].found = IF disk[f] = Gone THEN @
                          ELSE @ \o Found(Home(f).path, disk[f], Home(f).root, Nothing)]
    /\ UNCHANGED <<registryVars, disk, store, serverVars, reported, shaken, edits>>

\* check_snippet: in a directory of its own, under the name that was given.
CheckSnippet(n) ==
    /\ worker[n].at = "nephilex_check_snippet"
    /\ IF worker[n].args.path = Unknown THEN Raises(n)
       ELSE worker' = [worker EXCEPT
                ![n].at = "checking",
                ![n].found = Found(worker[n].args.path, worker[n].args.text, Nothing,
                                   worker[n].args.text)]
    /\ UNCHANGED <<registryVars, disk, store, serverVars, reported, shaken, edits>>

RememberFound(n) ==
    /\ worker[n].at = "checking" /\ worker[n].files = {}
    /\ store' = Remembered(store, worker[n].found)
    /\ reported' = reported \o worker[n].found
    /\ Returns(n, Nothing)
    /\ UNCHANGED <<registryVars, disk, serverVars, shaken, edits>>

\* The scan itself is ScanEngine's; the AI provider is looked up when it is used.
ScanProject(n) ==
    /\ worker[n].at = "nephilex_scan"
    /\ \/ Returns(n, Nothing)
       \/ Raises(n)
       \/ To(n, "provider")
    /\ UNCHANGED <<registryVars, disk, store, serverVars, reported, shaken, edits>>

\* build_provider: importing the factory imports the built-in providers.
AskProvider(n) ==
    /\ worker[n].at = "provider"
    /\ Ensure(n, "AIProvider", TRUE)
    /\ To(n, "asking")
    /\ UNCHANGED <<disk, store, serverVars, reported, shaken, edits>>

ProviderThere(n) ==
    /\ worker[n].at = "asking" /\ Return(n)
    /\ IF View("AIProvider") = {} THEN Raises(n) ELSE Returns(n, Nothing)
    /\ UNCHANGED <<disk, store, serverVars, reported, shaken, edits>>

NoFix == [of |-> Nothing, asked |-> Nothing, old |-> <<>>, new |-> <<>>]

\* fix: the finding that was stored last under the id.
Recall(n) ==
    /\ worker[n].at = "recall"
    /\ \/ /\ Recalled(worker[n].args) = {}
          /\ Raises(n)
       \/ \E e \in Recalled(worker[n].args) :
             IF e.rule \in Rewrites
             THEN worker' = [worker EXCEPT ![n].at = "reading", ![n].entry = e]
             ELSE Returns(n, NoFix)
    /\ UNCHANGED <<registryVars, disk, store, serverVars, reported, shaken, edits>>

\* What a finding's file holds; a snippet is in a temporary copy of its own.
TextOf(e) == IF e.root = Nothing THEN e.snippet ELSE disk[FileAt(e.root, e.path)]

\* Mutant: any line the rule flags will do.
LineStillFires(e, text) == e.line \in DOMAIN text /\ Fires(e.rule, text[e.line])

\* verify_line_fixed says that the rule no longer flags the code.
LineUnchanged(e, text) ==
    /\ e.line \in DOMAIN text
    /\ Fires(e.rule, text[e.line])
    /\ Within(e.code, text[e.line])

\* The file is read, and the line compared with the finding.
ReadLine(n) ==
    /\ worker[n].at = "reading"
    /\ LET e == worker[n].entry
           text == TextOf(e)
       IN  CASE text = Gone -> Raises(n) \/ Returns(n, NoFix)
             [] text # Gone /\ ~LineUnchanged(e, text) -> Returns(n, NoFix)
             [] OTHER -> worker' = [worker EXCEPT ![n].at = "applying", ![n].text = text]
    /\ UNCHANGED <<registryVars, disk, store, serverVars, reported, shaken, edits>>

\* fix_line, and what apply_fixes asks of its result.
Applies(e, text) ==
    /\ e.line \in DOMAIN text
    /\ Rewrite(e.rule, text[e.line]) # NoRewrite
    /\ ~Fires(e.rule, Rewrite(e.rule, text[e.line]))
    /\ Parses([text EXCEPT ![e.line] = Rewrite(e.rule, @)])

\* apply_fixes reads the file again; the diff is made from the first reading.
ApplyDry(n) ==
    /\ worker[n].at = "applying"
    /\ LET e == worker[n].entry
           again == TextOf(e)
       IN  IF again = Gone THEN Returns(n, NoFix)
           ELSE IF Applies(e, again)
           THEN Returns(n, [of |-> e,
                            asked |-> worker[n].args,
                            old |-> worker[n].text,
                            new |-> [worker[n].text EXCEPT
                                        ![e.line] = Rewrite(e.rule, again[e.line])]])
           ELSE Returns(n, NoFix)
    /\ UNCHANGED <<registryVars, disk, store, serverVars, reported, shaken, edits>>

\* check_package: the first that applies.
Verdict(malicious, exists, vulns, squats) ==
    CASE malicious -> "malicious"
      [] exists = "no" -> "possibly_hallucinated"
      [] vulns = "vulnerable" -> "vulnerable"
      [] squats -> "suspicious"
      [] "unknown" \in {exists, vulns} -> "unknown"
      [] OTHER -> "no_known_issues"

\* What the registry and the advisories answer; without a version, and for an
\* ecosystem without a registry lookup, nothing is asked.
CheckPackage(n) ==
    /\ worker[n].at = "package"
    /\ \/ worker[n].args = Unknown /\ Raises(n)
       \/ /\ worker[n].args # Unknown
          /\ \E malicious, squats \in BOOLEAN,
                exists \in IF Offline THEN {"unknown"} ELSE {"yes", "no", "unknown"},
                vulns \in {"not_checked", "unknown"}
                          \cup IF Offline THEN {} ELSE {"vulnerable", "none_known"} :
                Returns(n, [verdict |-> Verdict(malicious, exists, vulns, squats)])
    /\ UNCHANGED <<registryVars, disk, store, serverVars, reported, shaken, edits>>

Work(n) ==
    /\ pc # "closed"
    /\ \/ Lookup(n) \/ Looking(n) \/ LookedUp(n)
       \/ ResolvePaths(n) \/ CheckFile(n) \/ CheckSnippet(n) \/ RememberFound(n)
       \/ ScanProject(n) \/ AskProvider(n) \/ ProviderThere(n)
       \/ Recall(n) \/ ReadLine(n) \/ ApplyDry(n)
       \/ CheckPackage(n)

-----------------------------------------------------------------------------
(***************************************************************************)
(* The main thread.                                                        *)
(***************************************************************************)

\* run_stdio and handle_request: a call of a tool gets a thread; nephilex_scan has
\* resolved its path by then.  Any other line is answered, or ignored, at once.
StartCall ==
    /\ pc = "reading" /\ count < Cardinality(Threads)
    /\ pc' = "calling" /\ count' = count + 1
    /\ \E r \in Requests :
       /\ r.tool = "nephilex_scan" => Allowed(r.args)
       /\ worker' = [worker EXCEPT ![count'] = Starts(r.tool, r.args)]
    /\ UNCHANGED <<registryVars, disk, store, reported, shaken, edits>>

Reply ==
    /\ pc = "calling" /\ worker[count].at \in {"returned", "raised"}
    /\ pc' = "reading"
    /\ UNCHANGED <<registryVars, disk, store, count, worker, reported, shaken, edits>>

\* Mutant: the call is waited for.
NoTimeout == pc = "calling" /\ FALSE /\ UNCHANGED vars

\* _run_with_timeout gives up on the call, which goes on.
Timeout ==
    /\ pc = "calling" /\ Running(count)
    /\ pc' = "reading"
    /\ UNCHANGED <<registryVars, disk, store, count, worker, reported, shaken, edits>>

\* End of input: the process ends, and its threads with it.
Close ==
    /\ pc = "reading"
    /\ pc' = "closed"
    /\ UNCHANGED <<registryVars, disk, store, count, worker, reported, shaken, edits>>

Edit ==
    /\ edits < MaxEdits /\ pc # "closed"
    /\ \E c \in Changes :
          c[2] # disk[c[1]] /\ disk' = [disk EXCEPT ![c[1]] = c[2]]
    /\ edits' = edits + 1
    /\ shaken' = shaken \cup {n \in Threads : Running(n)}
    /\ UNCHANGED <<registryVars, store, serverVars, worker, reported>>

Init ==
    /\ RegistryInit
    /\ disk = Start
    /\ store = <<>> /\ reported = <<>>
    /\ pc = "reading" /\ count = 0
    /\ worker = [n \in Threads |-> NoCall]
    /\ shaken = {} /\ edits = 0

Next == StartCall \/ Reply \/ Timeout \/ Close \/ Edit \/ \E n \in Threads : Work(n)

\* Time passes for the main thread whatever the tools do.
Spec == Init /\ [][Next]_vars /\ WF_vars(Reply \/ Timeout)

-----------------------------------------------------------------------------
(***************************************************************************)
(* Properties.                                                             *)
(***************************************************************************)

\* Whatever calls time out and however their threads are interleaved, the ids
\* that can still be fixed are those of the MaxStored findings reported last, each
\* as the last check that stored it found it (_remember, tools.py:85).
RecentKept ==
    \A i \in 1..Len(reported) :
        (\A j \in (i + 1)..Len(reported) : Id(reported[j]) # Id(reported[i]))
        => (reported[i] \in Range(store)
            <=> Cardinality({Id(reported[j]) : j \in i..Len(reported)}) <= MaxStored)

\* A fix that is offered changes one line, one that holds the code the id stands
\* for, into one the rule does not flag, and leaves a text that parses, however old
\* the stored finding is, unless the file was edited while it was made
\* (nephilex_fix, tools.py:305 and applier.py:80).
FixFits ==
    \A n \in Threads \ shaken :
        worker[n].tool = "nephilex_fix" /\ worker[n].out \notin {Nothing, NoFix} =>
            LET fix == worker[n].out
                line == fix.of.line
            IN  /\ Id(fix.of) = fix.asked
                /\ Fires(fix.of.rule, fix.old[line]) /\ Within(fix.of.code, fix.old[line])
                /\ ~Fires(fix.of.rule, fix.new[line])
                /\ fix.new = [fix.old EXCEPT ![line] = fix.new[line]]
                /\ Parses(fix.new)

\* No plugin takes the name of a built-in, in whatever order kinds are looked up,
\* and no check runs without a built-in scanner; for a kind that is imported late
\* this needs that no two threads registered at the same time (_claim, plugin.py:217).
BuiltinsKeepNames ==
    /\ \A n \in Threads : worker[n].view = {} \/ Range(Builtin[Eager]) \subseteq worker[n].view
    /\ overlapped \/ \A k \in imported : \A c \in Range(Builtin[k]) :
          \/ table[Slot(c)] = c
          \/ \E n \in Threads : visit[n].imports /\ visit[n].kind = k

\* All checks of a process run the same scanners, the built-in ones among them, unless
\* a lookup overtook one that a timeout left behind while it was loading plugins
\* (_ensure, plugin.py:355).
SameScanners ==
    /\ BuiltinsKeepNames
    /\ overlapped \/ \A m, n \in Threads :
          worker[m].view = {} \/ worker[n].view = {} \/ worker[m].view = worker[n].view

\* A tool that never ends does not keep the server from its next request
\* (_run_with_timeout, server.py:274).
CallsReturn == pc = "calling" ~> pc # "calling"

=============================================================================
