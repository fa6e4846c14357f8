----------------------------- MODULE MCMcpServer -----------------------------
(***************************************************************************)
(* A server with two allowed roots, one file in each and one outside, and  *)
(* two calls.  Of the two plugins one was built for another API version;   *)
(* the other claims the name of a built-in provider, brings a scanner, and *)
(* then claims the name of a built-in scanner.                             *)
(***************************************************************************)
EXTENDS McpServer

CONSTANTS App, Lib, Etc, MaxCalls

MCThreads == 1..MaxCalls

Class(kind, name, by) == [kind |-> kind, name |-> name, by |-> by, current |-> TRUE]

MCBuiltin ==
    [Scanner |-> <<Class("Scanner", "patterns", "nephilex")>>,
     AIProvider |-> <<Class("AIProvider", "heuristic", "nephilex")>>]

MCEntryPoints == <<"foe", "acme">>

MCClasses ==
    [acme |-> <<Class("AIProvider", "heuristic", "acme"),
                Class("Scanner", "acme", "acme"), Class("Scanner", "patterns", "acme")>>,
     foe |-> <<[Class("Scanner", "foe", "foe") EXCEPT !.current = FALSE]>>]

MCHome(f) ==
    CASE f = App -> [root |-> "app", path |-> "app.py"]
      [] f = Lib -> [root |-> "lib", path |-> "lib.py"]
      [] OTHER -> Nothing

MCFileAt(root, path) == CHOOSE f \in Files : MCHome(f) = [root |-> root, path |-> path]

MCRules == <<"python-yaml-load", "weak-hash-md5-sha1", "torch-load-pickle", "AKIA">>

Load(x) == <<"yaml.load(", x, ")">>

\* Lib has a fix that does not parse and one that does not verify.
MCStart ==
    [f \in Files |->
        IF f = Lib THEN <<<<"torch.load(", "x", ",", ")">>,
                          <<"hashlib.md5(", "x", ")", "hashlib.new(md5)">>>>
        ELSE <<<<"AKIA">>, Load("x")>>]

AppEdited == <<<<"a=">> \o Load("x"), Load("y")>>

MCTexts == {MCStart[Lib], MCStart[App], AppEdited, <<Load("x")>>}

MCChanges == {<<App, Gone>>, <<App, AppEdited>>}

Call(tool, args) == [tool |-> tool, args |-> args]

MCRequests ==
    {Call("nephilex_check_files", fs) : fs \in {<<Lib, App, Lib>>, <<Etc>>}}
    \cup {Call("nephilex_fix", id) :
             id \in {<<"python-yaml-load", "app.py", Load("x")>>, <<"AKIA", "app.py", <<"AKIA">>>>}
                    \cup {<<c[1], "lib.py", MCStart[Lib][c[2]]>> :
                             c \in {<<"torch-load-pickle", 1>>, <<"weak-hash-md5-sha1", 2>>}}}
    \cup {Call("nephilex_check_snippet", [path |-> p, text |-> <<Load("x")>>]) :
             p \in {"app.py", Unknown}}
    \cup {Call("nephilex_scan", f) : f \in {App, Etc}}
    \cup {Call("nephilex_check_package", "yaml"), Call("nephilex_check_package", Unknown)}
=============================================================================
