------------------------------- MODULE Rewrites -------------------------------
(***************************************************************************)
(* The deterministic fixes of single lines (remediation/rewrites.py) and   *)
(* the rules they are made for (scanners/patterns.py, scanners/llm.py),    *)
(* with the check that a fixed file still parses (remediation/applier.py). *)
(*                                                                         *)
(* A line is the sequence of the pieces the patterns tell apart, without   *)
(* the white space; a piece that ends in "(" opens a call.                 *)
(***************************************************************************)
EXTENDS Naturals, Sequences, SequencesExt

Openers == {"(", "yaml.load(", "yaml.safe_load(", "hashlib.md5(", "hashlib.sha256(",
            "subprocess.run(", "app.run(", "torch.load("}

NoRewrite == <<>>

Has(line, piece) == piece \in Range(line)

At(line, piece) == {i \in 1..Len(line) : line[i] = piece}

\* The second piece follows the first, and no parenthesis closes between them.
InCall(line, opener, piece) ==
    \E i \in At(line, opener) : \E j \in At(line, piece) :
        i < j /\ \A k \in i..j : line[k] # ")"

\* Rule.pattern, unless Rule.suppress matches the line.
Fires(rule, line) ==
    CASE rule = "python-yaml-load" ->
            \E i \in At(line, "yaml.load(") :
                ~\E j \in At(line, "Safe") : i < j /\ \A k \in i..j : line[k] # ")"
      [] rule = "weak-hash-md5-sha1" ->
            /\ Has(line, "hashlib.md5(") \/ Has(line, "hashlib.new(md5)")
            /\ ~Has(line, "usedforsecurity=False")
      [] rule = "python-shell-true" ->
            \E i \in At(line, "subprocess.run(") : \E j \in At(line, "shell=True") : i < j
      [] rule = "tls-verify-disabled" ->
            Has(line, "verify=False") \/ Has(line, "CURLOPT_SSL_VERIFYPEER,0")
      [] rule = "flask-debug-true" -> InCall(line, "app.run(", "debug=True")
      [] rule = "trust-remote-code" -> Has(line, "trust_remote_code=True")
      [] rule = "torch-load-pickle" ->
            Has(line, "torch.load(") /\ ~Has(line, "weights_only=True")
      [] OTHER -> Has(line, rule)

Replaced(line, old, new) ==
    IF Has(line, old) THEN [i \in 1..Len(line) |-> IF line[i] = old THEN new ELSE line[i]]
    ELSE NoRewrite

\* How many calls are open after piece i of those that opened from piece o on.
Depth(line, o, i) ==
    Cardinality({k \in o..i : line[k] \in Openers})
    - Cardinality({k \in o..i : line[k] = ")"})

\* _fix_torch_load: before the parenthesis that closes the first call.
TorchLoad(line) ==
    LET first == CHOOSE o \in At(line, "torch.load(") : \A k \in At(line, "torch.load(") : o <= k
        closing == {i \in first..Len(line) : Depth(line, first, i) = 0}
        end == CHOOSE i \in closing : \A k \in closing : i <= k
    IN  IF \/ ~Has(line, "torch.load(") \/ closing = {} \/ end = first + 1
           \/ Has(line, "weights_only=True") \/ Has(line, "weights_only=False")
        THEN NoRewrite
        ELSE SubSeq(line, 1, end - 1) \o <<",", "weights_only=True">>
                \o SubSeq(line, end, Len(line))

\* REWRITES.
Rewrites ==
    {"python-yaml-load", "weak-hash-md5-sha1", "python-shell-true", "tls-verify-disabled",
     "flask-debug-true", "trust-remote-code", "torch-load-pickle"}

\* fix_line: the line the rewrite of the rule makes of a line.
Rewrite(rule, line) ==
    CASE rule = "python-yaml-load" ->
            IF Has(line, "Safe") \/ Has(line, "Loader=") THEN NoRewrite
            ELSE Replaced(line, "yaml.load(", "yaml.safe_load(")
      [] rule = "weak-hash-md5-sha1" ->
            IF Has(line, "password") THEN NoRewrite
            ELSE Replaced(line, "hashlib.md5(", "hashlib.sha256(")
      [] rule = "python-shell-true" -> Replaced(line, "shell=True", "shell=False")
      [] rule = "tls-verify-disabled" -> Replaced(line, "verify=False", "verify=True")
      [] rule = "flask-debug-true" -> Replaced(line, "debug=True", "debug=False")
      [] rule = "trust-remote-code" ->
            Replaced(line, "trust_remote_code=True", "trust_remote_code=False")
      [] rule = "torch-load-pickle" -> TorchLoad(line)
      [] OTHER -> NoRewrite

\* The one piece of code is part of the other.
Within(code, line) ==
    \E i \in 0..(Len(line) - Len(code)) : SubSeq(line, i + 1, i + Len(code)) = code

\* _syntax_error, as far as a rewrite may matter to it: calls are closed, and no
\* argument is left out.
Parses(text) ==
    LET all == FlattenSeq(text)
    IN  /\ \A i \in 1..Len(all) : Depth(all, 1, i) >= 0
        /\ all = <<>> \/ Depth(all, 1, Len(all)) = 0
        /\ \A i \in 2..Len(all) : ~(all[i] = "," /\ all[i - 1] = ",")
=============================================================================
