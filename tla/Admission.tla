------------------------------- MODULE Admission -------------------------------
(***************************************************************************)
(* What the master asks of a request before anything is stored: bearer     *)
(* tokens (src/vaultmcp/master/auth.py), the ownership rules of            *)
(* config.yaml (ownership.py), and the checks on a page's content          *)
(* (validation.py and shared/frontmatter.py), in the order in which the    *)
(* handlers of tools.py make them.                                         *)
(*                                                                         *)
(* A glob is the set of paths that fnmatch matches with it, a content the  *)
(* record of what the checks look for.                                     *)
(***************************************************************************)
EXTENDS Integers, Sequences, FiniteSets

CONSTANTS
    App,          \* applications
    Path,         \* page paths
    Limit,        \* VAULTMCP_MAX_FILE_SIZE_BYTES
    DefaultLimit, \* DEFAULT_MAX_FILE_SIZE_BYTES
    Nil

ASSUME AdmissionAssumption == Limit \in Nat /\ DefaultLimit \in Nat /\ Nil \notin App

-----------------------------------------------------------------------------
(* The Authorization header.                                                *)

\* parse_bearer: the second word, if the first is "bearer" in any case.  Tokens
\* are numbers, and 0 is the token of a header that is missing or malformed.
ParseBearer(header) == IF header # Nil /\ header.scheme = "bearer" THEN header.value ELSE 0

-----------------------------------------------------------------------------
(* config.yaml.                                                             *)

Rule == [glob : SUBSET Path, producer : App \cup {Nil}, human_only : BOOLEAN]

\* _parse_rule: "write=human-only" or "producer=<app>"; anything else, an empty
\* producer included, is an error.
ParsesAsRule(expr) ==
    expr.kind = "human-only" \/ (expr.kind = "producer" /\ expr.app # Nil)

ParseRule(entry) ==
    [glob |-> entry.glob,
     producer |-> IF entry.expr.kind = "producer" THEN entry.expr.app ELSE Nil,
     human_only |-> entry.expr.kind = "human-only"]

\* load_rules.  A missing file and one in a directory that cannot be read are no
\* rules; a file that is there must be right in every entry.
LoadsRules(config) ==
    config.file \in {"absent", "unreadable"} \/
    (config.file = "mapping" /\ \A i \in DOMAIN config.entries : ParsesAsRule(config.entries[i].expr))

LoadRules(config) ==
    IF config.file = "mapping"
    THEN [i \in DOMAIN config.entries |-> ParseRule(config.entries[i])] ELSE <<>>

\* Mutant: the last match.
MatchingRuleLast(rules, path) ==
    LET hits == {i \in DOMAIN rules : path \in rules[i].glob}
    IN  IF hits = {} THEN Nil ELSE rules[CHOOSE i \in hits : \A j \in hits : j <= i]

\* matching_rule: the first match.
MatchingRule(rules, path) ==
    LET hits == {i \in DOMAIN rules : path \in rules[i].glob}
    IN  IF hits = {} THEN Nil ELSE rules[CHOOSE i \in hits : \A j \in hits : i <= j]

\* check_write: no rule allows, human-only forbids, a producer is exclusive.
MayWrite(rules, path, app) ==
    LET rule == MatchingRule(rules, path)
    IN  rule = Nil \/ (~rule.human_only /\ rule.producer \in {Nil, app})

-----------------------------------------------------------------------------
(* Content.                                                                 *)

\* front is the outcome of parsing and checking the frontmatter: complete, or
\* the first of what can be wrong with it.
FrontFaults == {"unclosed", "not yaml", "not a mapping", "absent", "key missing",
                "title", "type", "owners", "updated"}

Content == [size : Nat, text : {"clean", "nul", "bare cr"},
            front : FrontFaults \cup {"complete"}, secret : BOOLEAN]

\* validate_write_content: size, encoding, frontmatter, secrets; the first
\* failure is the answer.
ContentStatus(content, limit) ==
    CASE content.size > limit -> "413"
      [] content.size <= limit /\ (content.text # "clean" \/ content.front # "complete" \/ content.secret) -> "422"
      [] OTHER -> "ok"

-----------------------------------------------------------------------------
(* A tool call as handle_write and handle_append_log check it.  authed is   *)
(* the authenticated server, or Nil where nothing is enforced.              *)

\* _enforce_session_matches_server.
SessionMatches(call, authed) ==
    authed = Nil \/ (call.server = authed.id /\ call.app \in authed.apps)

Status(call, authed, rules, limit) ==
    CASE call.tool = "unknown" -> "400"
      [] call.tool \in {"write", "append_log"} /\ ~SessionMatches(call, authed) -> "403"
      [] call.tool = "write" /\ SessionMatches(call, authed) ->
            IF MayWrite(rules, call.path, call.app) THEN ContentStatus(call.content, limit) ELSE "403"
      [] OTHER -> "ok"
=============================================================================
