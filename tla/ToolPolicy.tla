----------------------------- MODULE ToolPolicy -----------------------------
(***************************************************************************)
(* The permission gateway: what evaluateToolRequest decides about a tool   *)
(* request, from the request, the story's contract and what the workspace  *)
(* oracle says of its targets, which knows every registered workspace and   *)
(* not which of them the request is made in.  Rules are asked in order and *)
(* the first that applies decides.  A path is one a patch may name; a      *)
(* command is the set of the danger classes it matches.                    *)
(***************************************************************************)
EXTENDS Naturals, Sequences

CONSTANTS
  Paths,
  WriteSet,        \* paths the contract's allowed_write_set matches
  Secrets,         \* paths SECRET_PATH matches
  Protected,       \* paths PROTECTED_FRAGMENT matches
  Home,            \* of each path: the workspace it resolves into, or Nowhere
  Nowhere,
  RoleTools        \* what the tool registry allows the caller's role

ASSUME PathsAssumption ==
  /\ WriteSet \cup Secrets \cup Protected \subseteq Paths
  /\ DOMAIN Home = Paths

Modes == {"plan", "ask", "accept_edits", "bypass_workspace", "deny_unlisted"}
Tools == {"read_file", "write_file", "shell", "apply_patch"}
Dangers == {"sudo", "destructive", "remote_exec", "exfiltration"}

Request ==
  [mode : Modes, tool : Tools, isWrite : BOOLEAN,
   command : SUBSET (Dangers \cup {"forbidden"}),
   targets : SUBSET Paths, opensNetwork : BOOLEAN, usesSecretHandle : BOOLEAN]

Decisions == {"allow", "ask", "deny"}

Rule(applies, decision) == [applies |-> applies, decision |-> decision]

(* makeOracle over a WorkspaceRegistry: a path is contained when it is in  *)
(* some registered workspace, all of which are disposable.                 *)
Escapes(path, workspaces) == Home[path] \notin workspaces
IsDisposable(path, workspaces) == Home[path] \in workspaces

(* validateWriteSet and globMatch: every file matches one of the globs.    *)
WithinWriteSet(files) == files \subseteq WriteSet

(* modeRule: what the mode says of a request no rule has decided.          *)
ModeRule(r) ==
  CASE r.mode = "plan" ->
         IF r.tool \in Tools \ {"read_file"} \/ r.isWrite THEN "deny" ELSE "allow"
    [] r.mode = "ask" -> IF r.isWrite THEN "ask" ELSE "allow"
    [] r.mode = "accept_edits" ->
         IF ~r.isWrite \/ WithinWriteSet(r.targets) THEN "allow" ELSE "ask"
    [] r.mode = "bypass_workspace" -> "allow"
    [] r.mode = "deny_unlisted" ->
         IF ~r.isWrite \/ WithinWriteSet(r.targets) THEN "allow" ELSE "deny"

(* The rules of evaluateToolRequest, in the order it asks them.            *)
Rules(r, workspaces, networkGranted) == <<
  Rule(r.tool \notin RoleTools, "deny"),
  Rule(r.command \cap Dangers # {}, "deny"),
  Rule(r.targets \cap Secrets # {}, "deny"),
  Rule(r.isWrite /\ r.targets \cap Protected # {}, "deny"),
  Rule(r.isWrite /\ \E path \in r.targets : Escapes(path, workspaces), "deny"),
  Rule(r.mode = "bypass_workspace"
         /\ (r.targets = {} \/ \E path \in r.targets : ~IsDisposable(path, workspaces)), "deny"),
  Rule(r.opensNetwork /\ ~networkGranted, "ask"),
  Rule("forbidden" \in r.command, "deny"),
  Rule(r.isWrite /\ ~WithinWriteSet(r.targets)
         /\ r.mode \notin {"ask", "bypass_workspace"}, "deny"),
  Rule(r.usesSecretHandle, "ask"),
  Rule(TRUE, ModeRule(r)) >>

(* evaluateToolRequest: the first rule that applies decides.               *)
Evaluate(r, workspaces, networkGranted) ==
  LET rules == Rules(r, workspaces, networkGranted)
      first == CHOOSE i \in DOMAIN rules :
                 rules[i].applies /\ \A j \in 1..(i - 1) : ~rules[j].applies
  IN  rules[first].decision
=============================================================================
