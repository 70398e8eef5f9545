----------------------------- MODULE Permissions -----------------------------
(***************************************************************************)
(* Whether a tool call of the model may run (crates/cli/src/permissions.rs *)
(* and the permission modes of main.rs).                                   *)
(*                                                                         *)
(* What the user settled during a session is a record `perms`; what is in  *)
(* settings.toml are constants.  A call is its tool, the exact arguments   *)
(* and their family: the first two tokens of a command, which is all that  *)
(* a rule, or what is remembered for a session, can tell apart here.       *)
(***************************************************************************)
EXTENDS FiniteSets, Naturals

CONSTANTS
    ReadOnlyTools,      \* what classify lets through: tools that change nothing
    Tools,
    Families,
    DenyRules,          \* [permissions.rules] deny
    AllowRules,         \* [permissions.rules] allow
    Explicit,           \* [permissions.tools]: a function of some tools to a mode
    DefaultMode,        \* SIGIT_PERMISSIONS, else [permissions] default
    AnyFamily                 \* the pattern of a rule that names a tool only

Modes == {"allow", "ask", "deny"}

\* tool_name(pattern), or tool_name alone.
Rules == [tool : Tools, family : Families \cup {AnyFamily}]

CallType == [tool : Tools, family : Families \cup {AnyFamily}, args : Nat]

ASSUME PermissionsAssumption ==
    /\ ReadOnlyTools \subseteq Tools
    /\ AnyFamily \notin Families
    /\ DenyRules \cup AllowRules \subseteq Rules
    /\ DOMAIN Explicit \subseteq Tools
    /\ \A tool \in DOMAIN Explicit : Explicit[tool] \in Modes
    /\ DefaultMode \in Modes

PermsType ==
    [ always_allow : SUBSET Rules,
      always_deny : SUBSET Rules,
      plan_mode : BOOLEAN,
      mode : Modes \cup {"none"} ]       \* "none": the stored default

\* reset_session: a fresh session, /clear, or a session closed or deleted.
NoPerms == [always_allow |-> {}, always_deny |-> {}, plan_mode |-> FALSE, mode |-> "none"]

-----------------------------------------------------------------------------
(* The decision *)

ReadOnly(call) == call.tool \in ReadOnlyTools

\* rule_matches.  A rule with a pattern never covers a call that has no
\* argument to match, whose family is AnyFamily.
Covers(rule, call) == rule.tool = call.tool /\ rule.family \in {AnyFamily, call.family}

Listed(rules, call) == \E rule \in rules : Covers(rule, call)

ExplicitMode(tool) == IF tool \in DOMAIN Explicit THEN Explicit[tool] ELSE "none"

EffectiveMode(perms) == IF perms.mode = "none" THEN DefaultMode ELSE perms.mode

ModeFor(perms, call) ==
    IF ExplicitMode(call.tool) = "none" THEN EffectiveMode(perms) ELSE ExplicitMode(call.tool)

Granted(perms, call) == Listed(perms.always_allow \cup AllowRules, call)

Denied(perms, call) ==
    \/ Listed(DenyRules, call)
    \/ ReadOnly(call) /\ ExplicitMode(call.tool) = "deny"
    \/ /\ ~ReadOnly(call)
       /\ \/ Listed(perms.always_deny, call)
          \/ perms.plan_mode
          \/ ~Granted(perms, call) /\ ModeFor(perms, call) = "deny"

\* decision_for
DecisionFor(perms, call) ==
    IF Denied(perms, call) THEN "deny"
    ELSE IF ReadOnly(call) \/ Granted(perms, call) THEN "allow"
    ELSE ModeFor(perms, call)

-----------------------------------------------------------------------------
(* What the user settles *)

\* Mutant: a command is settled as any other tool is.
SessionRuleOfTool(call) == [tool |-> call.tool, family |-> AnyFamily]

\* session_grant_rule: a command is settled for its family, any other tool
\* altogether.
SessionRule(call) == [tool |-> call.tool, family |-> call.family]

GrantForSession(perms, call) == [perms EXCEPT !.always_allow = @ \cup {SessionRule(call)}]

\* Mutant: the call is denied for the session, not its rule.
DenyThisCall(perms, call) == [perms EXCEPT !.always_deny = @ \cup {call}]

DenyForSession(perms, call) == [perms EXCEPT !.always_deny = @ \cup {SessionRule(call)}]

ModeIds == {"manual", "auto", "plan"}

\* Mutant: a mode picked anew starts from fresh permissions.
ApplyModeAfresh(perms, id) ==
    [NoPerms EXCEPT !.plan_mode = (id = "plan"),
                    !.mode = IF id = "auto" THEN "allow" ELSE "ask"]

\* apply_permission_mode.  Plan leaves the mode as it is underneath.
ApplyPermissionMode(perms, id) ==
    CASE id = "manual" -> [perms EXCEPT !.plan_mode = FALSE, !.mode = "ask"]
      [] id = "auto"   -> [perms EXCEPT !.plan_mode = FALSE, !.mode = "allow"]
      [] id = "plan"   -> [perms EXCEPT !.plan_mode = TRUE]

CurrentPermissionMode(perms) ==
    IF perms.plan_mode THEN "plan" ELSE IF EffectiveMode(perms) = "allow" THEN "auto" ELSE "manual"

\* /plan on, /plan off
SetPlanMode(perms, on) == [perms EXCEPT !.plan_mode = on]
=============================================================================
