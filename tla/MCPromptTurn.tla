---------------------------- MODULE MCPromptTurn ----------------------------
(* PromptTurn on small instances.                                            *)
EXTENDS PromptTurn, TLC

Command(family, args) == [tool |-> "run_command", family |-> family, args |-> args]
Push      == Command("git push", 1)
Status    == Command("git status", 1)
Reset     == Command("git reset", 1)

MCTools == {"run_command", "command_output"}
MCFamilies == {"git push", "git status", "git reset"}
MCDenyRules == {}
MCAllowRules == {[tool |-> "run_command", family |-> "git status"]}
MCExplicit == << >>
MCCallLists == { <<Push, Push, Push>>, <<Reset, Status>> }
=============================================================================
