----------------------------- MODULE MCWorkspace ----------------------------
(* Instances of Workspace for TLC.                                         *)
EXTENDS Workspace, TLC

CONSTANTS pm, dev   \* a PM and another agent

\* A bot per agent, one mapped to an id the registry does not know, and a
\* user who is no bot.
BotMapping == "PM" :> pm @@ "Dev" :> dev @@ "Old" :> "ghost"

MentionedNames == {<<>>, <<"Dev">>, <<"PM", "Dev">>, <<"Ann", "Dev">>, <<"Dev", "Dev">>,
                   <<"Old", "PM">>, <<"Ann">>}
=============================================================================
