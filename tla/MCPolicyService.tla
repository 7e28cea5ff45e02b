-------------------------- MODULE MCPolicyService --------------------------
(***************************************************************************)
(* A small instance of PolicyService: an entry for each of the four shapes *)
(* of pattern that the deny-override floor has, actions on both sides of   *)
(* them and spelled in more ways than one, one version of the policy and   *)
(* another that may be created, whose rules disagree, and two agents in    *)
(* one project.                                                            *)
(***************************************************************************)
EXTENDS PolicyService

MCFloor ==
    {[capability |-> "deployment.execute", force |-> Any, pattern |-> <<{"production"}, Rest>>],
     [capability |-> "git.push", force |-> TRUE, pattern |-> <<{"main"}>>],
     [capability |-> "filesystem.write", force |-> Any, pattern |-> <<Rest, {".mcp.json"}>>],
     [capability |-> "filesystem.write", force |-> Any, pattern |-> <<Rest, {".odysseus"}, Rest>>]}

MCLower ==
    [n \in {"", ".", "a", "main", "Main", "feature", "production", "staging",
            ".mcp.json", ".MCP.JSON", ".odysseus"} |->
       CASE n = "Main" -> "main" [] n = ".MCP.JSON" -> ".mcp.json" [] OTHER -> n]

Action(capability, risk, raw, force, command, writes) ==
    [capability |-> capability, risk |-> risk, raw |-> raw, force |-> force,
     command |-> command, writes |-> writes]
Push(branch, risk, force) == Action("git.push", risk, <<branch>>, force, Any, {})
Exec(command, writes) == Action("process.exec", "high", Any, Any, command, writes)
Write(raw) == Action("filesystem.write", "low", raw, Any, Any, {})
Deploy(raw) == Action("deployment.execute", "low", raw, Any, Any, {})

Claude == [id |-> 1, agent |-> "claude", project |-> "p", profile |-> "trusted-afk"]
Codex == [id |-> 2, agent |-> "codex", project |-> "p", profile |-> "supervised"]

MCRequests ==
    {<<Push("Main", "critical", TRUE), Claude>>, <<Exec("tee", {<<"", "a", ".", ".odysseus">>}), Claude>>,
     <<Write(<<".MCP.JSON", "">>), Claude>>,
     <<Deploy(<<".", "production", "", "a">>), Claude>>, <<Deploy(<<"staging", "production">>), Claude>>,
     <<Push("feature", "high", FALSE), Claude>>, <<Push("feature", "high", FALSE), Codex>>,
     <<Push("feature", "critical", TRUE), Claude>>}

Rule(capability, risk, pattern, effect, priority) ==
    [capability |-> capability, riskClass |-> risk, pattern |-> pattern, project |-> Any,
     profile |-> Any, effect |-> effect, priority |-> priority]
NoPushes == <<Rule("git.push", Any, <<{"feature"}>>, "allow", 5), Rule("git.push", Any, Any, "deny", 10)>>
AskHigh == <<Rule(Any, "high", Any, "require_approval", 2), Rule("git.push", Any, <<{"main", "Main"}>>, "allow", 1)>>

MCRuleBooks == {NoPushes, AskHigh}
MCFirstBooks == <<NoPushes>>
MCFirstGranted == {<<Push("feature", "high", FALSE), Claude>>}

\* What the entries of the floor mean, said of paths as they are spelled: a
\* file called .mcp.json anywhere, .odysseus and all below it, a deployment to
\* production or something of it, a forced push to main; in any case, and with
\* empty names and dots in between.  The floor denies just those (globMatches,
\* normaliseResource, denyFloorMatches).
Blank == {"", "."}
Relative(raw) == raw[1] # ""
NoDotAtEnd(raw) == raw[Len(raw)] # "."

ProtectedFile(raw) ==
    \E i \in DOMAIN raw :
       \/ Lower[raw[i]] = ".odysseus"
       \/ /\ Lower[raw[i]] = ".mcp.json" /\ NoDotAtEnd(raw)
          /\ \A j \in DOMAIN raw : j > i => raw[j] \in Blank
Production(raw) ==
    /\ Relative(raw)
    /\ \E i \in DOMAIN raw :
          Lower[raw[i]] = "production" /\ \A j \in DOMAIN raw : j < i => raw[j] \in Blank
Main(raw) ==
    /\ Relative(raw) /\ NoDotAtEnd(raw)
    /\ \E i \in DOMAIN raw : Lower[raw[i]] = "main" /\ \A j \in DOMAIN raw \ {i} : raw[j] \in Blank

Protected(a) ==
    \/ a.capability = "git.push" /\ a.force = TRUE /\ a.raw # Any /\ Main(a.raw)
    \/ a.capability = "filesystem.write" /\ a.raw # Any /\ ProtectedFile(a.raw)
    \/ a.capability = "deployment.execute" /\ a.raw # Any /\ Production(a.raw)
    \/ \E raw \in a.writes : ProtectedFile(raw)
FloorReadsPaths ==
    \A k \in Evaluations : call[k].at \notin {"idle", "device"} => (call[k].d.by = "floor" <=> Protected(call[k].a))
=============================================================================
