----------------------------- MODULE MCRuntime -----------------------------
(* A deployment that declares JARVIS_CAPABILITIES=tools,files,session, and *)
(* commands for each way they may end.                                     *)
EXTENDS RuntimeDispatchProperties

MCLive == {Tools, "files", "session"}

Cmd(capability, action, arg, requiresApproval, approved) ==
  [capability |-> capability, action |-> action, arg |-> arg,
   requiresApproval |-> requiresApproval, approved |-> approved]

MCCommands ==
  {Cmd(Tools, "tools.invoke", "workflow.execute", TRUE, approved) : approved \in BOOLEAN} \cup
  {Cmd("files", "files.write", "plan.md", FALSE, FALSE),
   Cmd("session", "session.open", "s1", FALSE, FALSE),
   Cmd("skills", "skills.run", "skill.echo", FALSE, FALSE),
   Cmd("skills", "skills.run", "skill.unknown", FALSE, FALSE),
   Cmd("computer", "computer.control", None, TRUE, TRUE)}
=============================================================================
