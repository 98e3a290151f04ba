------------------------- MODULE RuntimeCapabilities -------------------------
(***************************************************************************)
(* What the two ends of the runtime contract know of each other: the       *)
(* actions TANIA's JarvisClient and tool path address, the actions the     *)
(* JARVIS runtime service (apps/runtime) carries out, and those the        *)
(* portal's simulated adapters do.  What a command does to the runtime's   *)
(* file store and session set is a function of the command alone.          *)
(***************************************************************************)
EXTENDS Integers, FiniteSets

CONSTANT None  \* absent value

Tools      == "tools"
Hardware   == {"voice.input", "voice.output", "vision", "browser", "computer"}
Capability == Hardware \cup {"files", Tools, "skills", "session", "verification"}

(* TOOL_MANIFEST and the flags it declares. *)
Manifest   == {"knowledge.search", "enterprise.data", "analytics.query", "document.draft",
               "workflow.execute"}
Reversible == {"document.draft", "workflow.execute"}
Skills     == {"skill.echo", "skill.summarize"}
Outside    == "../outside"  \* a path that leaves the workspace

(* Actions each end knows.  A workstation capability of the service has none. *)
RuntimeActions == [c \in Capability |->
  CASE c = Tools          -> {"tools.invoke", "tools.compensate"}
    [] c = "files"        -> {"files.read", "files.write", "files.list"}
    [] c = "session"      -> {"session.start", "session.status", "session.end"}
    [] c = "verification" -> {"verification.check"}
    [] c = "skills"       -> {"skills.list", "skills.invoke"}
    [] OTHER              -> {}]

SimulatedActions == [c \in Capability |->
  CASE c = Tools          -> {"tools.invoke", "tools.compensate"}
    [] c = "files"        -> {"files.read", "files.write", "files.list"}
    [] c = "session"      -> {"session.open", "session.status", "session.close"}
    [] c = "verification" -> {"verification.check"}
    [] c = "skills"       -> {"skills.list", "skills.run"}
    [] c = "voice.input"  -> {"voice.transcribe"}
    [] c = "voice.output" -> {"voice.speak"}
    [] c = "vision"       -> {"vision.describe"}
    [] c = "browser"      -> {"browser.open", "browser.read"}
    [] c = "computer"     -> {"computer.control"}]

(* JarvisClient's methods and AdapterBackedJarvisRuntime.run. *)
ClientActions == [c \in Capability |->
  CASE c = Tools          -> {"tools.invoke", "tools.compensate"}
    [] c = "files"        -> {"files.read", "files.write", "files.list"}
    [] c = "session"      -> {"session.open", "session.status", "session.close"}
    [] c = "verification" -> {"verification.check"}
    [] c = "skills"       -> {"skills.list", "skills.run"}
    [] c = "voice.input"  -> {"voice.transcribe"}
    [] c = "voice.output" -> {"voice.speak"}
    [] c = "vision"       -> {"vision.describe"}
    [] c = "browser"      -> {"browser.open"}
    [] c = "computer"     -> {"computer.control"}]

(* A command; arg is the tool, path, skill, session, text or address it names, *)
(* approved that it carries the id of a recorded decision.                      *)
IsCommand(cmd) ==
  /\ DOMAIN cmd = {"capability", "action", "arg", "requiresApproval", "approved"}
  /\ cmd.capability \in Capability /\ cmd.action \in ClientActions[cmd.capability]
  /\ cmd.requiresApproval \in BOOLEAN /\ cmd.approved \in BOOLEAN
  /\ cmd.capability = "computer" => cmd.requiresApproval

Answer(status, retryable) == [status |-> status, retryable |-> retryable]
Done == Answer("SUCCEEDED", FALSE)
Refused == Answer("FAILED", FALSE)
Unsupported == Answer("UNSUPPORTED", FALSE)

Holds(files, path) == path \in DOMAIN files /\ files[path] # None

When(accepted) == IF accepted THEN Done ELSE Refused

(* The capability handlers of apps/runtime; files is its file store. *)
RuntimeTools(cmd) ==
  When(cmd.arg \in (IF cmd.action = "tools.invoke" THEN Manifest ELSE Reversible))

RuntimeFiles(cmd, files) ==
  When(\/ cmd.action = "files.list"
       \/ /\ cmd.arg \notin {None, Outside}
          /\ cmd.action = "files.read" => Holds(files, cmd.arg))

RuntimeSession(cmd) == When(cmd.action = "session.start" => cmd.arg # None)

RuntimeSkills(cmd) == When(cmd.action = "skills.list")

RuntimeHandles(cmd, files) ==
  IF cmd.action \notin RuntimeActions[cmd.capability] THEN Unsupported ELSE
  CASE cmd.capability = Tools -> RuntimeTools(cmd)
    [] cmd.capability = "files" -> RuntimeFiles(cmd, files)
    [] cmd.capability = "session" -> RuntimeSession(cmd)
    [] cmd.capability = "skills" -> RuntimeSkills(cmd)
    [] cmd.capability = "verification" -> Done

(* The portal's simulated adapters. *)
SimulatedDevice(cmd) == IF cmd.capability = "computer" THEN Unsupported ELSE When(cmd.arg # None)

SimulatedFiles(cmd, files) == When(cmd.action = "files.read" => Holds(files, cmd.arg))

SimulatedTools(cmd) == When(cmd.action = "tools.compensate" => cmd.arg \in Reversible)

SimulatedSkills(cmd) == When(cmd.action = "skills.run" => cmd.arg \in Skills)

SimulatedSession(cmd) ==
  IF cmd.arg # None /\ cmd.action \notin SimulatedActions["session"] THEN Unsupported
  ELSE When(cmd.arg # None)

SimulationHandles(cmd, files) ==
  IF cmd.capability = "session" THEN SimulatedSession(cmd)
  ELSE IF cmd.action \notin SimulatedActions[cmd.capability] THEN Unsupported ELSE
  CASE cmd.capability \in Hardware -> SimulatedDevice(cmd)
    [] cmd.capability = "files" -> SimulatedFiles(cmd, files)
    [] cmd.capability = Tools -> SimulatedTools(cmd)
    [] cmd.capability = "skills" -> SimulatedSkills(cmd)
    [] cmd.capability = "verification" -> Done

(* Mutant of RuntimeExecutes: the runtime trusts the portal's check. *)
RuntimeTrusts(cmd, files) == RuntimeHandles(cmd, files)

(* CommandsService.execute: the approval is asked for once more. *)
RuntimeExecutes(cmd, files) ==
  IF cmd.requiresApproval /\ ~cmd.approved THEN Answer("REJECTED", FALSE)
  ELSE RuntimeHandles(cmd, files)

(* What a command that succeeded leaves in the file store and the sessions. *)
Written(cmd, by, files) ==
  IF cmd.action = "files.write"
  THEN [p \in DOMAIN files \cup {cmd.arg} |-> IF p = cmd.arg THEN by ELSE files[p]]
  ELSE files

SessionsAfter(cmd, sessions) ==
  CASE cmd.action \in {"session.start", "session.open"}  -> sessions \cup {cmd.arg}
    [] cmd.action \in {"session.end", "session.close"}   -> sessions \ {cmd.arg}
    [] OTHER -> sessions
=============================================================================
