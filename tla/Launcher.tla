------------------------------ MODULE Launcher ------------------------------
(***************************************************************************)
(* The other half of the VS Code extension: it starts start.ps1 in its     *)
(* console mode, which starts llama-server, the admin UI and the proxy,    *)
(* and ends the tree of processes again.  The exit of a script reaches the *)
(* extension as an event, some time after it happened.                     *)
(***************************************************************************)
EXTENDS FiniteSets

CONSTANT Scripts    \* the runs of start.ps1

VARIABLES
  active,      \* the extension is loaded
  handle,      \* proxyProcess: the set of it
  script,      \* script -> how far it has come
  sidecar,     \* script -> its llama-server
  web,         \* scripts whose admin UI runs
  proxy,       \* the script whose proxy has the port: the set of it
  killing,     \* scripts that taskkill has been told to end
  escaped,     \* history: scripts taskkill failed to end
  displaced    \* history: scripts whose handle the exit of another cleared

launcherVars == <<active, handle, script, sidecar, web, proxy, killing, escaped, displaced>>

LauncherInit ==
  /\ active = TRUE
  /\ handle = {}
  /\ script = [s \in Scripts |-> "new"]
  /\ sidecar = [s \in Scripts |-> "none"]
  /\ web = {}
  /\ proxy = {}
  /\ killing = {}
  /\ escaped = {}
  /\ displaced = {}

Running == {"starting", "waiting", "web", "run", "serving", "finally"}

To(s, phase) == script' = [script EXCEPT ![s] = phase]

-----------------------------------------------------------------------------
(* The extension *)

(* Broken variant: without looking at the handle. *)
StartAnother(s) ==
  /\ active
  /\ script[s] = "new"
  /\ handle' = {s}
  /\ \E phase \in {"starting", "failed"} : To(s, phase)
  /\ UNCHANGED <<active, sidecar, web, proxy, killing, escaped, displaced>>

(* startProxy, from the command or on activation.  A process that could    *)
(* not be started leaves its handle too, and never exits.                  *)
StartProxy(s) ==
  /\ active
  /\ handle = {}
  /\ script[s] = "new"
  /\ handle' = {s}
  /\ \E phase \in {"starting", "failed"} : To(s, phase)
  /\ UNCHANGED <<active, sidecar, web, proxy, killing, escaped, displaced>>

StopProxy ==
  /\ handle' = {}
  /\ killing' = killing \cup {s \in handle : script[s] # "failed"}

StopCommand ==
  /\ active /\ handle # {}
  /\ StopProxy
  /\ UNCHANGED <<active, script, sidecar, web, proxy, escaped, displaced>>

(* VS Code unloads the extension, and its listeners. *)
Deactivate ==
  /\ active
  /\ active' = FALSE
  /\ StopProxy
  /\ UNCHANGED <<script, sidecar, web, proxy, escaped, displaced>>

Activate ==
  /\ ~active
  /\ active' = TRUE
  /\ script' = [s \in Scripts |-> IF script[s] = "exited" THEN "gone" ELSE script[s]]
  /\ UNCHANGED <<handle, sidecar, web, proxy, killing, escaped, displaced>>

(* The event clears the handle, whosever it is. *)
Exit(s) ==
  /\ active
  /\ script[s] = "exited"
  /\ To(s, "gone")
  /\ handle' = {}
  /\ displaced' = displaced \cup (handle \ {s})
  /\ UNCHANGED <<active, sidecar, web, proxy, killing, escaped>>

(* taskkill /T /F: the script, and what it started, are gone at once. *)
KillTree(s) ==
  /\ s \in killing
  /\ killing' = killing \ {s}
  /\ To(s, IF script[s] \in Running THEN "exited" ELSE script[s])
  /\ sidecar' = [sidecar EXCEPT ![s] = "none"]
  /\ web' = web \ {s}
  /\ proxy' = proxy \ {s}
  /\ UNCHANGED <<active, handle, escaped, displaced>>

(* Best effort. *)
KillFails(s) ==
  /\ s \in killing
  /\ killing' = killing \ {s}
  /\ escaped' = escaped \cup {s}
  /\ UNCHANGED <<active, handle, script, sidecar, web, proxy, displaced>>

-----------------------------------------------------------------------------
(* The script *)

extensionState == <<active, handle, killing, escaped, displaced>>

Healthy == \E s \in Scripts : sidecar[s] = "ready"

ReuseSidecar(s) ==
  /\ script[s] \in {"starting", "waiting"} /\ Healthy
  /\ To(s, "web")
  /\ UNCHANGED <<extensionState, sidecar, web, proxy>>

StartSidecar(s) ==
  /\ script[s] = "starting" /\ ~Healthy
  /\ To(s, "waiting")
  /\ sidecar' = [sidecar EXCEPT ![s] = "loading"]
  /\ UNCHANGED <<extensionState, web, proxy>>

(* No sidecar is wanted: -NoSidecar, or the keyword classifier. *)
NoSidecar(s) ==
  /\ script[s] = "starting"
  /\ To(s, "web")
  /\ UNCHANGED <<extensionState, sidecar, web, proxy>>

(* llama-server has loaded its model; only one can have the port. *)
SidecarLoads(s) ==
  /\ sidecar[s] = "loading" /\ ~Healthy
  /\ sidecar' = [sidecar EXCEPT ![s] = "ready"]
  /\ UNCHANGED <<extensionState, script, web, proxy>>

SidecarDies(s) ==
  /\ sidecar[s] # "none"
  /\ sidecar' = [sidecar EXCEPT ![s] = "none"]
  /\ UNCHANGED <<extensionState, script, web, proxy>>

(* It could not be started, has exited or is not healthy in time: the      *)
(* script stops it and throws, before the block that cleans up.            *)
GiveUp(s) ==
  /\ script[s] \in {"starting", "waiting"} /\ ~Healthy
  /\ To(s, "exited")
  /\ sidecar' = [sidecar EXCEPT ![s] = "none"]
  /\ UNCHANGED <<extensionState, web, proxy>>

(* The admin UI is started, is not wanted, or fails. *)
StartWeb(s) ==
  /\ script[s] = "web"
  /\ To(s, "run")
  /\ \E started \in BOOLEAN : web' = IF started THEN web \cup {s} ELSE web
  /\ UNCHANGED <<extensionState, sidecar, proxy>>

WebDies(s) ==
  /\ s \in web
  /\ web' = web \ {s}
  /\ UNCHANGED <<extensionState, script, sidecar, proxy>>

RunProxy(s) ==
  /\ script[s] = "run" /\ proxy = {}
  /\ To(s, "serving")
  /\ proxy' = {s}
  /\ UNCHANGED <<extensionState, sidecar, web>>

(* The proxy cannot start (configuration, CA, a port that is taken), or    *)
(* ends.                                                                   *)
ProxyEnds(s) ==
  /\ script[s] \in {"run", "serving"}
  /\ To(s, "finally")
  /\ proxy' = proxy \ {s}
  /\ UNCHANGED <<extensionState, sidecar, web>>

(* Only what this script started. *)
Finally(s) ==
  /\ script[s] = "finally"
  /\ To(s, "exited")
  /\ web' = web \ {s}
  /\ sidecar' = [sidecar EXCEPT ![s] = "none"]
  /\ UNCHANGED <<extensionState, proxy>>

ScriptNext(s) ==
  \/ ReuseSidecar(s) \/ StartSidecar(s) \/ NoSidecar(s) \/ GiveUp(s) \/ StartWeb(s)
  \/ RunProxy(s) \/ ProxyEnds(s) \/ Finally(s)
  \/ SidecarLoads(s) \/ SidecarDies(s) \/ WebDies(s)

LauncherNext ==
  \/ StopCommand \/ Deactivate \/ Activate
  \/ \E s \in Scripts :
       StartProxy(s) \/ Exit(s) \/ KillTree(s) \/ KillFails(s) \/ ScriptNext(s)

-----------------------------------------------------------------------------
(* The processes that run on behalf of a script, itself included. *)
Alive(s) == script[s] \in Running \/ sidecar[s] # "none" \/ s \in web \/ s \in proxy

(* Whatever the extension started can be stopped from it, is being         *)
(* stopped, or has stopped (extension.ts:202-228), also when a script      *)
(* fails half way, is stopped at any moment or the extension is reloaded.  *)
(* Not covered: a kill that failed, and a script whose handle was cleared  *)
(* by the exit of the one before it (extension.ts:216-219), which nothing  *)
(* can stop any more.                                                      *)
NothingAbandoned ==
  \A s \in Scripts : Alive(s) => s \in handle \cup killing \cup escaped \cup displaced
=============================================================================
