------------------------------ MODULE Service -------------------------------
(***************************************************************************)
(* The life of the proxy process in transparent mode: cmd/proxy start and  *)
(* stop, the redirect of the intercepted hosts in the OS hosts file, the   *)
(* user-session tasks the supervisor starts and stops with it, and the     *)
(* uninstaller.  The hosts file outlives the process, and three write it:  *)
(* the proxy, the uninstaller and the user, each at any time, also between *)
(* a read and the write it leads to; and a write may fail or be cut short. *)
(***************************************************************************)
EXTENDS HostsFile

CONSTANTS
  MaxLines    \* bound: lines the hosts file grows to by the user's edits

Dependents == {"sidecar", "web"}

VARIABLES
  phase,        \* where start or stop is; "down" without a process
  read,         \* what Add or Remove has read of the hosts file
  file,         \* the hosts file
  tasks,        \* dependents whose scheduled task runs
  child,        \* dependent -> its process
  queue,        \* dependents start or stop has still to see to
  uninstall,    \* how far uninstall.ps1 is
  toStrip,      \* what uninstall.ps1 has read of the hosts file
  mine,         \* history: the lines the user believes are in the file
  interrupted,  \* history: a crash or failed write, and no completed write since
  escaped,      \* history: dependents that listened late or could not be killed
  unseen,       \* history: dependents this stop took for gone while they listened
  overtaken,    \* history: the service was just starting when it was uninstalled
  unstripped    \* history: uninstall.ps1 could not read, or not write, the hosts file

processVars == <<phase, read, queue>>
dependentVars == <<tasks, child, escaped, unseen>>
historyVars == <<mine, interrupted>>
uninstallVars == <<uninstall, toStrip, overtaken, unstripped>>
vars == <<processVars, file, dependentVars, historyVars, uninstallVars>>

Starting == {"bound", "add", "run"}
Stopping == {"stop", "remove", "end", "wait", "drain"}

Init ==
  /\ phase = "down"
  /\ read = <<>>
  /\ queue = <<>>
  /\ \E own \in {<<>>} \cup {<<l>> : l \in UserLines} : file = own /\ mine = own
  /\ tasks = {}
  /\ child = [d \in Dependents |-> "off"]
  /\ escaped = {} /\ unseen = {}
  /\ interrupted = FALSE
  /\ uninstall = "no" /\ toStrip = <<>>
  /\ overtaken = FALSE /\ unstripped = FALSE

-----------------------------------------------------------------------------
(* application.start *)

(* Every listener is bound; when one cannot be, nothing has changed. *)
Bind ==
  /\ phase = "down"
  /\ uninstall \in {"no", "asked"}
  /\ phase' = "bound"
  /\ UNCHANGED <<read, queue, file, dependentVars, historyVars, uninstallVars>>

ReadForAdd ==
  /\ phase = "bound"
  /\ phase' = "add"
  /\ read' = file
  /\ UNCHANGED <<queue, file, dependentVars, historyVars, uninstallVars>>

(* The hosts file cannot be read: the listeners are closed again. *)
AbandonStart ==
  /\ phase = "bound"
  /\ phase' = "down"
  /\ UNCHANGED <<read, queue, file, dependentVars, historyVars, uninstallVars>>

(* The user finds lines lost, or back, and takes the file as it is. *)
Resync == mine' = OwnLines(file')

(* The user's lines have changed since, or an unclosed block hides some. *)
Unreliable(lines) == OwnLines(lines) # mine \/ Unclosed(lines)

(* A write that fails has changed nothing, or put some first lines there. *)
LeavesPartOf(content) ==
  /\ file' \in {file} \cup CutShort(content)
  /\ IF file' # file THEN Resync ELSE UNCHANGED mine

Wrote(content) ==
  /\ file' = content
  /\ read' = <<>>
  /\ interrupted' = FALSE
  /\ IF Unreliable(read) THEN Resync ELSE UNCHANGED mine

WriteFailed(content) ==
  /\ LeavesPartOf(content)
  /\ read' = <<>>
  /\ interrupted' = TRUE

WriteRedirect ==
  /\ phase = "add"
  /\ phase' = "run"
  /\ queue' = <<"sidecar", "web">>
  /\ Wrote(Render(read, BlockLines))
  /\ UNCHANGED <<dependentVars, uninstallVars>>

(* The write fails: the listeners are closed, and what it left is left. *)
FailStart ==
  /\ phase = "add"
  /\ phase' = "down"
  /\ WriteFailed(Render(read, BlockLines))
  /\ UNCHANGED <<queue, dependentVars, uninstallVars>>

(* What the task runs: the program, unless it is already there. *)
Launched(d) == [child EXCEPT ![d] = IF @ = "off" THEN "starting" ELSE @]

(* Only a task that is not running is run, and only in a user's session. *)
RunTask ==
  /\ phase = "run" /\ queue # <<>>
  /\ \/ /\ Head(queue) \notin tasks
        /\ uninstall \in {"no", "asked"}
        /\ tasks' = tasks \cup {Head(queue)}
        /\ child' = Launched(Head(queue))
     \/ UNCHANGED <<tasks, child>>
  /\ queue' = Tail(queue)
  /\ UNCHANGED <<phase, read, file, escaped, unseen, historyVars, uninstallVars>>

Started ==
  /\ phase = "run" /\ queue = <<>>
  /\ phase' = "serving"
  /\ UNCHANGED <<read, queue, file, dependentVars, historyVars, uninstallVars>>

-----------------------------------------------------------------------------
(* application.stop: the redirect goes first, the listeners last. *)

Stop ==
  /\ phase = "serving"
  /\ phase' = "stop"
  /\ UNCHANGED <<read, queue, file, dependentVars, historyVars, uninstallVars>>

ToDependents ==
  /\ phase' = "end"
  /\ queue' = <<"web", "sidecar">>
  /\ UNCHANGED <<dependentVars, uninstallVars>>

(* Broken variant: the redirect is taken for absent. *)
SkipRemove == phase = "stop" /\ ToDependents /\ UNCHANGED <<read, file, historyVars>>

NothingToRemove ==
  /\ phase = "stop"
  /\ ~Present(file)
  /\ ToDependents
  /\ UNCHANGED <<read, file, historyVars>>

ReadForRemove ==
  /\ phase = "stop"
  /\ Present(file)
  /\ phase' = "remove"
  /\ read' = file
  /\ UNCHANGED <<queue, file, dependentVars, historyVars, uninstallVars>>

RemoveRedirect ==
  /\ phase = "remove"
  /\ Wrote(Render(read, <<>>))
  /\ ToDependents

(* The failure is logged, and the stop goes on. *)
FailRemove ==
  /\ \/ phase = "stop" /\ interrupted' = TRUE /\ UNCHANGED <<read, file, mine>>
     \/ phase = "remove" /\ WriteFailed(Render(read, <<>>))
  /\ ToDependents

(* Ending a task may leave the process it started. *)
EndTask ==
  /\ phase = "end"
  /\ phase' = "wait"
  /\ tasks' = tasks \ {Head(queue)}
  /\ child' \in {child, [child EXCEPT ![Head(queue)] = "off"]}
  /\ UNCHANGED <<read, queue, file, escaped, unseen, historyVars, uninstallVars>>

NextDependent ==
  /\ queue' = Tail(queue)
  /\ phase' = IF Tail(queue) = <<>> THEN "drain" ELSE "end"
  /\ UNCHANGED <<read, file, tasks, historyVars, uninstallVars>>

HoldsPort(d) == child[d] = "up"

(* A process that is still coming up is not seen. *)
PortFree ==
  /\ phase = "wait"
  /\ ~HoldsPort(Head(queue))
  /\ escaped' = IF child[Head(queue)] = "starting" THEN escaped \cup {Head(queue)} ELSE escaped
  /\ NextDependent
  /\ UNCHANGED <<child, unseen>>

(* A query that fails, or prints something that is no number, counts as a  *)
(* free port; where no port is configured, the answer is always that.      *)
Overlook ==
  /\ phase = "wait"
  /\ HoldsPort(Head(queue))
  /\ unseen' = unseen \cup {Head(queue)}
  /\ NextDependent
  /\ UNCHANGED <<child, escaped>>

(* Broken variants: no deadline; the process is left alone at the deadline. *)
WaitForever ==
  /\ phase = "wait"
  /\ HoldsPort(Head(queue))
  /\ FALSE
  /\ UNCHANGED vars

LeaveAtDeadline ==
  /\ phase = "wait"
  /\ HoldsPort(Head(queue))
  /\ NextDependent
  /\ UNCHANGED <<child, escaped, unseen>>

(* It still listens at the deadline and is killed, which may fail. *)
ForceKill ==
  /\ phase = "wait"
  /\ HoldsPort(Head(queue))
  /\ \/ child' = [child EXCEPT ![Head(queue)] = "off"] /\ UNCHANGED escaped
     \/ escaped' = escaped \cup {Head(queue)} /\ UNCHANGED child
  /\ NextDependent
  /\ UNCHANGED unseen

Drain ==
  /\ phase = "drain"
  /\ phase' = "down"
  /\ escaped' = {} /\ unseen' = {}
  /\ UNCHANGED <<read, queue, file, tasks, child, historyVars, uninstallVars>>

-----------------------------------------------------------------------------
(* uninstall.ps1: asks the service to stop and does not wait for it.  It   *)
(* goes on after every error, and reports at its end that it is complete.  *)

AskToStop ==
  /\ uninstall = "no"
  /\ uninstall' = "asked"
  /\ phase' = IF phase = "serving" THEN "stop" ELSE phase
  /\ UNCHANGED <<read, queue, file, dependentVars, historyVars, toStrip, overtaken, unstripped>>

Unregister ==
  /\ uninstall = "asked"
  /\ uninstall' = "unregistered"
  /\ tasks' = {}
  /\ child' \in [Dependents -> {"off", "starting", "up"}]
  /\ \A d \in Dependents : child'[d] \in {child[d], "off"}
  /\ UNCHANGED <<processVars, file, escaped, unseen, historyVars, toStrip, overtaken, unstripped>>

ReadForStrip ==
  /\ uninstall = "unregistered"
  /\ Present(file)
  /\ uninstall' = "strip"
  /\ toStrip' = file
  /\ UNCHANGED <<processVars, file, dependentVars, historyVars, overtaken, unstripped>>

Uninstalled ==
  /\ uninstall' = "done"
  /\ toStrip' = <<>>
  /\ overtaken' = (phase \in {"bound", "add"})
  /\ UNCHANGED <<processVars, dependentVars, interrupted>>

NothingToStrip ==
  /\ uninstall = "unregistered"
  /\ ~Present(file)
  /\ Uninstalled
  /\ UNCHANGED <<file, mine, unstripped>>

(* Broken variant: a service that still runs is left to remove it. *)
StripUnlessRunning ==
  /\ uninstall = "strip"
  /\ Uninstalled
  /\ file' = IF phase = "down" THEN Stripped(toStrip) ELSE file
  /\ Resync
  /\ UNCHANGED unstripped

StripRedirect ==
  /\ uninstall = "strip"
  /\ Uninstalled
  /\ file' = Stripped(toStrip)
  /\ IF Unreliable(toStrip) THEN Resync ELSE mine' = InAscii(mine)
  /\ UNCHANGED unstripped

FailStrip ==
  /\ \/ uninstall = "unregistered" /\ UNCHANGED <<file, mine>>
     \/ uninstall = "strip" /\ LeavesPartOf(Stripped(toStrip))
  /\ Uninstalled
  /\ unstripped' = (file' = file)

-----------------------------------------------------------------------------
(* The rest of the machine. *)

(* The process dies, possibly in the middle of a write. *)
Crash ==
  /\ phase # "down"
  /\ phase' = "down"
  /\ queue' = <<>>
  /\ IF phase \in {"add", "remove"}
     THEN WriteFailed(Render(read, IF phase = "add" THEN BlockLines ELSE <<>>))
     ELSE interrupted' = TRUE /\ read' = <<>> /\ UNCHANGED <<file, mine>>
  /\ escaped' = {} /\ unseen' = {}
  /\ UNCHANGED <<tasks, child, uninstallVars>>

Listen(d) ==
  /\ child[d] = "starting"
  /\ child' = [child EXCEPT ![d] = "up"]
  /\ UNCHANGED <<processVars, file, tasks, escaped, unseen, historyVars, uninstallVars>>

Die(d) ==
  /\ child[d] # "off"
  /\ child' = [child EXCEPT ![d] = "off"]
  /\ tasks' = tasks \ {d}
  /\ UNCHANGED <<processVars, file, escaped, unseen, historyVars, uninstallVars>>

(* What a task has started finds the port held by an earlier process.      *)
PortTaken(d) ==
  /\ d \in tasks /\ HoldsPort(d)
  /\ tasks' = tasks \ {d}
  /\ UNCHANGED <<processVars, file, child, escaped, unseen, historyVars, uninstallVars>>

Edit(new, own) ==
  /\ file' = new
  /\ mine' = own
  /\ UNCHANGED <<processVars, dependentVars, interrupted, uninstallVars>>

AddLine(l) ==
  /\ l \notin ToSet(mine)
  /\ Len(file) < MaxLines
  /\ Edit(Append(file, l), Append(mine, l))

DeleteLine(l) ==
  /\ l \in ToSet(file) /\ l \in ToSet(mine)
  /\ Edit(Without(file, l), Without(mine, l))

StartStep == ReadForAdd \/ AbandonStart \/ WriteRedirect \/ FailStart \/ RunTask \/ Started

StopStep ==
  \/ NothingToRemove \/ ReadForRemove \/ RemoveRedirect \/ FailRemove
  \/ EndTask \/ PortFree \/ ForceKill \/ Drain

UninstallStep ==
  \/ AskToStop \/ Unregister \/ NothingToStrip \/ ReadForStrip
  \/ StripRedirect \/ FailStrip

Next ==
  \/ Bind \/ StartStep \/ Stop \/ StopStep \/ Overlook
  \/ UninstallStep
  \/ Crash
  \/ \E d \in Dependents : Listen(d) \/ Die(d) \/ PortTaken(d)
  \/ \E l \in UserLines : AddLine(l) \/ DeleteLine(l)

Spec == Init /\ [][Next]_vars

(* stop only waits for things with a deadline (supervise.stop_timeout_ms,  *)
(* shutdownTimeout), and the hosts file and task commands return.  That it *)
(* overlooks a process is nothing to count on.                             *)
FairSpec == Spec /\ WF_vars(StopStep)

-----------------------------------------------------------------------------
(* Properties *)

(* The intercepted names lead to the proxy only while it listens           *)
(* (main.go:219-220, 275-276): what is left behind by a crash or a failed  *)
(* write is the one exception, and it ends with the next completed write.  *)
RedirectHasListener == Redirected(file) /\ phase = "down" /\ uninstall # "done" => interrupted

(* A start leaves exactly one block, with every intercepted host, whatever *)
(* earlier runs, crashes and edits left in the file (hostsfile.go:1-5).    *)
OneFreshBlock ==
  phase \in {"run", "serving"} /\ uninstall # "done" =>
    /\ \A l \in {Begin, End} \cup Redirects : Cardinality(Where(file, {l})) = 1
    /\ \E i \in DOMAIN file : SubSeq(file, i, i + Len(Hosts) + 1) = BlockLines

(* The user's lines stay, in their order, over any number of runs: one is  *)
(* lost, or comes back, only by an edit between a read and its write, by a *)
(* write cut short, behind the unclosed block such a write has left, or,   *)
(* if it is not ASCII, by the uninstaller (hostsfile.go:83-87, 99-101,     *)
(* 144-145; uninstall.ps1:68).                                             *)
UserLinesKept == OwnLines(file) = mine

(* Claimed, not kept, and in no run: the uninstaller reverts the           *)
(* installation (README.md:166) and strips the redirect block              *)
(* (uninstall.ps1:1-3), and no more.                                       *)
UninstallKeepsLines == Garbled \notin ToSet(file)

(* A dependent that listens when it is to be stopped is gone when the stop *)
(* goes on, unless it could not be killed, came up late, or the query for  *)
(* its port failed (supervisor_windows.go:32-36, 55-68).                   *)
DependentsStopped ==
  phase = "drain" => \A d \in Dependents : child[d] = "up" => d \in escaped \cup unseen

(* Claimed, not kept, and in no run: whatever still listens is killed, so  *)
(* nothing is orphaned (supervisor_windows.go:35-36, main.go:285-286).     *)
NothingOrphaned ==
  phase = "drain" => \A d \in Dependents : child[d] = "up" => d \in escaped

(* After the uninstaller has run and the process is gone the names resolve *)
(* normally again (uninstall.ps1:3-5), unless it overtook a starting one   *)
(* or could not read, or not write, the hosts file; a write of its own     *)
(* that is cut short redirects nothing either.                             *)
UninstallRestoresNames ==
  uninstall = "done" /\ phase = "down" /\ ~overtaken /\ ~unstripped => ~Redirected(file)

(* Claimed, not kept, and in no run: the uninstall is complete and the name *)
(* resolves normally (uninstall.ps1:99).                                   *)
UninstallCompletes == uninstall = "done" /\ phase = "down" /\ ~overtaken => ~Redirected(file)

(* A stop comes to its end. *)
EveryStopEnds == phase \in Stopping ~> phase = "down"
=============================================================================
