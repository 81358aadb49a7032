------------------------------ MODULE Install -------------------------------
(***************************************************************************)
(* The interception CA from the installer to the listener: install.ps1     *)
(* runs -init-ca (internal/mitm), trusts ca.crt machine-wide and registers *)
(* the service, whose start loads the CA or makes one if a file is missing;*)
(* uninstall.ps1 reverts it.  A file write first empties the file, and may *)
(* end there.  A certificate or key is a number, the same for a pair.      *)
(***************************************************************************)
EXTENDS Integers

CONSTANTS
  MaxPairs,   \* bound: key pairs generated
  MaxFaults   \* bound: files lost, writes failed and processes killed

ASSUME InstallAssumption == MaxPairs \in Nat /\ MaxFaults \in Nat

VARIABLES
  cert, key,   \* the files ca.crt and ca.key
  trusted,     \* the proxy's certificates in Cert:\LocalMachine\Root
  script,      \* where install.ps1 or uninstall.ps1 is
  svc,         \* the service: none, stopped, loading, serving, stopping
  marked,      \* whether it is marked for deletion
  gen,         \* process -> where it is in EnsureCA, and the CA it has
  pairs,       \* pairs generated
  stuck,       \* certificates the uninstaller failed to remove
  installed,   \* history: the last script that ran is an install, ended
  removed,     \* history: the last script that ran is an uninstall, ended
  own,         \* history: pairs the service made since the last -init-ca began
  disturbed,   \* history: pairs not written to the end, or not alone
  damaged,     \* history: a file was lost, a write cut or a removal failed
  faults

files == <<cert, key>>
histories == <<installed, removed, own, disturbed, damaged>>
vars == <<files, trusted, script, svc, marked, gen, pairs, stuck, histories, faults>>

Absent == 0
Torn == -1

Processes == {"init", "svc"}
Out == [at |-> "out", cert |-> Absent, key |-> Absent]

Init ==
  /\ cert = Absent /\ key = Absent
  /\ trusted = {} /\ stuck = {}
  /\ script = "idle"
  /\ svc = "none" /\ marked = FALSE
  /\ gen = [p \in Processes |-> Out]
  /\ pairs = 0
  /\ installed = FALSE /\ removed = FALSE
  /\ own = {} /\ disturbed = {} /\ damaged = FALSE
  /\ faults = 0

Writing(p) == gen[p].at \in {"cert", "fill cert", "key", "fill key"}

(* The pair p is writing. *)
Begun(p) == IF Writing(p) THEN {gen[p].cert} ELSE {}

Other(p) == IF p = "init" THEN "svc" ELSE "init"

-----------------------------------------------------------------------------
(* EnsureCA *)

(* Both files are there; the certificate is read before the key. *)
LoadCert(p) ==
  /\ gen[p].at = "ensure"
  /\ cert # Absent /\ key # Absent
  /\ gen' = [gen EXCEPT ![p] = IF cert = Torn THEN [@ EXCEPT !.at = "failed"]
                               ELSE [@ EXCEPT !.at = "load", !.cert = cert]]
  /\ disturbed' = disturbed \cup Begun(Other(p))
  /\ UNCHANGED <<files, trusted, script, svc, marked, pairs, stuck, installed, removed, own, damaged, faults>>

LoadKey(p) ==
  /\ gen[p].at = "load"
  /\ gen' = [gen EXCEPT ![p] = IF key \in {Absent, Torn} THEN [@ EXCEPT !.at = "failed"]
                               ELSE [@ EXCEPT !.at = "ready", !.key = key]]
  /\ UNCHANGED <<files, trusted, script, svc, marked, pairs, stuck, histories, faults>>

(* Broken variant: a pair is made whether there is one or not. *)
GenerateAnew(p) ==
  /\ gen[p].at = "ensure"
  /\ pairs < MaxPairs
  /\ pairs' = pairs + 1
  /\ gen' = [gen EXCEPT ![p] = [at |-> "cert", cert |-> pairs + 1, key |-> pairs + 1]]
  /\ own' = IF p = "svc" THEN own \cup {pairs + 1} ELSE own
  /\ disturbed' = disturbed \cup Begun(Other(p))
                     \cup (IF Writing(Other(p)) \/ gen[Other(p)].at = "load" THEN {pairs + 1} ELSE {})
  /\ UNCHANGED <<files, trusted, script, svc, marked, stuck, installed, removed, damaged, faults>>

Generate(p) ==
  /\ gen[p].at = "ensure"
  /\ cert = Absent \/ key = Absent
  /\ pairs < MaxPairs
  /\ pairs' = pairs + 1
  /\ gen' = [gen EXCEPT ![p] = [at |-> "cert", cert |-> pairs + 1, key |-> pairs + 1]]
  /\ own' = IF p = "svc" THEN own \cup {pairs + 1} ELSE own
  /\ disturbed' = disturbed \cup Begun(Other(p))
                     \cup (IF Writing(Other(p)) \/ gen[Other(p)].at = "load" THEN {pairs + 1} ELSE {})
  /\ UNCHANGED <<files, trusted, script, svc, marked, stuck, installed, removed, damaged, faults>>

(* A file cannot be read, or no key, certificate or directory be made. *)
EnsureFails(p) ==
  /\ gen[p].at \in {"ensure", "load"}
  /\ gen' = [gen EXCEPT ![p].at = "failed"]
  /\ UNCHANGED <<files, trusted, script, svc, marked, pairs, stuck, histories, faults>>

(* persistCA: the certificate, then the key. *)
WriteCert(p) ==
  /\ \/ gen[p].at = "cert" /\ cert' = Torn /\ gen' = [gen EXCEPT ![p].at = "fill cert"]
     \/ gen[p].at = "fill cert" /\ cert' = gen[p].cert /\ gen' = [gen EXCEPT ![p].at = "key"]
  /\ UNCHANGED <<key, trusted, script, svc, marked, pairs, stuck, histories, faults>>

(* Broken variant: a key that is there is kept. *)
KeepKey(p) ==
  /\ \/ gen[p].at = "key" /\ key = Absent /\ key' = Torn /\ gen' = [gen EXCEPT ![p].at = "fill key"]
     \/ gen[p].at = "key" /\ key # Absent /\ UNCHANGED key /\ gen' = [gen EXCEPT ![p].at = "ready"]
     \/ gen[p].at = "fill key" /\ key' = gen[p].key /\ gen' = [gen EXCEPT ![p].at = "ready"]
  /\ UNCHANGED <<cert, trusted, script, svc, marked, pairs, stuck, histories, faults>>

WriteKey(p) ==
  /\ \/ gen[p].at = "key" /\ key' = Torn /\ gen' = [gen EXCEPT ![p].at = "fill key"]
     \/ gen[p].at = "fill key" /\ key' = gen[p].key /\ gen' = [gen EXCEPT ![p].at = "ready"]
  /\ UNCHANGED <<cert, trusted, script, svc, marked, pairs, stuck, histories, faults>>

(* The writing of p's pair ends before its end. *)
CutShort(p) ==
  /\ disturbed' = disturbed \cup Begun(p)
  /\ damaged' = (damaged \/ Writing(p))

WriteFails(p) ==
  /\ faults < MaxFaults
  /\ Writing(p)
  /\ gen' = [gen EXCEPT ![p].at = "failed"]
  /\ CutShort(p)
  /\ faults' = faults + 1
  /\ UNCHANGED <<files, trusted, script, svc, marked, pairs, stuck, installed, removed, own>>

-----------------------------------------------------------------------------
(* The service *)

Gone == IF marked THEN "none" ELSE "stopped"

StartService ==
  /\ svc = "stopped" /\ ~marked
  /\ svc' = "loading"
  /\ gen' = [gen EXCEPT !["svc"] = [Out EXCEPT !.at = "ensure"]]
  /\ UNCHANGED <<files, trusted, script, marked, pairs, stuck, histories, faults>>

Serve ==
  /\ svc = "loading" /\ gen["svc"].at = "ready"
  /\ svc' = "serving"
  /\ UNCHANGED <<files, trusted, script, marked, gen, pairs, stuck, histories, faults>>

StartFails ==
  /\ svc = "loading" /\ gen["svc"].at = "failed"
  /\ svc' = Gone
  /\ marked' = FALSE
  /\ gen' = [gen EXCEPT !["svc"] = Out]
  /\ UNCHANGED <<files, trusted, script, pairs, stuck, histories, faults>>

StopService ==
  /\ svc = "serving"
  /\ svc' = "stopping"
  /\ UNCHANGED <<files, trusted, script, marked, gen, pairs, stuck, histories, faults>>

Stopped ==
  /\ svc = "stopping"
  /\ svc' = Gone
  /\ marked' = FALSE
  /\ gen' = [gen EXCEPT !["svc"] = Out]
  /\ UNCHANGED <<files, trusted, script, pairs, stuck, histories, faults>>

Crash ==
  /\ faults < MaxFaults
  /\ svc \in {"loading", "serving", "stopping"}
  /\ svc' = Gone
  /\ marked' = FALSE
  /\ gen' = [gen EXCEPT !["svc"] = Out]
  /\ CutShort("svc")
  /\ faults' = faults + 1
  /\ UNCHANGED <<files, trusted, script, pairs, stuck, installed, removed, own>>

(* A leaf can be signed with the CA's key only for the CA's certificate: *)
(* CreateCertificate refuses a key that is not its parent's.             *)
MintsLeaf == gen["svc"].cert = gen["svc"].key

(* sc.exe stop and sc.exe delete: the service goes when its process does.  *)
(* A stop does not reach a service that is still starting.                 *)
StopAndDelete ==
  /\ svc' = CASE svc = "stopped" -> "none" [] svc = "serving" -> "stopping" [] OTHER -> svc
  /\ marked' = (svc \in {"loading", "serving", "stopping"})

-----------------------------------------------------------------------------
(* The scripts *)

StartInstall ==
  /\ script = "idle"
  /\ script' = "copy"
  /\ installed' = FALSE /\ removed' = FALSE
  /\ UNCHANGED <<files, trusted, svc, marked, gen, pairs, stuck, own, disturbed, damaged, faults>>

(* proxy.exe cannot be replaced while it runs. *)
CopyExe ==
  /\ script = "copy"
  /\ svc \in {"none", "stopped"}
  /\ script' = "init"
  /\ gen' = [gen EXCEPT !["init"] = [Out EXCEPT !.at = "ensure"]]
  /\ own' = {}
  /\ UNCHANGED <<files, trusted, svc, marked, pairs, stuck, installed, removed, disturbed, damaged, faults>>

(* The script looks for ca.crt, not at the exit code. *)
InitEnds ==
  /\ script = "init" /\ gen["init"].at \in {"ready", "failed"}
  /\ gen' = [gen EXCEPT !["init"] = Out]
  /\ script' = IF cert = Absent THEN "idle" ELSE "import"
  /\ UNCHANGED <<files, trusted, svc, marked, pairs, stuck, histories, faults>>

(* Broken variant: a machine that trusts a CA of that name is left alone. *)
ImportUnlessPresent ==
  /\ script = "import"
  /\ cert \notin {Absent, Torn}
  /\ trusted' = IF trusted = {} THEN {cert} ELSE trusted
  /\ script' = "replace"
  /\ UNCHANGED <<files, svc, marked, gen, pairs, stuck, histories, faults>>

ImportCertificate ==
  /\ script = "import"
  /\ cert \notin {Absent, Torn}
  /\ trusted' = trusted \cup {cert}
  /\ script' = "replace"
  /\ UNCHANGED <<files, svc, marked, gen, pairs, stuck, histories, faults>>

ReplaceService ==
  /\ script = "replace"
  /\ StopAndDelete
  /\ script' = "register"
  /\ UNCHANGED <<files, trusted, gen, pairs, stuck, histories, faults>>

NewService ==
  /\ script = "register"
  /\ svc = "none"
  /\ svc' = "stopped"
  /\ installed' = TRUE
  /\ script' = "idle"
  /\ UNCHANGED <<files, trusted, marked, gen, pairs, stuck, removed, own, disturbed, damaged, faults>>

(* A step that cannot be done ends the script. *)
GiveUp ==
  /\ \/ script = "copy" /\ svc \notin {"none", "stopped"}
     \/ script = "import" /\ cert \in {Absent, Torn}
     \/ script = "register" /\ svc # "none"
  /\ script' = "idle"
  /\ UNCHANGED <<files, trusted, svc, marked, gen, pairs, stuck, histories, faults>>

(* The window is closed. *)
Abort ==
  /\ faults < MaxFaults
  /\ script # "idle"
  /\ script' = "idle"
  /\ gen' = [gen EXCEPT !["init"] = Out]
  /\ CutShort("init")
  /\ faults' = faults + 1
  /\ UNCHANGED <<files, trusted, svc, marked, pairs, stuck, installed, removed, own>>

StartUninstall ==
  /\ script = "idle"
  /\ svc # "none" \/ trusted # {}
  /\ installed' = FALSE /\ removed' = FALSE
  /\ stuck' = {}
  /\ StopAndDelete
  /\ script' = "untrust"
  /\ UNCHANGED <<files, trusted, gen, pairs, own, disturbed, damaged, faults>>

(* Every certificate of the proxy's subject, one after the other; one that *)
(* cannot be removed is left, and counted as removed.                      *)
Untrust ==
  /\ script = "untrust"
  /\ \/ \E c \in trusted \ stuck :
          /\ \/ trusted' = trusted \ {c} /\ UNCHANGED <<stuck, damaged>>
             \/ stuck' = stuck \cup {c} /\ damaged' = TRUE /\ UNCHANGED trusted
          /\ UNCHANGED script
     \/ trusted \subseteq stuck /\ script' = "delete" /\ UNCHANGED <<trusted, stuck, damaged>>
  /\ UNCHANGED <<files, svc, marked, gen, pairs, installed, removed, own, disturbed, faults>>

(* The data tree goes, or is kept with -KeepData, or goes in part. *)
DeleteData ==
  /\ script = "delete"
  /\ cert' \in {cert, Absent} /\ key' \in {key, Absent}
  /\ damaged' = (damaged \/ ~(cert' = Absent <=> key' = Absent))
  /\ removed' = TRUE
  /\ script' = "idle"
  /\ UNCHANGED <<trusted, svc, marked, gen, pairs, stuck, installed, own, disturbed, faults>>

Lose ==
  /\ faults < MaxFaults
  /\ \/ cert # Absent /\ cert' = Absent /\ UNCHANGED key
     \/ key # Absent /\ key' = Absent /\ UNCHANGED cert
  /\ faults' = faults + 1
  /\ damaged' = TRUE
  /\ UNCHANGED <<trusted, script, svc, marked, gen, pairs, stuck, installed, removed, own, disturbed>>

EnsureStep(p) ==
  LoadCert(p) \/ LoadKey(p) \/ Generate(p) \/ EnsureFails(p) \/ WriteCert(p) \/ WriteKey(p) \/ WriteFails(p)

Next ==
  \/ \E p \in Processes : EnsureStep(p)
  \/ StartService \/ Serve \/ StartFails \/ StopService \/ Stopped \/ Crash
  \/ StartInstall \/ CopyExe \/ InitEnds \/ ImportCertificate \/ ReplaceService \/ NewService
  \/ GiveUp \/ Abort \/ StartUninstall \/ Untrust \/ DeleteData \/ Lose

Spec == Init /\ [][Next]_vars

-----------------------------------------------------------------------------
(* Properties *)

(* The service an install registers serves a certificate its clients       *)
(* trust, whatever -init-ca did, failed to do or found, and whatever       *)
(* became of the files since; unless the service, missing a file, made the *)
(* CA itself after that -init-ca had begun (install.ps1:172-204,           *)
(* ca.go:51-59).                                                           *)
ServedCertTrusted ==
  installed /\ svc = "serving" => gen["svc"].cert \in trusted \cup own

(* A CA that was written to the end, with nobody else in EnsureCA, is      *)
(* served with its own key for good, through lost files, further           *)
(* generations cut short between the two files and restarts                *)
(* (ca.go:168-222).                                                        *)
ServedKeyMatches ==
  svc = "serving" => MintsLeaf \/ {gen["svc"].cert, gen["svc"].key} \cap disturbed # {}

(* Installs, uninstalls with or without the data, starts and stops that    *)
(* fail or are broken off leave at most one CA trusted, as long as no file *)
(* was lost, no write was cut and no removal failed: a CA is reused, and   *)
(* its trust goes before its files (install.ps1:11, uninstall.ps1:75-96).  *)
TrustedOnce ==
  damaged \/ \A c, d \in trusted : c = d

(* Claimed, not kept, and in no run: "Generate (or reuse) the              *)
(* Name-Constrained CA, then trust it machine-wide" (install.ps1:183): an  *)
(* install that completes leaves a CA on disk, whole and trusted.          *)
InstallLeavesCA ==
  [][~installed /\ installed' => cert = key /\ cert \in trusted]_vars

(* Claimed, not kept, and in no run: a CA is "a loaded (or freshly         *)
(* generated) root CA that mints leaf certificates" (ca.go:37).            *)
ServedMintsLeaves == svc = "serving" => MintsLeaf

(* Claimed, not kept, and in no run: uninstall.ps1 "Reverts install.ps1:   *)
(* ... removes the CA from the trust store" (uninstall.ps1:1-3).           *)
NoTrustLeft == removed => trusted = {}
=============================================================================
