--------------------------- MODULE Install_proofs ---------------------------
(***************************************************************************)
(* What is served after an install, for every number of key pairs and of   *)
(* faults: a trusted certificate, or one the service has made itself, and  *)
(* the key that was written with it.                                       *)
(***************************************************************************)
EXTENDS Install, TLAPS

USE InstallAssumption

Steps == {"out", "ensure", "load", "cert", "fill cert", "key", "fill key", "ready", "failed"}
Progress == [at : Steps, cert : Nat, key : Nat]
Content == Nat \cup {Torn}

TypeOK ==
  /\ cert \in Content /\ key \in Content
  /\ gen \in [Processes -> Progress]
  /\ svc \in {"none", "stopped", "loading", "serving", "stopping"}
  /\ script \in {"idle", "copy", "init", "import", "replace", "register", "untrust", "delete"}
  /\ pairs \in Nat
  /\ installed \in BOOLEAN

(* Who is where: -init-ca runs in one step of the script, the service has  *)
(* a CA only while it runs, and a script forgets what the last one did.    *)
PlacesInv ==
  /\ script # "init" => gen["init"].at = "out"
  /\ svc \in {"none", "stopped"} => gen["svc"].at = "out"
  /\ svc \in {"serving", "stopping"} => gen["svc"].at = "ready"
  /\ script # "idle" => ~installed

(* The certificate and the key a process writes are one pair. *)
PairInv == \A p \in Processes : Writing(p) => gen[p].cert = gen[p].key /\ gen[p].cert # 0

BaseInv == TypeOK /\ PlacesInv /\ PairInv

-----------------------------------------------------------------------------
(* The steps of EnsureCA *)

LEMMA Others ==
  /\ Processes = {"init", "svc"} /\ "init" # "svc"
  /\ \A p \in Processes : Other(p) \in Processes /\ Other(p) # p /\ Other(Other(p)) = p
  /\ \A p, q \in Processes : q # p => q = Other(p)
  BY DEF Processes, Other

LEMMA Became ==
  ASSUME TypeOK, NEW p \in Processes, NEW g \in Progress, gen' = [gen EXCEPT ![p] = g]
  PROVE  /\ gen' \in [Processes -> Progress]
         /\ gen'[p] = g
         /\ \A q \in Processes : q # p => gen'[q] = gen[q]
  BY DEF TypeOK

LEMMA Moved ==
  ASSUME TypeOK, NEW p \in Processes, NEW at \in Steps, gen' = [gen EXCEPT ![p].at = at]
  PROVE  /\ gen' \in [Processes -> Progress]
         /\ gen'[p].at = at /\ gen'[p].cert = gen[p].cert /\ gen'[p].key = gen[p].key
         /\ \A q \in Processes : q # p => gen'[q] = gen[q]
<1>1. gen[p] \in Progress
  BY DEF TypeOK
<1>2. [gen[p] EXCEPT !.at = at] \in Progress
  BY <1>1 DEF Progress
<1>3. gen' = [gen EXCEPT ![p] = [gen[p] EXCEPT !.at = at]]
  OBVIOUS
<1>4. gen' \in [Processes -> Progress] /\ gen'[p] = [gen[p] EXCEPT !.at = at]
  BY <1>2, <1>3 DEF TypeOK
<1>5. \A q \in Processes : q # p => gen'[q] = gen[q]
  BY <1>3 DEF TypeOK
<1> QED
  BY <1>1, <1>4, <1>5 DEF Progress

LEMMA NotTorn == \A c \in Nat : c # 0 => c \notin {Absent, Torn}
<1>1. \A c \in Nat : c # Torn
  BY DEF Torn
<1> QED
  BY <1>1 DEF Absent

(* What a step does to the files and to the pair its process holds. *)
Reads(p) ==
  /\ gen[p].at = "ensure" /\ gen'[p].at = "load"
  /\ gen'[p].cert = cert /\ cert \in Nat /\ cert # 0
  /\ disturbed' = disturbed \cup Begun(Other(p))
  /\ UNCHANGED <<cert, key, own, damaged, pairs>>

Matches(p) ==
  /\ gen[p].at = "load" /\ gen'[p].at = "ready"
  /\ gen'[p].cert = gen[p].cert /\ gen'[p].key = key /\ key \in Nat /\ key # 0
  /\ UNCHANGED <<cert, key, own, disturbed, damaged, pairs>>

Makes(p) ==
  /\ gen[p].at = "ensure" /\ gen'[p].at = "cert"
  /\ cert = Absent \/ key = Absent
  /\ gen'[p].cert = pairs + 1 /\ gen'[p].key = pairs + 1
  /\ pairs' = pairs + 1
  /\ own' = IF p = "svc" THEN own \cup {pairs + 1} ELSE own
  /\ disturbed' = disturbed \cup Begun(Other(p))
                     \cup (IF Writing(Other(p)) \/ gen[Other(p)].at = "load" THEN {pairs + 1} ELSE {})
  /\ UNCHANGED <<cert, key, damaged>>

Writes(p) ==
  /\ \/ gen[p].at = "cert" /\ gen'[p].at = "fill cert" /\ cert' = Torn /\ key' = key
     \/ gen[p].at = "fill cert" /\ gen'[p].at = "key" /\ cert' = gen[p].cert /\ key' = key
     \/ gen[p].at = "key" /\ gen'[p].at = "fill key" /\ key' = Torn /\ cert' = cert
     \/ gen[p].at = "fill key" /\ gen'[p].at = "ready" /\ key' = gen[p].key /\ cert' = cert
  /\ gen'[p].cert = gen[p].cert /\ gen'[p].key = gen[p].key
  /\ UNCHANGED <<own, disturbed, damaged, pairs>>

Fails(p) ==
  /\ gen[p].at \notin {"out", "ready", "failed"} /\ gen'[p].at = "failed"
  /\ disturbed \cup Begun(p) \subseteq disturbed'
  /\ damaged => damaged'
  /\ Writing(p) => damaged'
  /\ UNCHANGED <<cert, key, own, pairs>>

LEMMA StepOfEnsure ==
  ASSUME TypeOK, NEW p \in Processes, EnsureStep(p)
  PROVE  /\ gen' \in [Processes -> Progress]
         /\ gen'[Other(p)] = gen[Other(p)]
         /\ UNCHANGED <<trusted, script, svc, marked, stuck, installed, removed>>
         /\ Reads(p) \/ Matches(p) \/ Makes(p) \/ Writes(p) \/ Fails(p)
<1>0. gen[p] \in Progress /\ Other(p) \in Processes /\ Other(p) # p
  BY Others DEF TypeOK
<1>a. UNCHANGED <<trusted, script, svc, marked, stuck, installed, removed>>
  BY DEF EnsureStep, LoadCert, LoadKey, Generate, EnsureFails, WriteCert, WriteKey, WriteFails, histories
<1>1. ASSUME gen' = [gen EXCEPT ![p].at = "failed"], gen[p].at \notin {"out", "ready", "failed"},
             disturbed \cup Begun(p) \subseteq disturbed', damaged => damaged', Writing(p) => damaged',
             UNCHANGED <<cert, key, own, pairs>>
      PROVE  gen' \in [Processes -> Progress] /\ gen'[Other(p)] = gen[Other(p)] /\ Fails(p)
  BY <1>0, <1>1, Moved DEF Fails, Steps
<1>2. CASE LoadCert(p)
  <2>1. CASE cert = Torn
    <3>1. gen' = [gen EXCEPT ![p].at = "failed"] /\ gen[p].at = "ensure"
          /\ disturbed \subseteq disturbed' /\ UNCHANGED <<cert, key, own, damaged, pairs>>
      BY <1>2, <2>1 DEF LoadCert, files
    <3>2. Begun(p) = {} /\ ~Writing(p)
      BY <3>1 DEF Begun, Writing
    <3> QED
      BY <1>1, <1>a, <3>1, <3>2
  <2>2. CASE cert # Torn
    <3> DEFINE g == [gen[p] EXCEPT !.at = "load", !.cert = cert]
    <3>1. cert \in Nat /\ cert # 0
      BY <1>2, <2>2 DEF LoadCert, TypeOK, Content, Absent
    <3>2. g \in Progress /\ g.at = "load" /\ g.cert = cert
      BY <1>0, <3>1 DEF Progress, Steps
    <3>3. gen' = [gen EXCEPT ![p] = g]
      BY <1>2, <2>2 DEF LoadCert
    <3> HIDE DEF g
    <3>4. gen' \in [Processes -> Progress] /\ gen'[Other(p)] = gen[Other(p)] /\ gen'[p] = g
      BY <1>0, <3>2, <3>3, Became
    <3>5. Reads(p)
      BY <1>2, <3>1, <3>2, <3>4 DEF LoadCert, Reads, files
    <3> QED
      BY <1>a, <3>4, <3>5
  <2> QED
    BY <2>1, <2>2
<1>3. CASE LoadKey(p)
  <2>1. CASE key \in {Absent, Torn}
    <3>1. gen' = [gen EXCEPT ![p].at = "failed"] /\ gen[p].at = "load"
          /\ UNCHANGED <<cert, key, own, disturbed, damaged, pairs>>
      BY <1>3, <2>1 DEF LoadKey, files, histories
    <3>2. Begun(p) = {} /\ ~Writing(p)
      BY <3>1 DEF Begun, Writing
    <3> QED
      BY <1>1, <1>a, <3>1, <3>2
  <2>2. CASE key \notin {Absent, Torn}
    <3> DEFINE g == [gen[p] EXCEPT !.at = "ready", !.key = key]
    <3>1. key \in Nat /\ key # 0
      BY <2>2 DEF TypeOK, Content, Absent
    <3>2. g \in Progress /\ g.at = "ready" /\ g.cert = gen[p].cert /\ g.key = key
      BY <1>0, <3>1 DEF Progress, Steps
    <3>3. gen' = [gen EXCEPT ![p] = g]
      BY <1>3, <2>2 DEF LoadKey
    <3> HIDE DEF g
    <3>4. gen' \in [Processes -> Progress] /\ gen'[Other(p)] = gen[Other(p)] /\ gen'[p] = g
      BY <1>0, <3>2, <3>3, Became
    <3>5. Matches(p)
      BY <1>3, <3>1, <3>2, <3>4 DEF LoadKey, Matches, files, histories
    <3> QED
      BY <1>a, <3>4, <3>5
  <2> QED
    BY <2>1, <2>2
<1>4. CASE Generate(p)
  <2> DEFINE g == [at |-> "cert", cert |-> pairs + 1, key |-> pairs + 1]
  <2>1. pairs + 1 \in Nat
    BY DEF TypeOK
  <2>2. g \in Progress /\ g.at = "cert" /\ g.cert = pairs + 1 /\ g.key = pairs + 1
    BY <2>1 DEF Progress, Steps
  <2>3. gen' = [gen EXCEPT ![p] = g]
    BY <1>4 DEF Generate
  <2> HIDE DEF g
  <2>4. gen' \in [Processes -> Progress] /\ gen'[Other(p)] = gen[Other(p)] /\ gen'[p] = g
    BY <1>0, <2>2, <2>3, Became
  <2>5. Makes(p)
    BY <1>4, <2>2, <2>4 DEF Generate, Makes, files
  <2> QED
    BY <1>a, <2>4, <2>5
<1>5. CASE EnsureFails(p)
  <2>1. gen[p].at \in {"ensure", "load"} /\ gen' = [gen EXCEPT ![p].at = "failed"]
        /\ UNCHANGED <<cert, key, own, disturbed, damaged, pairs>>
    BY <1>5 DEF EnsureFails, files, histories
  <2>2. Begun(p) = {} /\ ~Writing(p)
    BY <2>1 DEF Begun, Writing
  <2> QED
    BY <1>1, <1>a, <2>1, <2>2
<1>6. ASSUME NEW at \in {"fill cert", "key", "fill key", "ready"},
             gen' = [gen EXCEPT ![p].at = at],
             \/ gen[p].at = "cert" /\ at = "fill cert" /\ cert' = Torn /\ key' = key
             \/ gen[p].at = "fill cert" /\ at = "key" /\ cert' = gen[p].cert /\ key' = key
             \/ gen[p].at = "key" /\ at = "fill key" /\ key' = Torn /\ cert' = cert
             \/ gen[p].at = "fill key" /\ at = "ready" /\ key' = gen[p].key /\ cert' = cert,
             UNCHANGED <<own, disturbed, damaged, pairs>>
      PROVE  gen' \in [Processes -> Progress] /\ gen'[Other(p)] = gen[Other(p)] /\ Writes(p)
  <2>1. /\ gen' \in [Processes -> Progress]
        /\ gen'[p].at = at /\ gen'[p].cert = gen[p].cert /\ gen'[p].key = gen[p].key
        /\ \A q \in Processes : q # p => gen'[q] = gen[q]
    BY <1>6, Moved DEF Steps
  <2>2. Writes(p)
    BY <1>6, <2>1 DEF Writes
  <2> QED
    BY <1>0, <2>1, <2>2
<1>7. CASE WriteCert(p)
  BY <1>6, <1>7, <1>a DEF WriteCert, histories
<1>8. CASE WriteKey(p)
  BY <1>6, <1>8, <1>a DEF WriteKey, histories
<1>9. CASE WriteFails(p)
  <2>1. Writing(p) /\ gen' = [gen EXCEPT ![p].at = "failed"] /\ damaged' = TRUE
        /\ disturbed' = disturbed \cup Begun(p) /\ UNCHANGED <<cert, key, own, pairs>>
    BY <1>9 DEF WriteFails, CutShort, files
  <2>2. gen[p].at \notin {"out", "ready", "failed"}
    BY <2>1 DEF Writing
  <2> QED
    BY <1>1, <1>a, <2>1, <2>2
<1> QED
  BY <1>2, <1>3, <1>4, <1>5, <1>7, <1>8, <1>9 DEF EnsureStep

-----------------------------------------------------------------------------
(* The steps of the service and of the scripts *)

ServiceStep == StartService \/ Serve \/ StartFails \/ StopService \/ Stopped \/ Crash

ScriptStep ==
  \/ StartInstall \/ CopyExe \/ InitEnds \/ ImportCertificate \/ ReplaceService \/ NewService
  \/ GiveUp \/ Abort \/ StartUninstall \/ Untrust \/ DeleteData \/ Lose

LEMMA NextIs ==
  Next <=> (\E p \in Processes : EnsureStep(p)) \/ ServiceStep \/ ScriptStep
  BY DEF Next, ServiceStep, ScriptStep

Running == {"loading", "serving", "stopping"}

(* A start, a change of state, and the end of the service's process. *)
Starts ==
  /\ svc = "stopped" /\ svc' = "loading" /\ ~marked
  /\ gen'["svc"].at = "ensure"
  /\ UNCHANGED <<marked, disturbed, damaged>>

Advances ==
  /\ svc \in Running /\ svc' \in {"serving", "stopping"} /\ gen["svc"].at = "ready"
  /\ gen'["svc"] = gen["svc"]
  /\ UNCHANGED <<marked, disturbed, damaged>>

Ends ==
  /\ svc \in Running /\ svc' = Gone /\ marked' = FALSE
  /\ gen'["svc"].at = "out"
  /\ disturbed' = disturbed \cup Begun("svc")
  /\ damaged => damaged'
  /\ Writing("svc") => damaged'

LEMMA StepOfService ==
  ASSUME BaseInv, ServiceStep
  PROVE  /\ gen' \in [Processes -> Progress]
         /\ gen'["init"] = gen["init"]
         /\ UNCHANGED <<cert, key, trusted, script, pairs, stuck, installed, removed, own>>
         /\ Starts \/ Advances \/ Ends
<1>0. TypeOK /\ PlacesInv
  BY DEF BaseInv
<1>1. /\ Out \in Progress /\ [Out EXCEPT !.at = "ensure"] \in Progress
      /\ Out.at = "out" /\ [Out EXCEPT !.at = "ensure"].at = "ensure"
  BY DEF Out, Progress, Steps, Absent
<1>2. "svc" \in Processes /\ "init" \in Processes
  BY DEF Processes
<1>3. CASE StartService
  BY <1>0, <1>1, <1>2, <1>3, Became DEF StartService, Starts, files, histories
<1>4. CASE Serve
  BY <1>0, <1>4 DEF Serve, Advances, Running, TypeOK, files, histories
<1>5. CASE StartFails
  <2>1. Begun("svc") = {} /\ ~Writing("svc")
    BY <1>5 DEF StartFails, Begun, Writing
  <2> QED
    BY <1>0, <1>1, <1>2, <1>5, <2>1, Became DEF StartFails, Ends, Running, files, histories
<1>6. CASE StopService
  BY <1>0, <1>6 DEF StopService, Advances, Running, TypeOK, PlacesInv, files, histories
<1>7. CASE Stopped
  <2>1. Begun("svc") = {} /\ ~Writing("svc")
    BY <1>0, <1>7 DEF Stopped, PlacesInv, Begun, Writing
  <2> QED
    BY <1>0, <1>1, <1>2, <1>7, <2>1, Became DEF Stopped, Ends, Running, files, histories
<1>8. CASE Crash
  BY <1>0, <1>1, <1>2, <1>8, Became DEF Crash, CutShort, Ends, Running, files, histories
<1> QED
  BY <1>3, <1>4, <1>5, <1>6, <1>7, <1>8 DEF ServiceStep

(* The script moves the CA of -init-ca only, and writes no file. *)
LEMMA StepOfScript ==
  ASSUME BaseInv, ScriptStep
  PROVE  /\ gen' \in [Processes -> Progress]
         /\ gen'["svc"] = gen["svc"]
         /\ \/ gen'["init"] = gen["init"]
            \/ script = "copy" /\ script' = "init" /\ gen'["init"].at = "ensure"
            \/ gen'["init"].at = "out" /\ disturbed \cup Begun("init") \subseteq disturbed'
         /\ cert' \in {cert, Absent} /\ key' \in {key, Absent}
         /\ UNCHANGED pairs
         /\ disturbed \subseteq disturbed'
<1>0. TypeOK /\ PlacesInv
  BY DEF BaseInv
<1>1. /\ Out \in Progress /\ [Out EXCEPT !.at = "ensure"] \in Progress
      /\ Out.at = "out" /\ [Out EXCEPT !.at = "ensure"].at = "ensure"
  BY DEF Out, Progress, Steps, Absent
<1>2. "svc" \in Processes /\ "init" \in Processes /\ "svc" # "init"
  BY DEF Processes
<1>3. CASE CopyExe
  BY <1>0, <1>1, <1>2, <1>3, Became DEF CopyExe, files, histories
<1>4. CASE InitEnds
  <2>1. Begun("init") = {}
    BY <1>4 DEF InitEnds, Begun, Writing
  <2> QED
    BY <1>0, <1>1, <1>2, <1>4, <2>1, Became DEF InitEnds, files, histories
<1>5. CASE Abort
  BY <1>0, <1>1, <1>2, <1>5, Became DEF Abort, CutShort, files, histories
<1>6. CASE ~(CopyExe \/ InitEnds \/ Abort)
  <2>1. /\ UNCHANGED <<gen, pairs, disturbed>>
        /\ cert' \in {cert, Absent} /\ key' \in {key, Absent}
    BY <1>6 DEF ScriptStep, StartInstall, ImportCertificate, ReplaceService, NewService, GiveUp,
       StartUninstall, Untrust, DeleteData, Lose, files, histories
  <2> QED
    BY <1>0, <2>1 DEF TypeOK
<1> QED
  BY <1>3, <1>4, <1>5, <1>6

-----------------------------------------------------------------------------
(* Types, places and pairs *)

LEMMA BaseInvInitially == Init => BaseInv
<1> SUFFICES ASSUME Init
             PROVE  BaseInv
  OBVIOUS
<1>1. TypeOK
  BY DEF Init, TypeOK, Content, Absent, Steps, Progress, Out
<1>2. \A p \in Processes : gen[p].at = "out"
  BY DEF Init, Out
<1>3. PlacesInv /\ PairInv
  BY <1>2 DEF Init, PlacesInv, PairInv, Writing, Processes
<1> QED
  BY <1>1, <1>3 DEF BaseInv

LEMMA BaseInvKept == BaseInv /\ [Next]_vars => BaseInv'
<1> SUFFICES ASSUME BaseInv, [Next]_vars
             PROVE  BaseInv'
  OBVIOUS
<1>0. TypeOK /\ PlacesInv /\ PairInv /\ Torn \in Content /\ Absent \in Content
  BY DEF BaseInv, Content, Absent
<1>1. ASSUME NEW p \in Processes, EnsureStep(p)
      PROVE  BaseInv'
  <2>1. /\ gen' \in [Processes -> Progress]
        /\ gen'[Other(p)] = gen[Other(p)]
        /\ UNCHANGED <<trusted, script, svc, marked, stuck, installed, removed>>
        /\ Reads(p) \/ Matches(p) \/ Makes(p) \/ Writes(p) \/ Fails(p)
    BY <1>0, <1>1, StepOfEnsure
  <2>2. gen[p].cert \in Nat /\ gen[p].key \in Nat
    BY <1>0 DEF TypeOK, Progress
  <2>3. pairs' \in Nat /\ cert' \in Content /\ key' \in Content
    <3>1. pairs \in Nat /\ cert \in Content /\ key \in Content /\ pairs + 1 \in Nat
          /\ gen[p].cert \in Content /\ gen[p].key \in Content
      BY <1>0, <2>2 DEF TypeOK, Content
    <3>2. cert' \in {cert, Torn, gen[p].cert} /\ key' \in {key, Torn, gen[p].key} /\ pairs' \in {pairs, pairs + 1}
      BY <2>1 DEF Reads, Matches, Makes, Writes, Fails
    <3> QED
      BY <1>0, <3>1, <3>2
  <2>4. TypeOK'
    BY <1>0, <2>1, <2>3 DEF TypeOK
  <2>5. gen[p].at \notin {"out", "ready"} /\ gen'[p].at # "out"
    BY <2>1 DEF Reads, Matches, Makes, Writes, Fails
  <2>6. PlacesInv'
    BY <1>0, <2>1, <2>5, Others DEF PlacesInv
  <2>7. Writing(p)' => gen'[p].cert = gen'[p].key /\ gen'[p].cert # 0
    <3>1. Writing(p) => gen[p].cert = gen[p].key /\ gen[p].cert # 0
      BY <1>0 DEF PairInv
    <3>2. pairs + 1 # 0
      BY <1>0 DEF TypeOK
    <3> QED
      BY <2>1, <3>1, <3>2 DEF Reads, Matches, Makes, Writes, Fails, Writing
  <2>8. ASSUME NEW q \in Processes, q # p
        PROVE  Writing(q)' => gen'[q].cert = gen'[q].key /\ gen'[q].cert # 0
    <3>1. gen'[q] = gen[q]
      BY <2>1, <2>8, Others
    <3> QED
      BY <1>0, <3>1 DEF PairInv, Writing
  <2>9. PairInv'
    BY <2>7, <2>8 DEF PairInv
  <2> QED
    BY <2>4, <2>6, <2>9 DEF BaseInv
<1>2. CASE ServiceStep
  <2>1. /\ gen' \in [Processes -> Progress]
        /\ gen'["init"] = gen["init"]
        /\ UNCHANGED <<cert, key, trusted, script, pairs, stuck, installed, removed, own>>
        /\ Starts \/ Advances \/ Ends
    BY <1>2, StepOfService
  <2>2. TypeOK'
    BY <1>0, <2>1 DEF TypeOK, Starts, Advances, Ends, Gone
  <2>3. PlacesInv'
    BY <1>0, <2>1 DEF PlacesInv, Starts, Advances, Ends, Gone, Running
  <2>4. PairInv'
    BY <1>0, <2>1, Others DEF PairInv, Starts, Advances, Ends, Writing
  <2> QED
    BY <2>2, <2>3, <2>4 DEF BaseInv
<1>3. CASE ScriptStep
  <2>1. /\ gen' \in [Processes -> Progress]
        /\ gen'["svc"] = gen["svc"]
        /\ \/ gen'["init"] = gen["init"]
           \/ script = "copy" /\ script' = "init" /\ gen'["init"].at = "ensure"
           \/ gen'["init"].at = "out"
        /\ cert' \in {cert, Absent} /\ key' \in {key, Absent}
        /\ UNCHANGED pairs
    BY <1>3, StepOfScript
  <2>2. /\ svc' \in {"none", "stopped", "loading", "serving", "stopping"}
        /\ svc' \in {"none", "stopped"} => gen["svc"].at = "out"
        /\ svc' \in {"serving", "stopping"} => gen["svc"].at = "ready"
    BY <1>0, <1>3 DEF TypeOK, PlacesInv, ScriptStep, StartInstall, CopyExe, InitEnds, ImportCertificate,
       ReplaceService, NewService, GiveUp, Abort, StartUninstall, Untrust, DeleteData, Lose, StopAndDelete
  <2>3. /\ script' \in {"idle", "copy", "init", "import", "replace", "register", "untrust", "delete"}
        /\ installed' \in BOOLEAN
        /\ script' # "idle" => ~installed'
        /\ script' # "init" => script # "init" \/ gen'["init"].at = "out"
    <3>1. "init" \in Processes /\ Out.at = "out" /\ gen \in [Processes -> Progress]
      BY <1>0 DEF Processes, Out, TypeOK
    <3>2. CASE InitEnds \/ Abort
      <4>1. gen'["init"] = Out /\ installed' = installed /\ script # "idle"
            /\ script' \in {"idle", "import"}
        BY <1>0, <3>1, <3>2 DEF InitEnds, Abort, histories
      <4> QED
        BY <1>0, <3>1, <4>1 DEF TypeOK, PlacesInv
    <3>3. CASE StartInstall \/ NewService \/ StartUninstall
      BY <1>0, <3>3 DEF TypeOK, PlacesInv, StartInstall, NewService, StartUninstall
    <3>6. CASE CopyExe
      <4>1. script = "copy" /\ script' = "init" /\ installed' = installed
        BY <3>6 DEF CopyExe
      <4> QED
        BY <1>0, <4>1 DEF TypeOK, PlacesInv
    <3>4. CASE ImportCertificate \/ ReplaceService \/ GiveUp
      BY <1>0, <3>4 DEF TypeOK, PlacesInv, ImportCertificate, ReplaceService, GiveUp, histories
    <3>5. CASE Untrust \/ DeleteData \/ Lose
      BY <1>0, <3>5 DEF TypeOK, PlacesInv, Untrust, DeleteData, Lose
    <3> QED
      BY <1>3, <3>2, <3>3, <3>4, <3>5, <3>6 DEF ScriptStep
  <2>4. TypeOK'
    BY <1>0, <2>1, <2>2, <2>3 DEF TypeOK
  <2>5. PlacesInv'
    BY <1>0, <2>1, <2>2, <2>3 DEF PlacesInv
  <2>6. PairInv'
    <3>1. ASSUME NEW q \in Processes
          PROVE  Writing(q)' => gen'[q].cert = gen'[q].key /\ gen'[q].cert # 0
      BY <1>0, <2>1, Others DEF PairInv, Writing
    <3> QED
      BY <3>1 DEF PairInv
  <2> QED
    BY <2>4, <2>5, <2>6 DEF BaseInv
<1>4. CASE UNCHANGED vars
  BY <1>0, <1>4 DEF vars, files, histories, BaseInv, TypeOK, PlacesInv, PairInv, Writing
<1> QED
  BY <1>1, <1>2, <1>3, <1>4, NextIs

-----------------------------------------------------------------------------
(* Trust *)

After == script \in {"init", "import", "replace", "register"} \/ installed

(* From -init-ca on, what the service writes is its own; from the import   *)
(* on, so is a certificate on file that is not trusted, and what the       *)
(* service then has read of it.                                            *)
TrustInv ==
  /\ After /\ Writing("svc") => gen["svc"].cert \in own
  /\ script \in {"replace", "register"} \/ installed => cert \in {Absent, Torn} \cup trusted \cup own
  /\ installed /\ gen["svc"].at \in {"load", "ready"} => gen["svc"].cert \in trusted \cup own

LEMMA TrustInvKept == BaseInv /\ TrustInv /\ [Next]_vars => TrustInv'
<1> SUFFICES ASSUME BaseInv, TrustInv, [Next]_vars
             PROVE  TrustInv'
  OBVIOUS
<1>0. TypeOK /\ PlacesInv /\ "svc" \in Processes /\ "init" \in Processes
  BY DEF BaseInv, Processes
<1>1. ASSUME NEW p \in Processes, EnsureStep(p)
      PROVE  TrustInv'
  <2>1. /\ gen'[Other(p)] = gen[Other(p)]
        /\ UNCHANGED <<trusted, script, svc, marked, stuck, installed, removed>>
        /\ Reads(p) \/ Matches(p) \/ Makes(p) \/ Writes(p) \/ Fails(p)
    BY <1>0, <1>1, StepOfEnsure
  <2>2. own \subseteq own' /\ (After' <=> After)
    BY <2>1 DEF Reads, Matches, Makes, Writes, Fails, After
  <2>3. CASE p = "svc"
    <3> USE DEF TrustInv, Writing, After
    <3>1. Reads("svc") \/ Matches("svc") \/ Makes("svc") \/ Writes("svc") \/ Fails("svc")
      BY <2>1, <2>3
    <3>2. CASE Reads("svc")
      BY <2>1, <3>1, <3>2 DEF Reads, Absent, Torn
    <3>3. CASE Matches("svc")
      BY <2>1, <3>1, <3>3 DEF Matches
    <3>4. CASE Makes("svc")
      BY <2>1, <3>1, <3>4 DEF Makes
    <3>5. CASE Writes("svc")
      BY <2>1, <3>1, <3>5 DEF Writes
    <3>6. CASE Fails("svc")
      BY <2>1, <3>1, <3>6 DEF Fails
    <3> QED
      BY <3>1, <3>2, <3>3, <3>4, <3>5, <3>6
  <2>4. CASE p = "init"
    <3>1. gen'["svc"] = gen["svc"]
      BY <2>1, <2>4 DEF Other
    <3>2. script = "init" /\ ~installed
      BY <1>0, <2>1, <2>4 DEF PlacesInv, Reads, Matches, Makes, Writes, Fails
    <3> QED
      BY <2>1, <2>2, <3>1, <3>2 DEF TrustInv, Writing
  <2> QED
    BY <2>3, <2>4 DEF Processes
<1>2. CASE ServiceStep
  <2>1. /\ UNCHANGED <<cert, key, trusted, script, pairs, stuck, installed, removed, own>>
        /\ gen'["svc"] = gen["svc"] \/ gen'["svc"].at \in {"out", "ensure"}
    BY <1>2, StepOfService DEF Starts, Advances, Ends
  <2> QED
    BY <2>1 DEF TrustInv, Writing, After
<1>3. CASE ScriptStep
  <2>1. gen'["svc"] = gen["svc"] /\ cert' \in {cert, Absent}
    BY <1>3, StepOfScript
  <2>2. CASE CopyExe
    <3>1. script' = "init" /\ ~installed' /\ gen["svc"].at = "out"
      BY <1>0, <2>2 DEF CopyExe, PlacesInv
    <3> QED
      BY <2>1, <3>1 DEF TrustInv, Writing
  <2>3. CASE ImportCertificate
    <3>1. /\ script = "import" /\ script' = "replace" /\ ~installed' /\ trusted' = trusted \cup {cert}
          /\ UNCHANGED <<cert, own>>
      BY <1>0, <2>3 DEF ImportCertificate, PlacesInv, histories, files
    <3> QED
      BY <2>1, <3>1 DEF TrustInv, Writing, After
  <2>4. CASE NewService
    <3>1. script = "register" /\ installed' /\ gen["svc"].at = "out" /\ UNCHANGED <<cert, trusted, own>>
      BY <1>0, <2>4 DEF NewService, PlacesInv, files
    <3> QED
      BY <2>1, <3>1 DEF TrustInv, Writing, After
  <2>5. CASE StartInstall \/ StartUninstall \/ Untrust \/ DeleteData
    <3>1. ~installed' /\ script' \in {"copy", "untrust", "delete", "idle"}
      BY <1>0, <2>5 DEF StartInstall, StartUninstall, Untrust, DeleteData, PlacesInv
    <3> QED
      BY <3>1 DEF TrustInv, After
  <2>6. CASE InitEnds \/ ReplaceService \/ GiveUp \/ Abort \/ Lose
    <3>1. /\ UNCHANGED <<trusted, own, installed>>
          /\ \/ script' \in {"idle", script}
             \/ script = "init" /\ script' = "import"
             \/ script = "replace" /\ script' = "register"
      BY <2>6 DEF InitEnds, ReplaceService, GiveUp, Abort, Lose, histories
    <3> QED
      BY <2>1, <3>1 DEF TrustInv, Writing, After
  <2> QED
    BY <1>3, <2>2, <2>3, <2>4, <2>5, <2>6 DEF ScriptStep
<1>4. CASE UNCHANGED vars
  BY <1>4 DEF vars, files, histories, TrustInv, Writing, After
<1> QED
  BY <1>1, <1>2, <1>3, <1>4, NextIs

-----------------------------------------------------------------------------
(* Keys *)

Known(c, k) == c = k \/ c \in disturbed \/ k \in disturbed

Between(p) == gen[p].at = "key" /\ gen[p].cert = cert

(* A certificate and a key on file, or in the hands of a process that has  *)
(* read one or both, are a pair or were disturbed; a writer between its    *)
(* certificate and its key is the only exception, and whoever meets it     *)
(* disturbs its pair.                                                      *)
FilesMatch ==
  cert \notin {Absent, Torn} /\ key \notin {Absent, Torn} =>
    Known(cert, key) \/ \E p \in Processes : Between(p)

HoldsMatch(p) ==
  /\ gen[p].at = "load" => key \in {Absent, Torn} \/ Known(gen[p].cert, key)
  /\ gen[p].at = "load" /\ Writing(Other(p)) => gen[Other(p)].cert \in disturbed
  /\ Writing(p) /\ Writing(Other(p)) => gen[p].cert \in disturbed
  /\ gen[p].at \in {"key", "fill key"} => cert \in {gen[p].cert, Absent} \/ gen[p].cert \in disturbed
  /\ gen[p].at = "ready" => Known(gen[p].cert, gen[p].key)

MatchInv == FilesMatch /\ \A p \in Processes : HoldsMatch(p)

(* p stays where it is, or goes, and nothing is written. *)
Rests(p) ==
  /\ gen'[Other(p)] = gen[Other(p)]
  /\ \/ gen'[p] = gen[p]
     \/ gen'[p].at \in {"out", "ensure"} /\ disturbed \cup Begun(p) \subseteq disturbed'
  /\ disturbed \subseteq disturbed'
  /\ cert' \in {cert, Absent} /\ key' \in {key, Absent}

LEMMA MatchInvKept == BaseInv /\ MatchInv /\ [Next]_vars => MatchInv'
<1> SUFFICES ASSUME BaseInv, MatchInv, [Next]_vars
             PROVE  MatchInv'
  OBVIOUS
<1>0. TypeOK /\ PlacesInv /\ PairInv /\ "svc" \in Processes /\ "init" \in Processes
  BY DEF BaseInv, Processes
<1>1. ASSUME NEW p \in Processes, EnsureStep(p)
      PROVE  MatchInv'
  <2> DEFINE q == Other(p)
  <2>0. q \in Processes /\ q # p /\ Other(q) = p /\ \A r \in Processes : r = p \/ r = q
    BY Others
  <2>1. /\ gen'[q] = gen[q]
        /\ Reads(p) \/ Matches(p) \/ Makes(p) \/ Writes(p) \/ Fails(p)
    BY <1>0, <1>1, StepOfEnsure
  <2>2. HoldsMatch(p) /\ HoldsMatch(q) /\ FilesMatch
    BY <2>0 DEF MatchInv
  <2>3. FilesMatch => cert \in {Absent, Torn} \/ key \in {Absent, Torn} \/ Known(cert, key) \/ Between(p) \/ Between(q)
    BY <2>0 DEF FilesMatch
  <2>4. SUFFICES /\ cert' \notin {Absent, Torn} /\ key' \notin {Absent, Torn} =>
                      Known(cert, key)' \/ Between(p)' \/ Between(q)'
                 /\ HoldsMatch(p)' /\ HoldsMatch(q)'
    BY <2>0 DEF MatchInv, FilesMatch
  <2>5. (Writing(p) => gen[p].cert = gen[p].key) /\ (Writing(q) => gen[q].cert = gen[q].key)
    BY <1>0, <2>0 DEF PairInv
  <2>6. disturbed \subseteq disturbed'
    BY <2>1 DEF Reads, Matches, Makes, Writes, Fails
  <2> HIDE DEF q
  <2> USE DEF HoldsMatch, Known, Between, Writing, Begun
  <2>7. CASE Reads(p)
    <3>1. cert' \notin {Absent, Torn} /\ key' \notin {Absent, Torn} =>
             Known(cert, key)' \/ Between(p)' \/ Between(q)'
      BY <2>1, <2>2, <2>3, <2>6, <2>7 DEF Reads
    <3>2. HoldsMatch(p)'
      <4>1. gen'[p].at = "load" /\ gen'[p].cert = cert /\ key' = key /\ Begun(q) \subseteq disturbed'
        BY <2>7 DEF Reads, q
      <4>2. cert \notin {Absent, Torn}
        BY <2>7, NotTorn DEF Reads
      <4>3. Between(q) => cert \in disturbed'
        <5>1. Between(q) => Begun(q) = {cert}
          OBVIOUS
        <5> QED
          BY <4>1, <5>1
      <4>4. ~Between(p)
        BY <2>7 DEF Reads
      <4>5. key \in {Absent, Torn} \/ Known(gen[p].cert, key)'
        BY <2>2, <2>3, <2>6, <4>1, <4>2, <4>3, <4>4
      <4>6. Writing(q)' => gen'[q].cert \in disturbed'
        BY <2>1, <4>1
      <4> QED
        BY <2>0, <4>1, <4>5, <4>6 DEF q
    <3>3. HoldsMatch(q)'
      BY <2>0, <2>1, <2>2, <2>6, <2>7 DEF Reads
    <3> QED
      BY <3>1, <3>2, <3>3
  <2>8. CASE Matches(p)
    <3>1. cert' \notin {Absent, Torn} /\ key' \notin {Absent, Torn} =>
             Known(cert, key)' \/ Between(p)' \/ Between(q)'
      BY <2>1, <2>2, <2>3, <2>6, <2>8 DEF Matches
    <3>2. HoldsMatch(p)'
      <4>1. gen[p].at = "load" /\ gen'[p].at = "ready" /\ gen'[p].cert = gen[p].cert /\ gen'[p].key = key
        BY <2>8 DEF Matches
      <4>2. key \notin {Absent, Torn} /\ disturbed' = disturbed
        BY <2>8, NotTorn DEF Matches
      <4> QED
        BY <2>2, <4>1, <4>2
    <3>3. HoldsMatch(q)'
      BY <2>0, <2>1, <2>2, <2>6, <2>8 DEF Matches
    <3> QED
      BY <3>1, <3>2, <3>3
  <2>9. CASE Makes(p)
    BY <2>0, <2>1, <2>2, <2>3, <2>6, <2>9 DEF Makes, q
  <2>10. CASE Writes(p)
    BY <2>0, <2>1, <2>2, <2>3, <2>5, <2>6, <2>10 DEF Writes, q
  <2>11. CASE Fails(p)
    BY <2>0, <2>1, <2>2, <2>3, <2>6, <2>11 DEF Fails, q
  <2> QED
    BY <2>1, <2>7, <2>8, <2>9, <2>10, <2>11
(* A process that goes leaves what it was writing disturbed. *)
<1>2. ASSUME NEW p \in Processes, Rests(p)
      PROVE  MatchInv'
  <2> DEFINE q == Other(p)
  <2>0. q \in Processes /\ q # p /\ Other(q) = p /\ \A r \in Processes : r = p \/ r = q
    BY Others
  <2>6. gen'[q] = gen[q] /\ q = Other(p)
    BY <1>2 DEF Rests
  <2>1. HoldsMatch(p) /\ HoldsMatch(q) /\ FilesMatch
    BY <2>0 DEF MatchInv
  <2>2. cert \in {Absent, Torn} \/ key \in {Absent, Torn} \/ Known(cert, key) \/ Between(p) \/ Between(q)
    BY <2>0, <2>1 DEF FilesMatch
  <2> HIDE DEF q
  <2> USE DEF HoldsMatch, Known, Between, Writing, Begun
  <2>3. cert' \notin {Absent, Torn} /\ key' \notin {Absent, Torn} =>
           Known(cert, key)' \/ Between(p)' \/ Between(q)'
    BY <1>2, <2>2, <2>6 DEF Rests
  <2>4. HoldsMatch(p)'
    BY <1>2, <2>0, <2>1, <2>6 DEF Rests
  <2>5. HoldsMatch(q)'
    BY <1>2, <2>0, <2>1, <2>6 DEF Rests
  <2> HIDE DEF HoldsMatch, Known, Between
  <2> QED
    BY <2>0, <2>3, <2>4, <2>5 DEF MatchInv, FilesMatch
<1>3. CASE ServiceStep
  <2>1. Rests("svc")
    <3>1. svc = "stopped" => Begun("svc") = {}
      BY <1>0 DEF PlacesInv, Begun, Writing
    <3> QED
      BY <1>3, <3>1, StepOfService DEF Starts, Advances, Ends, Rests, Other
  <2> QED
    BY <1>0, <1>2, <2>1
<1>4. CASE ScriptStep
  <2>1. Rests("init")
    <3>1. script = "copy" => Begun("init") = {}
      BY <1>0 DEF PlacesInv, Begun, Writing
    <3> QED
      BY <1>4, <3>1, StepOfScript DEF Rests, Other
  <2> QED
    BY <1>0, <1>2, <2>1
<1>5. CASE UNCHANGED vars
  BY <1>5 DEF vars, files, histories, MatchInv, FilesMatch, HoldsMatch, Known, Between, Writing
<1> QED
  BY <1>1, <1>3, <1>4, <1>5, NextIs

-----------------------------------------------------------------------------
(* One CA *)

(* Only a running service is marked, while a script has it deleted. *)
MarkedInv ==
  /\ marked => svc \in Running
  /\ script \in {"init", "import", "replace"} => ~marked
  /\ script \in {"untrust", "delete"} => svc = "none" \/ marked

Settled == cert \notin {Absent, Torn} /\ key \notin {Absent, Torn}

(* Without damage a CA is made only where none is trusted: with no         *)
(* certificate on file, by -init-ca while there is no service, or by a     *)
(* service that is about to go.                                            *)
Undamaged ==
  /\ stuck = {}
  /\ trusted \subseteq {cert} /\ Absent \notin trusted
  /\ script = "delete" => trusted = {}
  /\ Settled \/ cert = Absent \/ Writing("init") \/ Writing("svc")
  /\ svc # "none" /\ ~marked => Settled
  /\ script \in {"import", "replace", "register"} => Settled
  /\ Writing("svc") => trusted = {} /\ marked /\ script # "register"
  /\ Writing("init") => trusted = {} /\ svc = "none"
  /\ \A p \in Processes : gen[p].at \in {"key", "fill key"} => cert \in {gen[p].cert, Absent}

OnceInv == MarkedInv /\ (~damaged => Undamaged)

LEMMA MarkedInvKept == BaseInv /\ MarkedInv /\ [Next]_vars => MarkedInv'
<1> SUFFICES ASSUME BaseInv, MarkedInv, [Next]_vars
             PROVE  MarkedInv'
  OBVIOUS
<1>0. TypeOK /\ PlacesInv
  BY DEF BaseInv
<1>1. ASSUME NEW p \in Processes, EnsureStep(p)
      PROVE  MarkedInv'
  <2>1. UNCHANGED <<script, svc, marked>>
    BY <1>0, <1>1, StepOfEnsure
  <2> QED
    BY <2>1 DEF MarkedInv
<1>2. CASE ServiceStep
  <2>1. script' = script /\ (Starts \/ Advances \/ Ends)
    BY <1>2, StepOfService
  <2> QED
    BY <1>0, <2>1 DEF MarkedInv, Starts, Advances, Ends, Gone, Running, TypeOK
<1>3. CASE ReplaceService \/ StartUninstall
  <2>1. StopAndDelete /\ script' \in {"register", "untrust"}
    BY <1>3 DEF ReplaceService, StartUninstall
  <2> QED
    BY <1>0, <2>1 DEF StopAndDelete, MarkedInv, Running, TypeOK
<1>4. CASE CopyExe
  BY <1>4 DEF CopyExe, MarkedInv, Running
<1>5. CASE NewService
  BY <1>5 DEF NewService, MarkedInv, Running
<1>6. CASE StartInstall \/ InitEnds \/ ImportCertificate \/ GiveUp \/ Abort
  <2>1. /\ UNCHANGED <<svc, marked>>
        /\ \/ script' \in {"copy", "idle"}
           \/ script = "init" /\ script' = "import"
           \/ script = "import" /\ script' = "replace"
    BY <1>6 DEF StartInstall, InitEnds, ImportCertificate, GiveUp, Abort
  <2> QED
    BY <2>1 DEF MarkedInv
<1>7. CASE Untrust \/ DeleteData \/ Lose
  <2>1. /\ UNCHANGED <<svc, marked>>
        /\ script' \in {script, "idle"} \/ (script = "untrust" /\ script' = "delete")
    BY <1>7 DEF Untrust, DeleteData, Lose
  <2> QED
    BY <2>1 DEF MarkedInv
<1>8. CASE UNCHANGED vars
  BY <1>8 DEF vars, MarkedInv
<1> QED
  BY <1>1, <1>2, <1>3, <1>4, <1>5, <1>6, <1>7, <1>8, NextIs DEF ScriptStep

LEMMA OnceInvKept == BaseInv /\ OnceInv /\ [Next]_vars => OnceInv'
<1> SUFFICES ASSUME BaseInv, MarkedInv, ~damaged => Undamaged, [Next]_vars, ~damaged'
             PROVE  Undamaged'
  BY MarkedInvKept DEF OnceInv
<1>0. TypeOK /\ PlacesInv /\ PairInv /\ "svc" \in Processes /\ "init" \in Processes
  BY DEF BaseInv, Processes
<1>1. ASSUME NEW p \in Processes, EnsureStep(p)
      PROVE  Undamaged'
  <2>1. /\ gen'[Other(p)] = gen[Other(p)] /\ p \in {"init", "svc"}
        /\ UNCHANGED <<trusted, script, svc, marked, stuck, installed, removed>>
        /\ Reads(p) \/ Matches(p) \/ Makes(p) \/ Writes(p) \/ Fails(p)
    BY <1>0, <1>1, StepOfEnsure DEF Processes
  <2>2. Undamaged
    <3>1. damaged => damaged'
      BY <2>1 DEF Reads, Matches, Makes, Writes, Fails
    <3> QED
      BY <3>1
  (* The two never write at once. *)
  <2>3. Writing("init") => ~Writing("svc")
    BY <1>0, <2>2 DEF Undamaged, PlacesInv, Writing
  <2>4. CASE Reads(p) \/ Matches(p) \/ Fails(p)
    <3>1. /\ ~Writing(p) /\ ~Writing(p)' /\ gen'[p].at \notin {"key", "fill key"} /\ UNCHANGED <<cert, key>>
      BY <2>4 DEF Reads, Matches, Fails, Writing
    <3>2. (Writing("svc")' <=> Writing("svc")) /\ (Writing("init")' <=> Writing("init"))
      BY <2>1, <3>1 DEF Other, Writing
    <3>3. \A q \in Processes : gen'[q].at \in {"key", "fill key"} => cert \in {gen'[q].cert, Absent}
      BY <2>1, <2>2, <3>1, Others DEF Undamaged
    <3> QED
      BY <2>1, <2>2, <3>1, <3>2, <3>3 DEF Undamaged, Settled
  <2>5. CASE Makes(p)
    <3>1. /\ gen[p].at = "ensure" /\ gen'[p].at = "cert" /\ ~Settled /\ UNCHANGED <<cert, key>>
      BY <2>5 DEF Makes, Settled
    <3>2. p = "svc" => marked /\ script # "register" /\ ~Writing("init")
      BY <1>0, <2>2, <3>1 DEF Undamaged, PlacesInv
    <3>3. p = "init" => svc = "none" /\ ~Writing("svc")
      BY <1>0, <2>2, <3>1 DEF Undamaged, PlacesInv, MarkedInv
    <3>4. cert = Absent /\ trusted = {}
      BY <2>1, <2>2, <3>1, <3>2, <3>3 DEF Undamaged, Writing
    <3>5. Writing(p)' /\ ~Writing(Other(p))'
      BY <2>1, <3>1, <3>2, <3>3 DEF Other, Writing
    <3>6. \A q \in Processes : gen'[q].at \notin {"key", "fill key"}
      BY <2>1, <3>1, <3>5, Others DEF Writing
    <3> QED
      BY <2>1, <2>2, <3>1, <3>2, <3>3, <3>4, <3>5, <3>6 DEF Undamaged, Settled, Other
  <2>6. CASE Writes(p)
    <3>1. Writing(p) /\ ~Writing(Other(p)) /\ ~Writing(Other(p))'
      BY <2>1, <2>3, <2>6 DEF Writes, Writing, Other
    <3>2. /\ trusted = {}
          /\ p = "svc" => marked /\ script \notin {"init", "import", "replace", "register"}
          /\ p = "init" => svc = "none" /\ script = "init"
      BY <1>0, <2>1, <2>2, <3>1 DEF Undamaged, MarkedInv, PlacesInv, Writing
    <3>3. gen[p].cert \notin {Absent, Torn} /\ gen[p].key = gen[p].cert
      BY <1>0, <3>1, NotTorn DEF PairInv, TypeOK, Progress
    <3>4. /\ gen'[p].at \in {"key", "fill key", "ready"} => cert' \in {gen'[p].cert, Absent}
          /\ gen'[p].at = "ready" => key' = gen[p].cert
          /\ Writing(p)' \/ gen'[p].at = "ready"
          /\ gen'[p].cert = gen[p].cert
      BY <2>2, <2>6, <3>3 DEF Writes, Undamaged, Writing
    <3>5. Settled' \/ cert' = Absent \/ Writing(p)'
      BY <3>3, <3>4 DEF Settled
    <3>6. \A q \in Processes : gen'[q].at \in {"key", "fill key"} => cert' \in {gen'[q].cert, Absent}
      BY <3>1, <3>4, Others DEF Writing
    <3>7. (Writing("svc")' => p = "svc") /\ (Writing("init")' => p = "init")
      BY <2>1, <3>1 DEF Other
    <3> QED
      BY <2>1, <2>2, <3>2, <3>5, <3>6, <3>7 DEF Undamaged
  <2> QED
    BY <2>1, <2>4, <2>5, <2>6
<1>2. CASE ServiceStep
  <2>1. /\ gen'["init"] = gen["init"]
        /\ UNCHANGED <<cert, key, trusted, script, stuck>>
        /\ Starts \/ Advances \/ Ends
    BY <1>2, StepOfService
  <2>2. Undamaged /\ (Ends => ~Writing("svc"))
    BY <2>1 DEF Starts, Advances, Ends
  <2>3. /\ Writing("svc")' <=> Writing("svc")
        /\ gen'["svc"].at \in {"key", "fill key"} => gen'["svc"] = gen["svc"]
    BY <1>0, <2>1, <2>2 DEF Starts, Advances, Ends, Writing, PlacesInv
  <2>4. /\ svc' # "none" /\ ~marked' => svc # "none" /\ ~marked
        /\ svc = "none" => svc' = "none"
        /\ Writing("svc") => marked'
    BY <2>1, <2>2 DEF Starts, Advances, Ends, Gone, Running, Undamaged
  <2>5. \A q \in Processes : gen'[q].at \in {"key", "fill key"} => cert \in {gen'[q].cert, Absent}
    BY <2>1, <2>2, <2>3 DEF Undamaged, Processes
  <2> QED
    BY <2>1, <2>2, <2>3, <2>4, <2>5 DEF Undamaged, Settled, Writing
<1>3. CASE ScriptStep
  <2>1. /\ gen'["svc"] = gen["svc"] /\ cert' \in {cert, Absent} /\ key' \in {key, Absent}
        /\ \/ gen'["init"] = gen["init"]
           \/ gen'["init"].at \in {"out", "ensure"}
    BY <1>3, StepOfScript
  <2>2. Undamaged
    BY <1>3 DEF ScriptStep, StartInstall, CopyExe, InitEnds, ImportCertificate, ReplaceService, NewService,
       GiveUp, Abort, StartUninstall, Untrust, DeleteData, Lose, CutShort, histories
  <2>3. /\ Writing("svc")' <=> Writing("svc")
        /\ Writing("init")' => Writing("init")
    BY <2>1 DEF Writing
  <2>4. \A q \in Processes : gen'[q].at \in {"key", "fill key"} => cert' \in {gen'[q].cert, Absent}
    BY <2>1, <2>2 DEF Undamaged, Processes
  <2>5. script # "init" => ~Writing("init")
    BY <1>0 DEF PlacesInv, Writing
  <2>6. script \in {"init", "import", "replace", "register"} => ~Writing("svc")
    BY <2>2 DEF Undamaged, MarkedInv
  <2>7. CASE StartInstall \/ GiveUp
    <3>1. /\ UNCHANGED <<cert, key, trusted, svc, marked, stuck, gen>> /\ script' \in {"copy", "idle"}
      BY <2>7 DEF StartInstall, GiveUp, files
    <3> QED
      BY <2>2, <2>4, <3>1 DEF Undamaged, Settled, Writing
  <2>8. CASE CopyExe
    <3>1. /\ UNCHANGED <<cert, key, trusted, svc, marked, stuck>> /\ script = "copy" /\ script' = "init"
          /\ svc \in {"none", "stopped"}
      BY <2>8 DEF CopyExe, files
    <3> QED
      BY <1>0, <2>2, <2>3, <2>4, <2>5, <3>1 DEF Undamaged, Settled
  <2>9. CASE InitEnds
    <3>1. /\ UNCHANGED <<cert, key, trusted, svc, marked, stuck>> /\ script = "init"
          /\ script' = IF cert = Absent THEN "idle" ELSE "import"
          /\ ~Writing("init")
      BY <2>9 DEF InitEnds, files, Writing
    <3> QED
      BY <2>2, <2>3, <2>4, <2>6, <3>1 DEF Undamaged, Settled
  <2>10. CASE ImportCertificate
    <3>1. /\ UNCHANGED <<cert, key, svc, marked, stuck>> /\ script = "import" /\ script' = "replace"
          /\ cert # Absent /\ trusted' = trusted \cup {cert}
      BY <2>10 DEF ImportCertificate, files
    <3> QED
      BY <2>2, <2>3, <2>4, <2>5, <2>6, <3>1 DEF Undamaged, Settled
  <2>11. CASE ReplaceService \/ StartUninstall
    <3>1. /\ UNCHANGED <<cert, key, trusted>> /\ stuck' = {} /\ StopAndDelete
          /\ \/ script = "replace" /\ script' = "register"
             \/ script = "idle" /\ script' = "untrust"
      BY <2>2, <2>11 DEF ReplaceService, StartUninstall, files, Undamaged
    <3>2. /\ svc' # "none" /\ ~marked' => FALSE
          /\ svc = "none" => svc' = "none"
          /\ Writing("svc") => marked'
      BY <1>0, <2>2, <3>1 DEF StopAndDelete, TypeOK, Undamaged, MarkedInv, Running
    <3> QED
      BY <2>2, <2>3, <2>4, <2>5, <2>6, <3>1, <3>2 DEF Undamaged, Settled
  <2>12. CASE NewService
    <3>1. /\ UNCHANGED <<cert, key, trusted, marked, stuck>> /\ script = "register" /\ script' = "idle"
      BY <2>12 DEF NewService, files
    <3> QED
      BY <2>2, <2>3, <2>4, <2>5, <2>6, <3>1 DEF Undamaged, Settled
  <2>13. CASE Abort
    <3>1. /\ UNCHANGED <<cert, key, trusted, svc, marked, stuck>> /\ script' = "idle" /\ ~Writing("init")
      BY <2>13 DEF Abort, CutShort, files
    <3> QED
      BY <2>2, <2>3, <2>4, <3>1 DEF Undamaged, Settled
  <2>14. CASE Untrust
    <3>1. /\ UNCHANGED <<cert, key, svc, marked, gen>> /\ script = "untrust"
          /\ trusted' \subseteq trusted /\ stuck' = stuck /\ script' \in {"untrust", "delete"}
          /\ script' = "delete" => trusted' \subseteq stuck
      BY <2>14 DEF Untrust, files
    <3> QED
      BY <2>2, <2>4, <3>1 DEF Undamaged, Settled, Writing
  <2>15. CASE DeleteData
    <3>1. /\ UNCHANGED <<trusted, svc, marked, gen, stuck>> /\ script = "delete" /\ script' = "idle"
          /\ cert' = Absent <=> key' = Absent
      <4>1. damaged' <=> damaged \/ ~(cert' = Absent <=> key' = Absent)
        BY <2>15, Zenon DEF DeleteData
      <4> QED
        BY <2>15, <4>1 DEF DeleteData
    <3>2. cert' = Absent \/ (cert' = cert /\ key' = key)
      BY <2>1, <3>1
    <3> QED
      BY <2>2, <2>4, <3>1, <3>2 DEF Undamaged, Settled, Writing, MarkedInv
  <2>16. CASE Lose
    BY <2>16 DEF Lose
  <2> QED
    BY <1>3, <2>7, <2>8, <2>9, <2>10, <2>11, <2>12, <2>13, <2>14, <2>15, <2>16 DEF ScriptStep
<1>4. CASE UNCHANGED vars
  BY <1>4 DEF vars, files, histories, Undamaged, Settled, Writing
<1> QED
  BY <1>1, <1>2, <1>3, <1>4, NextIs

-----------------------------------------------------------------------------

InstallInv == BaseInv /\ TrustInv /\ MatchInv /\ OnceInv

LEMMA InstallInvAlways == Spec => []InstallInv
<1>1. Init => InstallInv
  <2> SUFFICES ASSUME Init
               PROVE  InstallInv
    OBVIOUS
  <2>1. \A p \in Processes : gen[p].at = "out"
    BY DEF Init, Out
  <2>2. "svc" \in Processes /\ "init" \in Processes /\ script = "idle" /\ ~installed /\ cert = Absent
        /\ svc = "none" /\ ~marked /\ trusted = {} /\ stuck = {}
    BY DEF Init, Processes
  <2>3. TrustInv
    BY <2>1, <2>2 DEF TrustInv, Writing, After
  <2>4. MatchInv
    BY <2>1, <2>2 DEF MatchInv, FilesMatch, HoldsMatch, Writing
  <2>5. OnceInv
    BY <2>1, <2>2 DEF OnceInv, MarkedInv, Undamaged, Writing
  <2> QED
    BY <2>3, <2>4, <2>5, BaseInvInitially DEF InstallInv
<1>2. InstallInv /\ [Next]_vars => InstallInv'
  BY BaseInvKept, TrustInvKept, MatchInvKept, OnceInvKept DEF InstallInv
<1> QED
  BY <1>1, <1>2, PTL DEF Spec

(* The service an install registers serves a certificate its clients trust *)
(* or one the service made itself since the install's -init-ca began,      *)
(* through every order of the steps of the script and of both processes,   *)
(* every lost file and every failure (install.ps1:172-204, ca.go:51-59).   *)
THEOREM ServedIsTrusted == Spec => []ServedCertTrusted
<1>1. InstallInv => ServedCertTrusted
  BY DEF InstallInv, BaseInv, PlacesInv, TrustInv, ServedCertTrusted
<1> QED
  BY <1>1, InstallInvAlways, PTL

(* A CA that was written to the end, with nobody else in EnsureCA, is      *)
(* served with its own key (ca.go:168-222).                                *)
THEOREM ServedIsMatched == Spec => []ServedKeyMatches
<1>1. InstallInv => ServedKeyMatches
  <2> SUFFICES ASSUME InstallInv, svc = "serving"
               PROVE  Known(gen["svc"].cert, gen["svc"].key)
    BY DEF ServedKeyMatches, MintsLeaf, Known
  <2>1. gen["svc"].at = "ready" /\ "svc" \in Processes
    BY DEF InstallInv, BaseInv, PlacesInv, Processes
  <2> QED
    BY <2>1 DEF InstallInv, MatchInv, HoldsMatch
<1> QED
  BY <1>1, InstallInvAlways, PTL

(* As long as no file was lost, no write cut and no removal failed, at     *)
(* most one CA is trusted, however often the scripts run                   *)
(* (install.ps1:11, uninstall.ps1:75-96).                                  *)
THEOREM TrustedIsOne == Spec => []TrustedOnce
<1>1. InstallInv => TrustedOnce
  BY DEF InstallInv, OnceInv, Undamaged, TrustedOnce
<1> QED
  BY <1>1, InstallInvAlways, PTL
=============================================================================
