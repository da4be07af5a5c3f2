--------------------------------- MODULE PKI ---------------------------------
(***************************************************************************)
(* Starting up: internal/pki EnsureServerCert, with the four files of the  *)
(* serving identity, kept or generated on every start; WriteKubeconfig     *)
(* and its patch in cmd/apiserver; the loading of the key pair by Build;   *)
(* and kubelet-lite, which `make up` starts right after the apiserver.     *)
(* The apiserver may be killed between any two writes, and inside one:     *)
(* files are truncated first.  Certificates expire at any time, also while *)
(* they are being served; NotAfter is looked at when a start decides.      *)
(*                                                                         *)
(* A file is abstracted to the generation that wrote it; a certificate     *)
(* verifies against the CA of its own generation, and a key belongs to the *)
(* certificate of its own generation.                                      *)
(***************************************************************************)
EXTENDS Integers, Sequences

CONSTANTS
  MaxHosts,   \* number of different --bind-address values
  MaxChanges, \* bound: changes of the address, and expiries
  MaxCrash    \* bound: kills during start-up

ASSUME PKIAssumption == MaxHosts \in Nat \ {0} /\ MaxChanges \in Nat /\ MaxCrash \in Nat

\* In the order in which they are written.
Order == <<"caCrt", "caKey", "srvCrt", "srvKey">>
Files == {Order[i] : i \in DOMAIN Order}

Absent == 0
Torn == -1

VARIABLES
  disk,    \* generation in every file, Absent or Torn
  conf,    \* kubeconfig: generation of its CA or Absent; with a user or not;
           \* truncated, and what it had been
  gen,     \* generations so far
  hosts,   \* the address asked for at this start, 1 for the loopback
  issued,  \* the address of every generation
  expired, \* generations up to this one are past NotAfter
  pc,      \* the apiserver: "down", "write", "config", "patch", "build", "serve", "failed"
  next,    \* index in Order of the file to be written
  open,    \* a file has been truncated and is being written
  kubelet, \* kubelet-lite: "down", "start", "up", "exited"
  kca,     \* generation of the CA that it trusts
  changes, crashes,  \* so far
  checked,    \* history: expired, when the latest start decided
  keyExisted, \* history: a kill left an older or a torn server.key
  kgen, early \* history: gen when kubelet-lite read the kubeconfig; the
              \* apiserver had not written it in this start

certVars == <<disk, gen, issued, next>>
kubeletVars == <<kubelet, kca, kgen, early>>
boundVars == <<changes, crashes>>
vars == <<certVars, conf, hosts, expired, pc, open, kubeletVars, boundVars, checked, keyExisted>>

NoConf == [ca |-> Absent, user |-> FALSE, torn |-> FALSE]

Init ==
  /\ disk = [f \in Files |-> Absent] /\ conf = NoConf
  /\ gen = 0 /\ hosts = 1 /\ issued = << >> /\ expired = 0
  /\ pc = "down" /\ next = 1 /\ open = FALSE
  /\ kubelet = "down" /\ kca = Absent /\ kgen = 0 /\ early = FALSE
  /\ changes = 0 /\ crashes = 0 /\ checked = 0 /\ keyExisted = FALSE

-----------------------------------------------------------------------------
(* EnsureServerCert *)

\* loadCert succeeds and the certificate is in its validity period.
Usable(g) == g > 0 /\ g > expired

\* Every certificate has the loopback address, 1, and localhost.
Covers(g) == hosts = 1 \/ issued[g] = hosts

\* Mutant: the server's certificate is not verified against the CA.
MutValidWithoutCA(d) ==
  /\ Usable(d["caCrt"])
  /\ Usable(d["srvCrt"])
  /\ Covers(d["srvCrt"])

\* Certificates only: both load, are in date, the server's verifies against
\* the CA, and covers every host.
existingValid(d) ==
  /\ Usable(d["caCrt"])
  /\ Usable(d["srvCrt"])
  /\ d["srvCrt"] = d["caCrt"]
  /\ Covers(d["srvCrt"])

\* Mutant: only the key of the CA is looked for.
MutOnlyCAKey(d) == d["caKey"] # Absent

\* Keys: os.Stat finds them.
KeysPresent(d) == d["caKey"] # Absent /\ d["srvKey"] # Absent

Stopped == pc \in {"down", "failed"}

StartKeeps ==
  /\ Stopped
  /\ existingValid(disk) /\ KeysPresent(disk)
  /\ pc' = "config"
  /\ checked' = expired
  /\ UNCHANGED <<certVars, conf, hosts, expired, open, kubeletVars, boundVars, keyExisted>>

StartGenerates ==
  /\ Stopped
  /\ ~(existingValid(disk) /\ KeysPresent(disk))
  /\ gen' = gen + 1
  /\ issued' = Append(issued, hosts)
  /\ pc' = "write" /\ next' = 1
  /\ checked' = expired
  /\ UNCHANGED <<disk, conf, hosts, expired, open, kubeletVars, boundVars, keyExisted>>

\* writePEM: O_TRUNC, then the content.
Truncate ==
  /\ pc = "write"
  /\ ~open
  /\ disk' = [disk EXCEPT ![Order[next]] = Torn]
  /\ open' = TRUE
  /\ UNCHANGED <<conf, gen, issued, next, hosts, expired, pc, kubeletVars, boundVars,
                 checked, keyExisted>>

Fill ==
  /\ pc = "write"
  /\ open
  /\ disk' = [disk EXCEPT ![Order[next]] = gen]
  /\ open' = FALSE
  /\ IF next = Len(Order)
     THEN pc' = "config" /\ next' = 1 /\ keyExisted' = FALSE
     ELSE next' = next + 1 /\ UNCHANGED <<pc, keyExisted>>
  /\ UNCHANGED <<conf, gen, issued, hosts, expired, kubeletVars, boundVars, checked>>

-----------------------------------------------------------------------------
(* The rest of the apiserver's start *)

\* WriteKubeconfig, and patchKubeconfigForAnonymous: os.WriteFile twice.
TruncateConf ==
  /\ pc \in {"config", "patch"}
  /\ ~open
  /\ conf' = [conf EXCEPT !.torn = TRUE]
  /\ open' = TRUE
  /\ UNCHANGED <<certVars, hosts, expired, pc, kubeletVars, boundVars, checked, keyExisted>>

\* Mutant: a kubeconfig that exists is kept.
MutWriteKubeconfig ==
  /\ pc = "config"
  /\ open
  /\ conf' = [ca |-> IF conf.ca = Absent THEN disk["caCrt"] ELSE conf.ca,
              user |-> FALSE, torn |-> FALSE]
  /\ open' = FALSE /\ pc' = "patch"
  /\ UNCHANGED <<certVars, hosts, expired, kubeletVars, boundVars, checked, keyExisted>>

WriteKubeconfig ==
  /\ pc = "config"
  /\ open
  /\ conf' = [ca |-> disk["caCrt"], user |-> FALSE, torn |-> FALSE]
  /\ open' = FALSE /\ pc' = "patch"
  /\ UNCHANGED <<certVars, hosts, expired, kubeletVars, boundVars, checked, keyExisted>>

\* The file was read before it was truncated.
PatchKubeconfig ==
  /\ pc = "patch"
  /\ open
  /\ conf' = [conf EXCEPT !.user = TRUE, !.torn = FALSE]
  /\ open' = FALSE /\ pc' = "build"
  /\ UNCHANGED <<certVars, hosts, expired, kubeletVars, boundVars, checked, keyExisted>>

\* Build: the key must belong to the certificate.
Build ==
  /\ pc = "build"
  /\ pc' = IF disk["srvKey"] = disk["srvCrt"] THEN "serve" ELSE "failed"
  /\ UNCHANGED <<certVars, conf, hosts, expired, open, kubeletVars, boundVars, checked, keyExisted>>

\* A start ends early.  Nothing is cleaned up.
Ends ==
  /\ crashes < MaxCrash
  /\ crashes' = crashes + 1
  /\ pc' = "down" /\ next' = 1 /\ open' = FALSE
  /\ keyExisted' = (keyExisted \/ (pc = "write" /\ disk["srvKey"] # Absent))
  /\ UNCHANGED <<disk, gen, issued, conf, hosts, expired, kubeletVars, changes, checked>>

Kill == pc \in {"write", "config", "patch", "build"} /\ Ends

\* A file cannot be written to its end, or Build cannot listen on the port.
RunFails == (open \/ pc = "build") /\ Ends

Shutdown ==
  /\ pc = "serve"
  /\ pc' = "down"
  /\ UNCHANGED <<certVars, conf, hosts, expired, open, kubeletVars, boundVars, checked, keyExisted>>

\* The next start asks for another address.
ChangeHosts ==
  /\ Stopped
  /\ changes < MaxChanges /\ changes' = changes + 1
  /\ hosts' \in 1 .. MaxHosts \ {hosts}
  /\ UNCHANGED <<certVars, conf, expired, pc, open, kubeletVars, crashes, checked,
                 keyExisted>>

\* Time passes, whatever the apiserver is doing.
Expire ==
  /\ changes < MaxChanges /\ changes' = changes + 1
  /\ expired' = gen
  /\ UNCHANGED <<certVars, conf, hosts, pc, open, kubeletVars, crashes, checked,
                 keyExisted>>

-----------------------------------------------------------------------------
(* kubelet-lite *)

\* dev.sh starts it after the apiserver, and waits for nothing.
StartKubelet ==
  /\ ~Stopped
  /\ kubelet \in {"down", "exited"}
  /\ kubelet' = "start"
  /\ UNCHANGED <<certVars, conf, hosts, expired, pc, open, kca, kgen, early, boundVars,
                 checked, keyExisted>>

\* BuildConfigFromFlags, once: the CA is kept for the life of the process.
KubeletLoads ==
  /\ kubelet = "start"
  /\ kubelet' = IF conf.ca = Absent \/ conf.torn THEN "exited" ELSE "up"
  /\ kca' = IF conf.torn THEN Absent ELSE conf.ca
  /\ kgen' = gen /\ early' = (pc \notin {"patch", "build", "serve"})
  /\ UNCHANGED <<certVars, conf, hosts, expired, pc, open, boundVars, checked, keyExisted>>

StopKubelet ==
  /\ kubelet = "up"
  /\ kubelet' = "down" /\ kca' = Absent /\ kgen' = 0 /\ early' = FALSE
  /\ UNCHANGED <<certVars, conf, hosts, expired, pc, open, boundVars, checked, keyExisted>>

Next ==
  \/ StartKeeps \/ StartGenerates \/ Truncate \/ Fill
  \/ TruncateConf \/ WriteKubeconfig \/ PatchKubeconfig \/ Build
  \/ Kill \/ RunFails \/ Shutdown \/ ChangeHosts \/ Expire
  \/ StartKubelet \/ KubeletLoads \/ StopKubelet

Spec == Init /\ [][Next]_vars

-----------------------------------------------------------------------------
(* Properties *)

\* Whatever kills and changes have left on disk, a server that serves has its
\* four files from one generation, for the address asked for, that was in date
\* when this start looked, and the kubeconfig is complete, trusts it, and has
\* the user without which kubectl prompts.  A server that goes on for the 365
\* days of its certificate serves it expired, until it is started again.
ServesValidCerts ==
  pc = "serve" =>
    /\ conf = [ca |-> disk["caCrt"], user |-> TRUE, torn |-> FALSE]
    /\ \A f \in Files : disk[f] = disk["caCrt"]
    /\ disk["srvCrt"] > checked
    /\ hosts \in {1, issued[disk["srvCrt"]]}

\* "Sanity-check that the matching keys are present too": a kill before
\* server.key is on disk is repaired by the next start.  Only a kill that
\* leaves an older or a torn server.key makes Build fail (then at every start,
\* for the same address and year), because the check is whether it exists.
RepairedUnlessKeyExisted ==
  pc = "failed" => keyExisted

\* A running kubelet-lite trusts the server, unless certificates were
\* generated after it had read the kubeconfig, or it read an older one because
\* the apiserver, started just before, had not come to writing its own.
KubeletTrustsServer ==
  kubelet = "up" /\ pc = "serve" /\ kgen = gen /\ ~early => kca = disk["caCrt"]
=============================================================================
