------------------------------ MODULE PKIProofs ------------------------------
(***************************************************************************)
(* Proofs about PKI, for every number of addresses, of changes and of      *)
(* kills: what a start finds on disk, whatever earlier starts have left.   *)
(***************************************************************************)
EXTENDS PKI, TLAPS

-----------------------------------------------------------------------------
(* The inductive invariant *)

Types ==
  /\ gen \in Nat
  /\ disk \in [Files -> Int]
  /\ \A f \in Files : disk[f] = Torn \/ disk[f] \in 0 .. gen
  /\ issued \in Seq(1 .. MaxHosts) /\ Len(issued) = gen
  /\ hosts \in 1 .. MaxHosts /\ expired \in 0 .. gen /\ checked \in 0 .. gen
  /\ next \in 1 .. 4
  /\ pc \in {"down", "write", "config", "patch", "build", "serve", "failed"}

\* While a new identity is being written the files before next have it, and
\* the others are of an earlier one.
WriteInv ==
  pc = "write" =>
    /\ gen > checked /\ issued[gen] = hosts
    /\ \A i \in 1 .. 4 : i < next => disk[Order[i]] = gen
    /\ \A i \in 1 .. 4 : i >= next => disk[Order[i]] < gen

\* The certificates on disk are of one generation.
Paired == disk["caCrt"] > 0 /\ disk["srvCrt"] = disk["caCrt"]

\* ca.key is written between them.
KeyBetween == Paired => disk["caKey"] = disk["caCrt"]

\* If they are kept, server.key is theirs, unless a kill left another one.
KeyFollows ==
  pc # "write" /\ Paired /\ disk["srvKey"] # Absent =>
    disk["srvKey"] = disk["srvCrt"] \/ keyExisted

\* From the decision to keep or the last write on, the certificates are a pair
\* for the address that had not expired when this start looked.
KeptInv ==
  pc \in {"config", "patch", "build", "serve"} =>
    Paired /\ disk["srvCrt"] > checked /\ Covers(disk["srvCrt"]) /\ KeysPresent(disk)

\* The kubeconfig is made from what is on disk.
ConfInv ==
  /\ pc = "patch" => \/ conf = [ca |-> disk["caCrt"], user |-> FALSE, torn |-> FALSE]
                    \/ conf = [ca |-> disk["caCrt"], user |-> FALSE, torn |-> TRUE]
  /\ pc \in {"build", "serve"} =>
       conf = [ca |-> disk["caCrt"], user |-> TRUE, torn |-> FALSE] /\ ~open

\* What Build has found out.
BuildInv ==
  /\ pc = "serve" => disk["srvKey"] = disk["srvCrt"]
  /\ pc = "failed" => keyExisted

\* kubelet-lite has read the kubeconfig of the present generation, or an
\* earlier one.
KubeletInv ==
  kubelet = "up" /\ ~early =>
    /\ kgen \in Nat /\ kgen <= gen
    /\ kgen = gen => pc # "write" /\ kca = disk["caCrt"]

PKIInv ==
  /\ Types /\ WriteInv /\ KeyBetween /\ KeyFollows /\ KeptInv /\ ConfInv /\ BuildInv
  /\ KubeletInv

-----------------------------------------------------------------------------
LEMMA FourFiles ==
  /\ Len(Order) = 4
  /\ Order[1] = "caCrt" /\ Order[2] = "caKey" /\ Order[3] = "srvCrt" /\ Order[4] = "srvKey"
  /\ Files = {"caCrt", "caKey", "srvCrt", "srvKey"}
<1>1. /\ Len(Order) = 4 /\ DOMAIN Order = 1 .. 4
      /\ Order[1] = "caCrt" /\ Order[2] = "caKey" /\ Order[3] = "srvCrt" /\ Order[4] = "srvKey"
  BY DEF Order
<1>2. 1 .. 4 = {1, 2, 3, 4} OBVIOUS
<1> QED BY <1>1, <1>2 DEF Files

LEMMA PKIInit == Init => PKIInv
<1> SUFFICES ASSUME Init PROVE PKIInv
  OBVIOUS
<1> USE FourFiles, PKIAssumption DEF Init, Absent, Torn, NoConf
<1>1. Types BY DEF Types
<1>2. WriteInv /\ KeyBetween /\ KeyFollows /\ KeptInv /\ ConfInv /\ BuildInv /\ KubeletInv
  BY DEF WriteInv, KeyBetween, KeyFollows, Paired, KeptInv, ConfInv, BuildInv, KubeletInv
<1> QED BY <1>1, <1>2 DEF PKIInv

LEMMA PKITypes ==
  ASSUME PKIInv, [Next]_vars
  PROVE  Types'
<1> USE FourFiles, PKIAssumption DEF PKIInv, Types, Absent, Torn
<1>1. CASE StartGenerates
  <2>1. issued' \in Seq(1 .. MaxHosts) /\ Len(issued') = gen + 1
    BY <1>1 DEF StartGenerates
  <2>2. /\ gen' = gen + 1 /\ pc' = "write" /\ next' = 1
        /\ disk' = disk /\ hosts' = hosts /\ expired' = expired
        /\ checked' = expired
    BY <1>1 DEF StartGenerates
  <2>3. gen' \in Nat /\ expired \in 0 .. gen + 1 BY <2>2
  <2>4. \A f \in Files : disk[f] = Torn \/ disk[f] \in 0 .. gen + 1 OBVIOUS
  <2> QED BY <2>1, <2>2, <2>3, <2>4
<1>2. CASE Truncate
  BY <1>2 DEF Truncate
<1>3. CASE Fill
  <2>1. /\ disk' = [disk EXCEPT ![Order[next]] = gen]
        /\ UNCHANGED <<gen, issued, hosts, expired, checked>>
    BY <1>3 DEF Fill
  <2>2. disk' \in [Files -> Int] BY <2>1
  <2>3. \A f \in Files : disk'[f] = Torn \/ disk'[f] \in 0 .. gen BY <2>1
  <2>4. next' \in 1 .. 4 /\ pc' \in {"write", "config"} BY <1>3 DEF Fill
  <2> QED BY <2>1, <2>2, <2>3, <2>4
<1>4. CASE ChangeHosts
  BY <1>4 DEF ChangeHosts, certVars
<1>5. CASE Expire
  BY <1>5 DEF Expire, certVars
<1>6. CASE StartKeeps \/ TruncateConf \/ WriteKubeconfig \/ PatchKubeconfig \/ Build
           \/ Kill \/ RunFails \/ Shutdown
  <2>1. /\ UNCHANGED <<disk, gen, issued, hosts, expired>> /\ next' \in 1 .. 4
        /\ checked' \in {checked, expired}
    BY <1>6 DEF StartKeeps, TruncateConf, WriteKubeconfig, PatchKubeconfig, Build, Kill,
                RunFails, Ends, Shutdown, certVars
  <2>2. pc' \in {"down", "write", "config", "patch", "build", "serve", "failed"}
    BY <1>6 DEF StartKeeps, TruncateConf, WriteKubeconfig, PatchKubeconfig, Build, Kill,
                RunFails, Ends, Shutdown
  <2> QED BY <2>1, <2>2
<1>7. CASE StartKubelet \/ KubeletLoads \/ StopKubelet
  BY <1>7 DEF StartKubelet, KubeletLoads, StopKubelet, certVars
<1>8. CASE UNCHANGED vars
  BY <1>8 DEF vars, certVars
<1> QED BY <1>1, <1>2, <1>3, <1>4, <1>5, <1>6, <1>7, <1>8 DEF Next

\* What neither the files nor the place of the start are changed by.
LEMMA PKIKept ==
  ASSUME PKIInv, UNCHANGED <<certVars, conf, hosts, pc, open, checked, keyExisted>>
  PROVE  WriteInv' /\ KeyBetween' /\ KeyFollows' /\ KeptInv' /\ ConfInv' /\ BuildInv'
BY DEF PKIInv, WriteInv, KeyBetween, KeyFollows, Paired, KeptInv, ConfInv, BuildInv, certVars,
       Covers, KeysPresent

\* os.WriteFile truncates and then writes.
LEMMA ConfTruncated ==
  ASSUME NEW a, NEW c, NEW y, y = [c EXCEPT !.torn = TRUE],
         \/ c = [ca |-> a, user |-> FALSE, torn |-> FALSE]
         \/ c = [ca |-> a, user |-> FALSE, torn |-> TRUE]
  PROVE  y = [ca |-> a, user |-> FALSE, torn |-> TRUE]
<1>1. CASE c = [ca |-> a, user |-> FALSE, torn |-> FALSE]
  BY <1>1
<1>2. CASE c = [ca |-> a, user |-> FALSE, torn |-> TRUE]
  BY <1>2
<1> QED BY <1>1, <1>2

LEMMA ConfPatched ==
  ASSUME NEW a, NEW c, NEW y, y = [c EXCEPT !.user = TRUE, !.torn = FALSE],
         \/ c = [ca |-> a, user |-> FALSE, torn |-> FALSE]
         \/ c = [ca |-> a, user |-> FALSE, torn |-> TRUE]
  PROVE  y = [ca |-> a, user |-> TRUE, torn |-> FALSE]
<1>1. CASE c = [ca |-> a, user |-> FALSE, torn |-> FALSE]
  BY <1>1
<1>2. CASE c = [ca |-> a, user |-> FALSE, torn |-> TRUE]
  BY <1>2
<1> QED BY <1>1, <1>2

LEMMA PKIStep ==
  ASSUME PKIInv, [Next]_vars
  PROVE  PKIInv'
<1>0. Types /\ Types' BY PKITypes DEF PKIInv
<1> USE <1>0, FourFiles DEF PKIInv, Types, WriteInv, KeyBetween, KeyFollows, Paired, KeptInv,
        ConfInv, BuildInv, KubeletInv, Absent, Torn, certVars, kubeletVars
<1>1. CASE StartKeeps
  <2> USE <1>1 DEF StartKeeps, Stopped
  <2>1. WriteInv' /\ KeyBetween' /\ KeyFollows' /\ ConfInv' /\ BuildInv' /\ KubeletInv'
    OBVIOUS
  <2>2. KeptInv' BY DEF existingValid, Usable, Covers, KeysPresent
  <2> QED BY <2>1, <2>2
<1>2. CASE StartGenerates
  <2> USE <1>2 DEF StartGenerates, Stopped
  <2>1. WriteInv'
    <3>1. issued'[gen'] = hosts BY DEF Types
    <3>2. \A i \in 1 .. 4 : Order[i] \in Files
      BY DEF Files, Order
    <3> QED BY <3>1, <3>2
  <2>2. KeyBetween' /\ KeyFollows' /\ KeptInv' /\ ConfInv' /\ BuildInv' /\ KubeletInv'
    OBVIOUS
  <2> QED BY <2>1, <2>2
<1>3. CASE Truncate
  <2> USE <1>3 DEF Truncate
  <2>1. WriteInv' OBVIOUS
  <2>2. KeyBetween' OBVIOUS
  <2>3. KeyFollows' /\ KeptInv' /\ ConfInv' /\ BuildInv' /\ KubeletInv' OBVIOUS
  <2> QED BY <2>1, <2>2, <2>3
<1>4. CASE Fill
  <2> USE <1>4 DEF Fill
  <2>1. WriteInv' OBVIOUS
  <2>2. KeyBetween' OBVIOUS
  <2>3. KeyFollows' OBVIOUS
  <2>4. KeptInv' BY DEF Covers, KeysPresent
  <2>5. ConfInv' /\ BuildInv' /\ KubeletInv' OBVIOUS
  <2> QED BY <2>1, <2>2, <2>3, <2>4, <2>5
<1>5. CASE TruncateConf
  <2> USE <1>5 DEF TruncateConf
  <2>1. KeptInv' BY DEF Covers, KeysPresent
  <2>2. pc = "patch" => conf' = [ca |-> disk["caCrt"], user |-> FALSE, torn |-> TRUE]
    BY ConfTruncated
  <2>3. ConfInv' BY <2>2
  <2> QED BY <2>1, <2>3
<1>6. CASE WriteKubeconfig
  BY <1>6 DEF WriteKubeconfig, Covers, KeysPresent
<1>7. CASE PatchKubeconfig
  <2> USE <1>7 DEF PatchKubeconfig
  <2>1. KeptInv' BY DEF Covers, KeysPresent
  <2>2. conf' = [ca |-> disk["caCrt"], user |-> TRUE, torn |-> FALSE]
    BY ConfPatched
  <2>3. ConfInv' BY <2>2
  <2> QED BY <2>1, <2>3
<1>8. CASE Build
  BY <1>8 DEF Build, Covers, KeysPresent
<1>9. CASE Kill \/ RunFails
  <2>1. Ends BY <1>9 DEF Kill, RunFails
  <2> QED BY <2>1 DEF Ends
<1>10. CASE Shutdown
  BY <1>10 DEF Shutdown
<1>11. CASE ChangeHosts
  BY <1>11 DEF ChangeHosts, Stopped
<1>12. CASE Expire
  BY <1>12 DEF Expire, Covers, KeysPresent
<1>13. CASE StartKubelet
  BY <1>13, PKIKept DEF StartKubelet
<1>14. CASE KubeletLoads
  <2> USE <1>14 DEF KubeletLoads
  <2>1. ~early' => pc \in {"patch", "build", "serve"} OBVIOUS
  <2>2. pc \in {"patch", "build", "serve"} => conf.ca = disk["caCrt"] OBVIOUS
  <2>3. kubelet' = "up" => kca' = conf.ca OBVIOUS
  <2>4. KubeletInv' BY <2>1, <2>2, <2>3
  <2> QED BY <2>4, PKIKept
<1>15. CASE StopKubelet
  BY <1>15, PKIKept DEF StopKubelet
<1>16. CASE UNCHANGED vars
  BY <1>16, PKIKept DEF vars
<1> QED
  BY <1>1, <1>2, <1>3, <1>4, <1>5, <1>6, <1>7, <1>8, <1>9, <1>10, <1>11, <1>12, <1>13, <1>14,
     <1>15, <1>16 DEF Next

LEMMA PKIAlways == Spec => []PKIInv
BY PKIInit, PKIStep, PTL DEF Spec

\* Whatever kills, changes of address and expiries came before, and however
\* often, EnsureServerCert and WriteKubeconfig leave a serving apiserver with
\* one valid identity and a kubeconfig that trusts it.
THEOREM ServesValid == Spec => []ServesValidCerts
<1>1. PKIInv => ServesValidCerts
  BY FourFiles DEF PKIInv, Types, KeyBetween, Paired, KeptInv, ConfInv, BuildInv,
     ServesValidCerts, Covers
<1> QED BY PKIAlways, <1>1, PTL

\* Build fails only after a kill that left a server.key of another generation,
\* however many kills there were: every other kill is repaired by the checks
\* of EnsureServerCert.
THEOREM Repaired == Spec => []RepairedUnlessKeyExisted
<1>1. PKIInv => RepairedUnlessKeyExisted
  BY DEF PKIInv, BuildInv, RepairedUnlessKeyExisted
<1> QED BY PKIAlways, <1>1, PTL

\* The CA that kubelet-lite has loaded stays the server's until certificates
\* are generated again.
THEOREM KubeletTrusts == Spec => []KubeletTrustsServer
<1>1. PKIInv => KubeletTrustsServer
  BY DEF PKIInv, KubeletInv, KubeletTrustsServer
<1> QED BY PKIAlways, <1>1, PTL
=============================================================================
