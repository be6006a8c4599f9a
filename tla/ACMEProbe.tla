----------------------------- MODULE ACMEProbe -----------------------------
(***************************************************************************)
(* ensureACMECacheDir (internal/server/server.go): several responders that *)
(* share a cache directory each create a file in it and remove it again,   *)
(* to prove that it is writable.  A responder can be killed at any point   *)
(* and restarted; the directory can change its mode, fill up, or be swept  *)
(* by something else.                                                      *)
(***************************************************************************)
EXTENDS FiniteSets, Naturals

CONSTANTS Responders,   \* processes that share the directory
          Names         \* the names os.CreateTemp can pick

VARIABLES dir,          \* the state of the directory
          files,        \* the probe files in it
          pc,           \* pc[p]: where the probe of p is
          probe,        \* probe[p]: the set of the name p created, or {}
          bad,          \* bad[p]: history, the directory was unfit since p started
          abandoned     \* history: names left by a kill or a failed removal

probeVars == <<dir, files, pc, probe, bad, abandoned>>

\* The directory is not there yet, and its parent lets it be made or not; or it
\* is there and fit, or takes no changes, or loses writes (a full disk).
Missing == {"missing", "blocked"}
Present == {"writable", "readonly", "full"}
Unfit == {"blocked", "readonly", "full"}

ProbeInit ==
    /\ dir \in Missing \cup Present
    /\ files = {}
    /\ pc = [p \in Responders |-> "start"]
    /\ probe = [p \in Responders |-> {}]
    /\ bad = [p \in Responders |-> dir \in Unfit]
    /\ abandoned = {}

Goto(p, from, to) == pc[p] = from /\ pc' = [pc EXCEPT ![p] = to]

\* os.MkdirAll: an existing directory will do.
MkdirAll(p) ==
    /\ Goto(p, "start", IF dir = "blocked" THEN "failed" ELSE "create")
    /\ dir' = IF dir = "missing" THEN "writable" ELSE dir
    /\ UNCHANGED <<files, probe, bad, abandoned>>

Create(p, n) ==
    /\ Goto(p, "create", "close")
    /\ files' = files \cup {n}
    /\ probe' = [probe EXCEPT ![p] = {n}]
    /\ UNCHANGED <<dir, bad, abandoned>>

CreateFails(p) ==
    /\ Goto(p, "create", "failed")
    /\ UNCHANGED <<dir, files, probe, bad, abandoned>>

\* Mutant: a fixed name, created exclusively.
CreateFixed(p) ==
    LET n == CHOOSE n \in Names : TRUE
    IN  \/ dir # "readonly" /\ n \notin files /\ Create(p, n)
        \/ (dir = "readonly" \/ n \in files) /\ CreateFails(p)

\* os.CreateTemp: a name no file has.  A name can come back after a sweep.
CreateTemp(p) ==
    \/ dir # "readonly" /\ \E n \in Names \ files : Create(p, n)
    \/ dir = "readonly" /\ CreateFails(p)

\* os.Remove of the probe file, whatever it returns.
Unlink(p) ==
    /\ files' = IF dir = "readonly" THEN files ELSE files \ probe[p]
    /\ abandoned' = IF dir = "readonly" THEN abandoned \cup (probe[p] \cap files)
                    ELSE abandoned \ probe[p]
    /\ probe' = [probe EXCEPT ![p] = {}]
    /\ UNCHANGED <<dir, bad>>

Closed(p) ==
    /\ Goto(p, "close", "remove")
    /\ UNCHANGED <<dir, files, probe, bad, abandoned>>

\* Mutant: the error path of Close does not remove the file.
CloseLeavesFile(p) ==
    \/ dir # "full" /\ Closed(p)
    \/ /\ dir = "full" /\ Goto(p, "close", "failed")
       /\ probe' = [probe EXCEPT ![p] = {}]
       /\ UNCHANGED <<dir, files, bad, abandoned>>

\* f.Close; when it fails the file is removed as well as can be.
Close(p) ==
    \/ dir # "full" /\ Closed(p)
    \/ dir = "full" /\ Goto(p, "close", "failed") /\ Unlink(p)

\* os.Remove; fs.ErrNotExist is success.
Remove(p) ==
    /\ Goto(p, "remove",
            IF dir # "readonly" \/ probe[p] \cap files = {} THEN "ok" ELSE "failed")
    /\ Unlink(p)

\* The process is killed, or ends, and is started again.
Restart(p) ==
    /\ pc' = [pc EXCEPT ![p] = "start"]
    /\ probe' = [probe EXCEPT ![p] = {}]
    /\ bad' = [bad EXCEPT ![p] = dir \in Unfit]
    /\ abandoned' = abandoned \cup (probe[p] \cap files)
    /\ UNCHANGED <<dir, files>>

\* The directory changes under the probes.
Change ==
    /\ \/ dir \in Missing /\ dir' \in Missing
       \/ dir \in Present /\ dir' \in Present
    /\ bad' = [p \in Responders |-> bad[p] \/ dir' \in Unfit]
    /\ UNCHANGED <<files, pc, probe, abandoned>>

\* Something else empties it.
Sweep ==
    /\ files # {}
    /\ files' = {}
    /\ abandoned' = {}
    /\ UNCHANGED <<dir, pc, probe, bad>>

ensureACMECacheDir(p) == MkdirAll(p) \/ CreateTemp(p) \/ Close(p) \/ Remove(p)

ProbeNext ==
    \/ \E p \in Responders : ensureACMECacheDir(p) \/ Restart(p)
    \/ Change
    \/ Sweep

ProbeSpec == ProbeInit /\ [][ProbeNext]_probeVars

-----------------------------------------------------------------------------
(* Properties. *)

\* Every variable has its type.
ProbeTypeOK ==
    /\ dir \in Missing \cup Present
    /\ files \in SUBSET Names
    /\ pc \in [Responders -> {"start", "create", "close", "remove", "ok", "failed"}]
    /\ probe \in [Responders -> SUBSET Names]
    /\ bad \in [Responders -> BOOLEAN]
    /\ abandoned \in SUBSET Names

\* No spurious startup failure: a responder is refused the directory only if
\* the directory was unfit at some moment since the responder started, never
\* because of the probe of another responder, of a file a killed one left
\* behind, or of a file that something else removed.
FailsOnlyForCause == \A p \in Responders : pc[p] = "failed" => bad[p]

\* Probes leave nothing behind: a file in the directory belongs to a probe that
\* is still under way, unless its responder was killed or the directory turned
\* read-only before the file could be removed.
NoLitter == \A n \in files : n \in abandoned \/ \E p \in Responders : n \in probe[p]
=============================================================================
