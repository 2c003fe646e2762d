---------------------------- MODULE RuntimeInstall ----------------------------
(***************************************************************************)
(* The cache of managed vLLM runtimes (src/art/vllm_runtime.py) that the   *)
(* processes of a machine share.  ensure_vllm_runtime takes a file lock,   *)
(* returns the runtime of its version when it validates, and installs it   *)
(* otherwise: the environment is synced in a stage directory, renamed into *)
(* place, given its server and, last, its marker.  Then the runtimes of    *)
(* other versions are deleted, file after file.  A process may die, or be  *)
(* interrupted, between any two steps.  The validation looks at the marker *)
(* and at two files of the environment, not at its packages.               *)
(***************************************************************************)
EXTENDS FiniteSets

CONSTANTS
    Procs,          \* the processes
    Versions,       \* the manifest hashes
    VersionOf,      \* the version each process bundles
    Keepers         \* the processes in whose environment ART_VLLM_RUNTIME_KEEP_OLD is set

ASSUME InstallAssumption ==
    /\ VersionOf \in [Procs -> Versions]
    /\ Keepers \subseteq Procs

NoProc == "nobody"
NoVersion == "no version"

ASSUME NoProcAssumption == NoProc \notin Procs /\ NoVersion \notin Versions

\* What a runtime directory consists of: itself, .venv/pyvenv.cfg, the rest of .venv
\* (the interpreter and the packages; there when all of it is), the server's
\* executable in .venv/bin, and a marker that can be read.
Parts == {"dir", "config", "packages", "server", "marker"}

VARIABLES
    cache,      \* the parts each version's directory has; none: there is no directory
    stages,     \* the processes whose latest install has, or left, a stage directory
    lock,       \* who holds the install lock
    pc,         \* where each process is in ensure_vllm_runtime
    target,     \* the version whose directory it is deleting
    fresh,      \* whether it installed the runtime itself
    abandoned,  \* history: the directories that were there and not managed when the
                \* lock was last let go
    cutShort    \* history: the versions whose directory a deletion left incomplete, cut
                \* short by an error or a death, and that were not installed since

vars == <<cache, stages, lock, pc, target, fresh, abandoned, cutShort>>

Init ==
    /\ cache = [v \in Versions |-> {}] /\ stages = {} /\ lock = NoProc
    /\ pc = [p \in Procs |-> "out"]
    /\ target = [p \in Procs |-> NoVersion]
    /\ fresh = [p \in Procs |-> FALSE] /\ abandoned = {}
    /\ cutShort = {}

\* _is_managed_runtime_dir.
Managed(v) == {"dir", "config", "marker"} \subseteq cache[v]

\* _validate_managed_runtime: managed, and its server is executable.
Validated(v) == Managed(v) /\ "server" \in cache[v]

\* The directory whose deletion p ends here, when a part of it is gone and a part
\* of it is left.
Cut(p) == {v \in Versions : v = target[p] /\ cache[v] \notin {{}, Parts}}

\* ensure_vllm_runtime is over, one way or the other, and the lock is let go.
Leave(p, where) ==
    /\ pc' = [pc EXCEPT ![p] = where]
    /\ lock' = NoProc
    /\ target' = [target EXCEPT ![p] = NoVersion]
    /\ abandoned' = {v \in Versions : cache[v] # {} /\ ~Managed(v)}
    /\ cutShort' = cutShort \cup Cut(p)

Goto(p, where) ==
    /\ pc' = [pc EXCEPT ![p] = where]
    /\ UNCHANGED <<lock, abandoned>>

(***************************************************************************)
(* The lock, and the runtime that is there already.                        *)
(***************************************************************************)

Enter(p) ==
    /\ pc[p] = "out" /\ lock = NoProc
    /\ lock' = p
    /\ pc' = [pc EXCEPT ![p] = IF Validated(VersionOf[p]) THEN "cleaning" ELSE "syncing"]
    /\ stages' = (IF Validated(VersionOf[p]) THEN stages ELSE stages \cup {p})
    /\ fresh' = [fresh EXCEPT ![p] = FALSE]
    /\ UNCHANGED <<cache, target, abandoned, cutShort>>

(***************************************************************************)
(* _install_managed_runtime.                                               *)
(***************************************************************************)

\* uv sync fails, or the directory is there and does not validate: it is not
\* replaced.  (It cannot have become valid since Enter: the lock is held.)
SyncFails(p) ==
    /\ pc[p] = "syncing"
    /\ stages' \in {stages, stages \ {p}}
    /\ Leave(p, "failed")
    /\ UNCHANGED <<cache, fresh>>

Promote(p) ==
    /\ pc[p] = "syncing" /\ cache[VersionOf[p]] = {}
    /\ cache' = [cache EXCEPT ![VersionOf[p]] = {"dir", "config"}]
    /\ stages' = stages \ {p}
    /\ cutShort' = cutShort \ {VersionOf[p]}
    /\ Goto(p, "promoted")
    /\ UNCHANGED <<target, fresh>>

\* uv pip install: the last package and the server's executable.
InstallServer(p) ==
    /\ pc[p] = "promoted"
    /\ cache' = [cache EXCEPT ![VersionOf[p]] = @ \cup {"packages", "server"}]
    /\ Goto(p, "installed")
    /\ UNCHANGED <<stages, target, fresh, cutShort>>

WriteMarker(p) ==
    /\ pc[p] = "installed"
    /\ cache' = [cache EXCEPT ![VersionOf[p]] = @ \cup {"marker"}]
    /\ fresh' = [fresh EXCEPT ![p] = TRUE]
    /\ Goto(p, "cleaning")
    /\ UNCHANGED <<stages, target, cutShort>>

\* Mutant: a failed install is left where it is.
InstallFailsKeeping(p) ==
    /\ pc[p] \in {"promoted", "installed"}
    /\ Leave(p, "failed")
    /\ UNCHANGED <<cache, stages, fresh>>

\* The install command fails, or the server or the marker cannot be written:
\* the promoted directory is deleted.
InstallFails(p) ==
    /\ pc[p] \in {"promoted", "installed"}
    /\ target' = [target EXCEPT ![p] = VersionOf[p]]
    /\ Goto(p, "undoing")
    /\ UNCHANGED <<cache, stages, fresh, cutShort>>

(***************************************************************************)
(* _cleanup_old_managed_runtimes, and the deletion of a directory.         *)
(***************************************************************************)

\* Mutant: the directory to keep is not spared.
OldAndOwn(p) == {v \in Versions : Managed(v)}

\* Mutant: ART_VLLM_RUNTIME_KEEP_OLD is not looked at.
OldAlways(p) == {v \in Versions : v # VersionOf[p] /\ Managed(v)}

\* The directories to delete.
Old(p) == IF p \in Keepers THEN {} ELSE {v \in Versions : v # VersionOf[p] /\ Managed(v)}

CleanNext(p) ==
    /\ pc[p] = "cleaning"
    /\ \E v \in Old(p) : target' = [target EXCEPT ![p] = v]
    /\ Goto(p, "deleting")
    /\ UNCHANGED <<cache, stages, fresh, cutShort>>

\* The directory's files go one by one, in any order, the directory last.  What is
\* left may still validate.
Delete(p) ==
    /\ pc[p] \in {"deleting", "undoing"} /\ cache[target[p]] # {}
    /\ \E part \in cache[target[p]] :
          /\ part = "dir" => cache[target[p]] = {"dir"}
          /\ cache' = [cache EXCEPT ![target[p]] = @ \ {part}]
    /\ UNCHANGED <<stages, lock, pc, target, fresh, abandoned, cutShort>>

Deleted(p) ==
    /\ pc[p] = "deleting" /\ cache[target[p]] = {}
    /\ target' = [target EXCEPT ![p] = NoVersion]
    /\ Goto(p, "cleaning")
    /\ UNCHANGED <<cache, stages, fresh, cutShort>>

\* rmtree raises: one that has just installed its runtime deletes it.
DeleteFails(p) ==
    /\ pc[p] = "deleting"
    /\ \/ /\ fresh[p] /\ target' = [target EXCEPT ![p] = VersionOf[p]]
          /\ cutShort' = cutShort \cup Cut(p) /\ Goto(p, "undoing")
       \/ ~fresh[p] /\ Leave(p, "failed")
    /\ UNCHANGED <<cache, stages, fresh>>

\* The failed install is deleted, or as much of it as could be: its rmtree ignores
\* errors.
Undone(p) ==
    /\ pc[p] = "undoing"
    /\ Leave(p, "failed")
    /\ UNCHANGED <<cache, stages, fresh>>

Return(p) ==
    /\ pc[p] = "cleaning" /\ Old(p) = {}
    /\ Leave(p, "using")
    /\ UNCHANGED <<cache, stages, fresh>>

(***************************************************************************)
(* The caller, and the death of a process.                                 *)
(***************************************************************************)
InLock == {"syncing", "promoted", "installed", "cleaning", "deleting", "undoing"}

\* The runtime is not used any more, or the failed call is made again.
Again(p) ==
    /\ pc[p] \in {"using", "failed"}
    /\ pc' = [pc EXCEPT ![p] = "out"]
    /\ UNCHANGED <<cache, stages, lock, target, fresh, abandoned, cutShort>>

\* Killed, or a KeyboardInterrupt, which the handler does not catch: the lock is
\* let go and nothing else is cleaned up.
Dies(p) ==
    /\ pc[p] \in InLock
    /\ Leave(p, "out")
    /\ UNCHANGED <<cache, stages, fresh>>

Install(p) ==
    SyncFails(p) \/ Promote(p) \/ InstallServer(p) \/ WriteMarker(p) \/ InstallFails(p)

Cleanup(p) ==
    CleanNext(p) \/ Delete(p) \/ Deleted(p) \/ DeleteFails(p) \/ Undone(p) \/ Return(p)

Next == \E p \in Procs : Enter(p) \/ Install(p) \/ Cleanup(p) \/ Again(p) \/ Dies(p)

Spec == Init /\ [][Next]_vars

(***************************************************************************)
(* Properties.                                                             *)
(***************************************************************************)

\* Every variable has its type, and who is in the critical section has the lock.
TypeOK ==
    /\ cache \in [Versions -> SUBSET Parts] /\ stages \subseteq Procs
    /\ lock \in Procs \cup {NoProc}
    /\ pc \in [Procs -> InLock \cup {"out", "using", "failed"}]
    /\ target \in [Procs -> Versions \cup {NoVersion}]
    /\ fresh \in [Procs -> BOOLEAN] /\ abandoned \subseteq Versions /\ cutShort \subseteq Versions
    /\ \A p \in Procs : pc[p] \in InLock <=> lock = p

\* All that an install puts there is there.
Whole(v) == cache[v] = Parts

\* The runtime ensure_vllm_runtime returns validates and, unless an earlier deletion
\* of it failed or died half way, is whole: it is never returned while another
\* process installs or deletes it, nor after an install that failed or died.  The
\* exception is real: the validator sees the marker, pyvenv.cfg and the server
\* only, so a runtime whose packages such a deletion took is returned.
ReturnsWhole ==
    [][\A p \in Procs : pc[p] # "using" /\ pc'[p] = "using" =>
          /\ Validated(VersionOf[p])'
          /\ Whole(VersionOf[p])' \/ VersionOf[p] \in cutShort']_vars

\* Whether every process of another version keeps old runtimes.
Spared(v) == \A q \in Procs : VersionOf[q] # v => q \in Keepers

\* The directory of a runtime in use is not touched, neither deleted from nor
\* installed into, whoever installs, fails or dies, as long as the processes of
\* other versions have ART_VLLM_RUNTIME_KEEP_OLD set: a process never undoes or
\* repeats the install of its own version while others use it.
UsedUntouched ==
    [][\A p \in Procs :
          pc[p] = "using" /\ pc'[p] = "using" /\ Spared(VersionOf[p])
              => cache'[VersionOf[p]] = cache[VersionOf[p]]]_vars

\* A failed install cleans up after itself: only the death of a process, or a
\* deletion that fails, adds a directory that is not managed, which no later call
\* replaces.
Mishap(p) ==
    \/ Dies(p) \/ DeleteFails(p)
    \/ Undone(p) /\ (fresh[p] \/ cache[VersionOf[p]] # {})

OnlyMishapsAbandon ==
    [][abandoned' \subseteq abandoned \/ \E p \in Procs : Mishap(p)]_vars

\* A directory that is not managed, which a dead process left half done or rmtree
\* could not delete, is never touched again: not replaced and not cleaned up.
AbandonedKept == [][\A v \in abandoned : cache'[v] = cache[v]]_vars

=============================================================================
