----------------------------- MODULE DriveScan -----------------------------
(***************************************************************************)
(* Scans of drives: index_all_drives on the worker's thread with one pool  *)
(* thread per NTFS drive, refresh_drive on the event loop, the walk both   *)
(* fall back to, and the process-wide backup privilege that parallel reads *)
(* of $MFT share (core/index.py, core/ntfs.py).                            *)
(*                                                                         *)
(* A listing is "part" of a drive or "all" of it; what files it names is   *)
(* left out.  Cancelling is left out too: it happens on quit only.         *)
(***************************************************************************)
EXTENDS Integers, FiniteSets

CONSTANTS Drive,       \* drive letters
          Ntfs,        \* those with an NTFS volume
          Faulty,      \* those whose device fails to read, or is pulled, at any time
          MaxRequests, \* bound: full indexings, and refreshes
          MaxPlugs     \* bound: times a drive is pulled or plugged in

Owner == {"worker", "gui"}
Scans == Owner \X Drive

ASSUME DriveScanAssumption ==
    /\ IsFiniteSet(Drive) /\ Ntfs \subseteq Drive /\ Faulty \subseteq Drive
    /\ MaxRequests \in Nat /\ MaxPlugs \in Nat

VARIABLES
    present,  \* drives plugged in
    plugs,    \* times one was pulled or plugged in
    asked,    \* requests made so far, by owner
    phase,    \* where index_all_drives is
    stage,    \* where _index_single_ntfs_drive is, by owner and drive
    found,    \* drive_entries of that scan or of a walk
    todo,     \* drives to walk: non_ntfs_drives, then mft_failed_drives
    walking,  \* the drive _walk_drive is reading, by owner
    marking,  \* the drive installed but not marked yet, by owner
    entries,  \* FileIndex._entries: what they hold of a drive
    state,    \* FileIndex._drive_states
    raised,   \* drives whose refresh ended in an exception
    users,    \* _backup_privilege_users
    enabled,  \* _backup_privilege_enabled
    token,    \* SeBackupPrivilege in the process token
    holders,  \* scans inside a scope that acquired the privilege
    refused   \* history: the last attempt to disable it failed

outside == <<present, plugs>>
privilege == <<users, enabled, token, holders, refused>>
index == <<entries, state>>
client == <<asked, phase, todo, walking, marking, raised>>
vars == <<outside, client, stage, found, index, privilege>>

Stages == {"idle", "waiting", "queued", "open", "mft", "toEnum", "enum",
           "toDone", "done", "failed", "raised"}

\* A read that starts at the first record and may end at the last one.
Listing(d) == IF d \notin present THEN {"part"}
              ELSE IF d \in Faulty THEN {"part", "all"} ELSE {"all"}

-----------------------------------------------------------------------------
\* Devices come and go.

Unplug(d) == /\ d \in Faulty /\ plugs < MaxPlugs /\ d \in present
             /\ plugs' = plugs + 1 /\ present' = present \ {d}
             /\ UNCHANGED <<client, stage, found, index, privilege>>
Plug(d) == /\ plugs < MaxPlugs /\ d \notin present
           /\ plugs' = plugs + 1 /\ present' = present \cup {d}
           /\ UNCHANGED <<client, stage, found, index, privilege>>

-----------------------------------------------------------------------------
\* One NTFS scan, on a pool thread or in the event loop

\* A volume without geometry is enumerated without the privilege.
OpenVolume(s) ==
    /\ stage[s] = "queued"
    /\ \/ /\ s[2] \in present
          /\ \/ stage' = [stage EXCEPT ![s] = "open"]
             \/ stage' = [stage EXCEPT ![s] = "enum"]
       \/ stage' = [stage EXCEPT ![s] = "failed"]
    /\ found' = [found EXCEPT ![s] = "none"]
    /\ UNCHANGED <<outside, client, index, privilege>>

\* _backup_privilege_scope: enabling is skipped when the flag is set and may
\* fail; the scan goes on without the privilege.
EnterScope(s) ==
    /\ stage[s] = "open"
    /\ stage' = [stage EXCEPT ![s] = "mft"]
    /\ \/ /\ enabled' = TRUE
          /\ token' = (token \/ ~enabled)
          /\ users' = users + 1
          /\ holders' = holders \cup {s}
          /\ refused' = FALSE
       \/ /\ ~enabled
          /\ UNCHANGED privilege
    /\ UNCHANGED <<outside, client, found, index>>

\* $MFT cannot be opened, is read to the end, ends early because ReadFile
\* fails, or raises.
StopAtMft(s) ==  \* mutant: no fallback when $MFT cannot be opened
    /\ stage[s] = "mft"
    /\ stage' = [stage EXCEPT ![s] = "toDone"]
    /\ found' \in {found} \cup {[found EXCEPT ![s] = l] : l \in Listing(s[2])}
    /\ UNCHANGED <<outside, client, index, privilege>>
ReadMft(s) ==
    /\ stage[s] = "mft"
    /\ \/ /\ stage' = [stage EXCEPT ![s] = "toEnum"]
          /\ found' \in {found, [found EXCEPT ![s] = "part"]}
       \/ /\ stage' = [stage EXCEPT ![s] = "toDone"]
          /\ \E l \in Listing(s[2]) : found' = [found EXCEPT ![s] = l]
    /\ UNCHANGED <<outside, client, index, privilege>>

\* The end of the scope: the last user disables the privilege, which may fail.
DisableAtOnce(s) ==  \* mutant: the first scan to end disables it for all
    /\ stage[s] \in {"toEnum", "toDone"}
    /\ stage' = [stage EXCEPT ![s] = IF @ = "toEnum" THEN "enum" ELSE "done"]
    /\ users' = IF s \in holders THEN users - 1 ELSE users
    /\ holders' = holders \ {s}
    /\ IF s \in holders THEN enabled' = FALSE /\ token' = FALSE
       ELSE UNCHANGED <<enabled, token>>
    /\ UNCHANGED <<outside, client, found, index, refused>>
KeepEnabled(s) ==  \* mutant: the last user does not disable it
    /\ stage[s] \in {"toEnum", "toDone"}
    /\ stage' = [stage EXCEPT ![s] = IF @ = "toEnum" THEN "enum" ELSE "done"]
    /\ users' = IF s \in holders THEN users - 1 ELSE users
    /\ holders' = holders \ {s}
    /\ UNCHANGED <<outside, client, found, index, enabled, token, refused>>
LeaveScope(s) ==
    /\ stage[s] \in {"toEnum", "toDone"}
    /\ stage' = [stage EXCEPT ![s] = IF @ = "toEnum" THEN "enum" ELSE "done"]
    /\ IF s \in holders
       THEN /\ users' = IF users > 0 THEN users - 1 ELSE 0
            /\ holders' = holders \ {s}
            /\ IF users' = 0 /\ enabled
               THEN \/ enabled' = FALSE /\ token' = FALSE /\ refused' = FALSE
                    \/ refused' = TRUE /\ UNCHANGED <<enabled, token>>
               ELSE UNCHANGED <<enabled, token, refused>>
       ELSE UNCHANGED privilege
    /\ UNCHANGED <<outside, client, found, index>>

\* enumerate_mft starts again at the first record; an error ends it like the
\* last record does.  The journal query that follows is not checked.
Enumerate(s) ==
    /\ stage[s] = "enum"
    /\ \/ /\ stage' = [stage EXCEPT ![s] = "done"]
          /\ \E l \in Listing(s[2]) :
                found' = [found EXCEPT ![s] = IF l = "all" THEN "all" ELSE "part"]
       \/ /\ stage' = [stage EXCEPT ![s] = "raised"]
          /\ UNCHANGED found
    /\ UNCHANGED <<outside, client, index, privilege>>

ScanStep(s) == \/ OpenVolume(s) \/ EnterScope(s) \/ ReadMft(s)
               \/ LeaveScope(s) \/ Enumerate(s)

-----------------------------------------------------------------------------
\* Steps both clients take

\* _walk_drive, up to the first directory
WalkBegins(o, d) ==
    /\ d \in todo[o] /\ walking[o] = {} /\ marking[o] = {}
    /\ o = "worker" => phase \in {"walk", "fallback"}
    /\ todo' = [todo EXCEPT ![o] = @ \ {d}]
    /\ IF d \in present
       THEN walking' = [walking EXCEPT ![o] = {d}] /\ UNCHANGED state
       ELSE state' = [state EXCEPT ![d] = "offline"] /\ UNCHANGED walking
    /\ UNCHANGED <<outside, asked, phase, marking, raised, stage, found, entries,
                   privilege>>

\* Directories that cannot be read are skipped.
WalkEnds(o, d) ==
    /\ d \in walking[o]
    /\ walking' = [walking EXCEPT ![o] = {}]
    /\ \E l \in Listing(d) : entries' = [entries EXCEPT ![d] = l]
    /\ marking' = [marking EXCEPT ![o] = {d}]
    /\ UNCHANGED <<outside, asked, phase, todo, raised, stage, found, state,
                   privilege>>

\* What a scan that is done found becomes the drive's entries; the root entry
\* alone is enough.  A scan that failed is followed by a walk.
DropFailed(o, d) ==  \* mutant: the drive whose scan failed is not walked
    /\ o = "worker" => phase = "scan"
    /\ marking[o] = {}
    /\ stage[<<o, d>>] \in {"done", "failed", "raised"}
    /\ stage' = [stage EXCEPT ![<<o, d>>] = "idle"]
    /\ IF stage[<<o, d>>] = "done"
       THEN /\ entries' = [entries EXCEPT ![d] = found[<<o, d>>]]
            /\ marking' = [marking EXCEPT ![o] = {d}]
       ELSE UNCHANGED <<entries, marking>>
    /\ UNCHANGED <<outside, asked, phase, walking, todo, raised, found, state, privilege>>
LoseRaised(o, d) ==  \* mutant: an exception of a scan is never collected
    /\ o = "worker" => phase = "scan"
    /\ marking[o] = {}
    /\ stage[<<o, d>>] \in {"done", "failed"}
    /\ stage' = [stage EXCEPT ![<<o, d>>] = "idle"]
    /\ IF stage[<<o, d>>] = "done"
       THEN /\ entries' = [entries EXCEPT ![d] = found[<<o, d>>]]
            /\ marking' = [marking EXCEPT ![o] = {d}]
            /\ UNCHANGED todo
       ELSE /\ todo' = [todo EXCEPT ![o] = @ \cup {d}]
            /\ UNCHANGED <<entries, marking>>
    /\ UNCHANGED <<outside, asked, phase, walking, raised, found, state, privilege>>
Install(o, d) ==
    /\ o = "worker" => phase = "scan"
    /\ marking[o] = {}
    /\ stage' = [stage EXCEPT ![<<o, d>>] = "idle"]
    /\ \/ /\ stage[<<o, d>>] = "done"
          /\ entries' = [entries EXCEPT ![d] = found[<<o, d>>]]
          /\ marking' = [marking EXCEPT ![o] = {d}]
          /\ UNCHANGED <<todo, raised>>
       \/ /\ stage[<<o, d>>] = "failed" \/ (stage[<<o, d>>] = "raised" /\ o = "worker")
          /\ todo' = [todo EXCEPT ![o] = @ \cup {d}]
          /\ UNCHANGED <<entries, marking, raised>>
       \/ /\ stage[<<o, d>>] = "raised" /\ o = "gui"
          /\ raised' = raised \cup {d}
          /\ UNCHANGED <<entries, marking, todo>>
    /\ UNCHANGED <<outside, asked, phase, walking, found, state, privilege>>

_mark_drive_fresh(o, d) ==
    /\ d \in marking[o]
    /\ marking' = [marking EXCEPT ![o] = {}]
    /\ state' = [state EXCEPT ![d] = "online"]
    /\ UNCHANGED <<outside, asked, phase, todo, walking, raised, stage, found,
                   entries, privilege>>

Busy(o) == \/ todo[o] # {} \/ walking[o] # {} \/ marking[o] # {}
           \/ \E d \in Drive : stage[<<o, d>>] # "idle"

-----------------------------------------------------------------------------
\* index_all_drives

index_all_drives ==
    /\ phase = "idle" /\ asked["worker"] < MaxRequests
    /\ asked' = [asked EXCEPT !["worker"] = @ + 1]
    /\ phase' = "walk"
    /\ state' = [d \in Drive |-> IF d \in present THEN "stale" ELSE "offline"]
    /\ todo' = [todo EXCEPT !["worker"] = Drive \ (Ntfs \cap present)]
    /\ stage' = [s \in Scans |-> IF s[1] = "worker" /\ s[2] \in Ntfs \cap present
                                 THEN "waiting" ELSE stage[s]]
    /\ UNCHANGED <<outside, walking, marking, raised, found, entries, privilege>>

\* The pool starts when every other drive has been walked.
Submit ==
    /\ phase = "walk" /\ todo["worker"] = {}
    /\ walking["worker"] = {} /\ marking["worker"] = {}
    /\ phase' = "scan"
    /\ stage' = [s \in Scans |-> IF stage[s] = "waiting" THEN "queued" ELSE stage[s]]
    /\ UNCHANGED <<outside, asked, todo, walking, marking, raised, found, index,
                   privilege>>

FallBack ==
    /\ phase = "scan" /\ marking["worker"] = {}
    /\ \A d \in Drive : stage[<<"worker", d>>] = "idle"
    /\ phase' = "fallback"
    /\ UNCHANGED <<outside, asked, todo, walking, marking, raised, stage, found,
                   index, privilege>>

indexing_complete ==
    /\ phase = "fallback" /\ ~Busy("worker")
    /\ phase' = "idle"
    /\ UNCHANGED <<outside, asked, todo, walking, marking, raised, stage, found,
                   index, privilege>>

-----------------------------------------------------------------------------
\* Diagnostics' per-drive refresh
refresh_drive(d) ==
    /\ ~Busy("gui") /\ asked["gui"] < MaxRequests
    /\ asked' = [asked EXCEPT !["gui"] = @ + 1]
    /\ raised' = raised \ {d}
    /\ \/ /\ d \notin present
          /\ state' = [state EXCEPT ![d] = "offline"]
          /\ UNCHANGED <<todo, stage>>
       \/ /\ d \in present
          /\ state' = [state EXCEPT ![d] = "stale"]
          /\ IF d \in Ntfs
             THEN stage' = [stage EXCEPT ![<<"gui", d>>] = "queued"] /\ UNCHANGED todo
             ELSE todo' = [todo EXCEPT !["gui"] = {d}] /\ UNCHANGED stage
    /\ UNCHANGED <<outside, phase, walking, marking, found, entries, privilege>>

-----------------------------------------------------------------------------
Init ==
    /\ present \in SUBSET Drive /\ plugs = 0
    /\ asked = [o \in Owner |-> 0]
    /\ phase = "idle"
    /\ stage = [s \in Scans |-> "idle"] /\ found = [s \in Scans |-> "none"]
    /\ todo = [o \in Owner |-> {}] /\ walking = [o \in Owner |-> {}]
    /\ marking = [o \in Owner |-> {}]
    /\ entries = [d \in Drive |-> "cached"] /\ raised = {}
    /\ state = [d \in Drive |-> IF d \in present THEN "stale" ELSE "offline"]
    /\ users = 0 /\ enabled = FALSE /\ token = FALSE /\ holders = {}
    /\ refused = FALSE

ClientStep(o) == \E d \in Drive : \/ WalkBegins(o, d) \/ WalkEnds(o, d)
                                  \/ Install(o, d) \/ _mark_drive_fresh(o, d)

Next ==
    \/ \E d \in Drive : Unplug(d) \/ Plug(d) \/ refresh_drive(d)
    \/ \E s \in Scans : ScanStep(s)
    \/ \E o \in Owner : ClientStep(o)
    \/ index_all_drives \/ Submit \/ FallBack \/ indexing_complete

\* The threads of the pool, the worker and the event loop run.
Fairness ==
    /\ \A s \in Scans : WF_vars(ScanStep(s))
    /\ \A o \in Owner : WF_vars(ClientStep(o))
    /\ WF_vars(Submit \/ FallBack \/ indexing_complete)

Spec == Init /\ [][Next]_vars
FairSpec == Spec /\ Fairness

-----------------------------------------------------------------------------
\* _backup_privilege_scope counts the scans that need the privilege: no scan
\* that acquired it reads $MFT without it, whatever the others do.
PrivilegeHeld == /\ users = Cardinality(holders)
                 /\ holders # {} => enabled /\ token

\* "Disable SeBackupPrivilege when no MFT scans still need it": with no such
\* scan it is off, unless Windows refused to disable it.
PrivilegeReleased == holders = {} => ~enabled \/ refused

\* A scan that has fallen back to the journal's enumeration, or ended, holds no
\* reference to the privilege.
ReleasedBeforeFallback ==
    \A s \in holders : stage[s] \in {"mft", "toEnum", "toDone"}

\* A drive shown as online (not stale) has been listed completely, whichever of
\* volume, $MFT and scan failed on the way, if its device can be read.
OnlineIsComplete == \A d \in Drive \ Faulty : state[d] = "online" => entries[d] = "all"

\* index_all_drives leaves no drive stale: a scan that fails is followed by a
\* walk, and a drive that is gone is offline.
NothingLeftStale ==
    asked["worker"] > 0 /\ phase = "idle" /\ ~Busy("gui")
        => \A d \in Drive \ raised : state[d] # "stale"

\* Indexing ends, whichever scans fail.
IndexingEnds == phase # "idle" ~> phase = "idle"
=============================================================================
