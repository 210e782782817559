----------------------------- MODULE Overrides ------------------------------
(***************************************************************************)
(* The settings a console may override (podcast_agent/settings_store.py    *)
(* and api/settings.py): a document of overrides, merged over config.yaml  *)
(* when the process starts, and changed by requests that each read the     *)
(* document, judge the change and write it back.                           *)
(*                                                                         *)
(* A configuration is two thresholds that must not cross (t_rel_low and    *)
(* t_rel_high stand for every check that relates two settings); overrides  *)
(* give some of them a value.                                              *)
(***************************************************************************)
EXTENDS Integers, SequencesExt

CONSTANTS
    Requests,       \* requests of the console under way at the same time
    Levels,         \* values of a threshold
    File,           \* config.yaml and the environment
    MaxSaves        \* bound of the model

Keys == {"t_rel_low", "t_rel_high"}

\* The validator of PipelineConfig.
Valid(config) == config.t_rel_low <= config.t_rel_high

ASSUME OverridesAssumption ==
    /\ Levels \subseteq Nat
    /\ File \in [Keys -> Levels] /\ Valid(File)
    /\ MaxSaves \in Nat

VARIABLES
    stored,     \* the document control:settings
    running,    \* the configuration of this process
    adopted,    \* updated_at of the document this process read when it started
    request     \* request[r]: the local variables of a handler

overrides_vars == <<stored, running, adopted, request>>

\* A partial configuration.
Overriding == UNION {[K -> Levels] : K \in SUBSET Keys}

None == [k \in {} |-> 0]

deep_merge(base, overlay) ==
    [k \in DOMAIN base \cup DOMAIN overlay |->
        IF k \in DOMAIN overlay THEN overlay[k] ELSE base[k]]

\* updated_at and applied_at are moments; 0 stands for a missing one.
Stored == [overrides : Overriding, updated_at : 0..MaxSaves, applied_at : 0..MaxSaves]

NoRequest == [at |-> "idle", overrides |-> None, existing |-> 0, applied_at |-> 0]

Request == [at         : {"idle", "checked", "put"},
            overrides  : Overriding,
            existing   : 0..MaxSaves,       \* the revision read before the write
            applied_at : 0..MaxSaves]

OverridesTypeOK ==
    /\ stored \in Stored
    /\ running \in [Keys -> Levels]
    /\ adopted \in 0..MaxSaves
    /\ request \in [Requests -> Request]

OverridesInit ==
    /\ stored = [overrides |-> None, updated_at |-> 0, applied_at |-> 0]
    /\ running = File
    /\ adopted = 0
    /\ request = [r \in Requests |-> NoRequest]

-----------------------------------------------------------------------------
(* Start                                                                   *)

\* What the stored overrides make of the file; an invalid result is not adopted.
Effective(overrides) ==
    LET candidate == deep_merge(File, overrides)
    IN  IF Valid(candidate) THEN candidate ELSE File

get_overrides ==
    /\ running' = Effective(stored.overrides)
    /\ adopted' = stored.updated_at
    /\ UNCHANGED <<stored, request>>

mark_applied ==
    /\ stored' = [stored EXCEPT !.applied_at = stored.updated_at]
    /\ UNCHANGED <<running, adopted, request>>

-----------------------------------------------------------------------------
(* Requests                                                                *)

pending_restart == stored.updated_at # 0 /\ stored.updated_at # stored.applied_at

\* PUT: the document is read, the change merged on what it held, and the whole judged
\* against the configuration this process runs.
SaveBegins(r) ==
    /\ request[r].at = "idle"
    /\ \E body \in Overriding \ {None} :
          LET overrides == deep_merge(stored.overrides, body)
          IN  /\ Valid(deep_merge(running, overrides))
              /\ request' = [request EXCEPT ![r] = [@ EXCEPT !.at = "checked",
                                                             !.overrides = overrides]]
    /\ UNCHANGED <<stored, running, adopted>>

\* DELETE: no overrides, and nothing to judge.
ResetBegins(r) ==
    /\ request[r].at = "idle"
    /\ request' = [request EXCEPT ![r] = [@ EXCEPT !.at = "checked", !.overrides = None]]
    /\ UNCHANGED <<stored, running, adopted>>

\* set_overrides reads the document again, for its revision and applied_at.
SaveReads(r) ==
    /\ request[r].at = "checked"
    /\ request' = [request EXCEPT ![r] = [@ EXCEPT !.at = "put",
                                                   !.existing = stored.updated_at,
                                                   !.applied_at = stored.applied_at]]
    /\ UNCHANGED <<stored, running, adopted>>

\* Mutant: a save counts as applied.
Saved_Applied(r) ==
    [overrides |-> request[r].overrides, updated_at |-> stored.updated_at + 1,
     applied_at |-> stored.updated_at + 1]

Saved(r) ==
    [overrides |-> request[r].overrides, updated_at |-> stored.updated_at + 1,
     applied_at |-> request[r].applied_at]

\* The write; against an old revision it is a conflict, and the request an error.
SavePuts(r) ==
    /\ request[r].at = "put"
    /\ IF request[r].existing = stored.updated_at
       THEN stored.updated_at < MaxSaves /\ stored' = Saved(r)
       ELSE UNCHANGED stored
    /\ request' = [request EXCEPT ![r] = NoRequest]
    /\ UNCHANGED <<running, adopted>>

Console(r) == SaveBegins(r) \/ ResetBegins(r) \/ SaveReads(r) \/ SavePuts(r)
=============================================================================
