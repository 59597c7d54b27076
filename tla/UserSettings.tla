---------------------------- MODULE UserSettings ----------------------------
(***************************************************************************)
(* The lists a user keeps in app_user_settings: the report boards and the  *)
(* mapping profiles of the imports.  Each list is one row, which a save    *)
(* reads (through the repository cache), changes, deletes and inserts.     *)
(*                                                                         *)
(* Saves are POST requests and run one at a time.  Pages read the lists in *)
(* threads: what a page read before a save may enter the cache after it.   *)
(* A query that fails reads as an empty list, and is cached as one.  The   *)
(* contents of the boards and profiles are left out, and so are the other  *)
(* users, whose lists have rows of their own.                              *)
(***************************************************************************)
EXTENDS Handlers, SequencesExt

CONSTANTS Items,      \* the identifiers of boards and of profiles
          PageThreads,
          MAX_WORKSPACE_BOARDS,
          IMPORT_MAPPING_PROFILE_LIMIT

ASSUME SettingsAssumption == {MAX_WORKSPACE_BOARDS, IMPORT_MAPPING_PROFILE_LIMIT} \subseteq Nat

Settings == {"boards", "profiles"}
Unread == NoRow

VARIABLES
    lists,   \* the list of a setting, newest first; none is empty
    cached,   \* what the repository cache has, or Unread
    loading,  \* what the thread of a page has read and not yet cached
    old,      \* ghost: the cache has what a save replaced, or a failed query's
    told      \* ghost: the last step, as far as it may lose something

settingVars == <<lists, cached, loading, old, told>>

Nothing == [what |-> "nothing"]
Told(what, s, i) == told' = [what |-> what, setting |-> s, item |-> i]

SettingsInit ==
    /\ lists = [s \in Settings |-> << >>]
    /\ cached = [s \in Settings |-> Unread]
    /\ loading = [t \in PageThreads |-> NoRow]
    /\ old = [s \in Settings |-> FALSE]
    /\ told = Nothing

SettingsTypeOK ==
    /\ \A s \in Settings : /\ IsInjective(lists[s]) /\ ToSet(lists[s]) \subseteq Items
                           /\ cached[s] # Unread => ToSet(cached[s]) \subseteq Items
    /\ Len(lists["boards"]) <= MAX_WORKSPACE_BOARDS
    /\ Len(lists["profiles"]) <= IMPORT_MAPPING_PROFILE_LIMIT

-----------------------------------------------------------------------------
(* Reads.                                                                  *)

Queried(s) == {lists[s]} \cup (IF Faults THEN {<< >>} ELSE {})

\* A page misses the cache, runs the query and then fills the cache.
PageReads(t, s) ==
    /\ loading[t] = NoRow /\ cached[s] = Unread
    /\ \E list \in Queried(s) : loading' = [loading EXCEPT ![t] = [setting |-> s, list |-> list]]
    /\ told' = Nothing
    /\ UNCHANGED <<lists, cached, old>>

PageCaches(t) ==
    /\ loading[t] # NoRow
    /\ cached' = [cached EXCEPT ![loading[t].setting] = loading[t].list]
    /\ old' = [old EXCEPT ![loading[t].setting] = loading[t].list # lists[loading[t].setting]]
    /\ loading' = [loading EXCEPT ![t] = NoRow]
    /\ told' = Nothing
    /\ UNCHANGED lists

\* Entries expire, and every other write of the application clears them all.
_cache_clear ==
    /\ cached' \in {[cached EXCEPT ![s] = Unread] : s \in Settings}
                       \cup {[s \in Settings |-> Unread]}
    /\ old' = [s \in Settings |-> old[s] /\ cached'[s] # Unread]
    /\ told' = Nothing
    /\ UNCHANGED <<lists, loading>>

get_user_setting(s) == IF cached[s] # Unread THEN {cached[s]} ELSE Queried(s)

-----------------------------------------------------------------------------
(* Saves.                                                                  *)

Cleared == cached' = [s \in Settings |-> Unread] /\ old' = [s \in Settings |-> FALSE]

\* The cache keeps the list that was read, whatever became of the row.
Kept(s, read) ==
    /\ cached' = [cached EXCEPT ![s] = read]
    /\ old' = [old EXCEPT ![s] = read # lists'[s]]

\* Each statement that is reported clears the caches; the failure of either is
\* logged, and the user is told that the list was saved.
save_user_setting(s, read, list, what, i) ==
    \/ lists' = [lists EXCEPT ![s] = list] /\ Cleared /\ Told(what, s, i)
    \/ /\ Faults
       /\ \/ lists' \in {lists, [lists EXCEPT ![s] = << >>]} /\ Kept(s, read)
          \/ lists' \in {[lists EXCEPT ![s] = << >>], [lists EXCEPT ![s] = list]} /\ Cleared
       /\ Told("failed", s, i)

\* An identifier is in a list at most once.
Without(list, i) == RemoveFirst(list, i)
OnTop(list, i) == <<i>> \o Without(list, i)

BadUpsert(list, i) ==                       \* the oldest board makes room
    {SubSeq(OnTop(list, i), 1, Min({Len(OnTop(list, i)), MAX_WORKSPACE_BOARDS}))}
\* A full workspace takes no new board.
_workspace_upsert_board(list, i) ==
    IF i \in ToSet(list) \/ Len(list) < MAX_WORKSPACE_BOARDS THEN {OnTop(list, i)} ELSE {}

_workspace_delete_board(list, i) == IF i \in ToSet(list) THEN {Without(list, i)} ELSE {}

BadProfiles(list, i) == {OnTop(list, i)}    \* nothing makes room
\* The profile that was saved longest ago makes room.
save_mapping_profile(list, i) ==
    {SubSeq(OnTop(list, i), 1, Min({Len(OnTop(list, i)), IMPORT_MAPPING_PROFILE_LIMIT}))}

\* become: the lists a list that was read may turn into.  A query that failed
\* on the way counts as a failure.
Save(s, become, what, i) ==
    /\ \E read \in get_user_setting(s) : \E list \in become[read] :
          save_user_setting(s, read, list,
              IF cached[s] = Unread /\ read # lists[s] THEN "failed" ELSE what, i)
    /\ UNCHANGED loading

reports_workspace_save_board(p, i) ==
    /\ require_permission(p, "report_submit") /\ ~LockedMode /\ p.report
    /\ Save("boards", [list \in get_user_setting("boards") |-> _workspace_upsert_board(list, i)],
            "saved", i)

reports_workspace_delete_board(p, i) ==
    /\ require_permission(p, "report_submit") /\ ~LockedMode /\ p.report
    /\ Save("boards", [list \in get_user_setting("boards") |-> _workspace_delete_board(list, i)],
            "deleted", i)

imports_remap(p, i) ==
    /\ MayWrite(p, "import_preview")
    /\ Save("profiles", [list \in get_user_setting("profiles") |-> save_mapping_profile(list, i)],
            "saved", i)

-----------------------------------------------------------------------------
SettingsNext ==
    \/ \E t \in PageThreads : PageCaches(t) \/ \E s \in Settings : PageReads(t, s)
    \/ _cache_clear
    \/ \E p \in Policies, i \in Items : \/ reports_workspace_save_board(p, i)
                                        \/ reports_workspace_delete_board(p, i)
                                        \/ imports_remap(p, i)

SettingsSpec == SettingsInit /\ [][SettingsNext]_settingVars

-----------------------------------------------------------------------------
(* Properties.                                                             *)

Full(s) == s = "profiles" /\ Len(lists[s]) = IMPORT_MAPPING_PROFILE_LIMIT

(* Saving or deleting one board or profile leaves the others, as long as   *)
(* nothing failed and no page put an older list into the cache: a save     *)
(* that went well lets none of its successors read what it replaced.  The  *)
(* oldest profile goes when the list is full.                              *)
OthersKept ==
    [][\A s \in Settings :
          ~old[s] /\ told'.what # "failed" =>
                \A i \in ToSet(lists[s]) \ ToSet(lists'[s]) :
                    \/ told'.what = "deleted" /\ told'.item = i
                    \/ Full(s) /\ i = Last(lists[s])]_settingVars
=============================================================================
