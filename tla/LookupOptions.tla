---------------------------- MODULE LookupOptions ----------------------------
(***************************************************************************)
(* The options of one lookup type (document sources, owner roles, ...), as *)
(* an administrator edits them.  A row of app_lookup_option is never       *)
(* changed: its version is closed and a successor is inserted, and an edit *)
(* that moves the others rewrites those as well, each close and insert a   *)
(* transaction of its own that may fail.                                   *)
(*                                                                         *)
(* Closed and removed rows are never read again: `options' holds the       *)
(* others.  As long as the table has no row of the type at all, and        *)
(* whenever it cannot be read, the pages show, and the operations work on, *)
(* default rows.  Days are numbers, a label is its rank in the order of    *)
(* labels, and the identifier of a row is the row; but whether a stored    *)
(* row bears the identifier of the default row it equals depends on the    *)
(* seed and on the rewrites since.                                         *)
(***************************************************************************)
EXTENDS Handlers, SequencesExt

CONSTANTS DefaultOptions,    \* the default options: a sequence of <<code, label>>
          OptionCodes, OptionLabels, LastDay,
          OptionWindows,     \* the validity windows asked for: <<from, to>>
          FilledIn,          \* whether the type is seeded: a set of Booleans
          MaxOptions         \* bound on the options at a time

FirstDay == 0
NoOption == [code |-> "none"]
SortInputs == 1 .. MaxOptions + 1

\* The default options of a type have different labels.
ASSUME OptionsAssumption ==
    /\ DefaultOptions \in Seq(OptionCodes \X OptionLabels) /\ Len(DefaultOptions) <= MaxOptions
    /\ \A i, j \in DOMAIN DefaultOptions : i # j => DefaultOptions[i][2] # DefaultOptions[j][2]
    /\ OptionLabels \subseteq Int /\ OptionWindows \subseteq Int \X Int
    /\ LastDay \in Nat /\ MaxOptions \in Nat /\ FilledIn \subseteq BOOLEAN

VARIABLES
    options,  \* the current rows of app_lookup_option that are not removed
    stored,   \* the table has a row of the type, be it closed or removed
    cutShort, \* a statement that writes has failed
    misled    \* an operation has worked on the default rows of a failed read

optionVars == <<options, stored, cutShort, misled>>

Option(code, label, sort, window) ==
    [code |-> code, label |-> label, sort |-> sort, from |-> window[1], to |-> window[2]]

_default_lookup_option_rows ==
    {Option(DefaultOptions[i][1], DefaultOptions[i][2], i, <<FirstDay, LastDay>>) :
        i \in DOMAIN DefaultOptions}

\* The seeds fill the types in, a database without them has none.
OptionsInit ==
    /\ stored \in FilledIn
    /\ options = IF stored THEN _default_lookup_option_rows ELSE {}
    /\ cutShort = FALSE /\ misled = FALSE

OptionsTypeOK ==
    /\ \A o \in options : /\ o.code \in OptionCodes /\ o.label \in OptionLabels
                          /\ o.sort \in 1 .. MaxOptions
                          /\ <<o.from, o.to>> \in OptionWindows \cup {<<FirstDay, LastDay>>}
    /\ Cardinality(options) <= MaxOptions
    /\ {stored, cutShort, misled} \subseteq BOOLEAN

-----------------------------------------------------------------------------
(* Read.                                                                   *)

\* Whether a read fails: an empty frame then, which the defaults replace and
\* which is kept until the next write or for 300 seconds.
Failing == IF Faults THEN BOOLEAN ELSE {FALSE}

_lookup_versions_frame(failed) ==
    IF stored /\ ~failed THEN options ELSE _default_lookup_option_rows

_lookup_windows_overlap(a, b) == a.from <= b.to /\ b.from <= a.to

_lookup_status_for_window(o, day) ==
    IF o.to < day THEN "historical" ELSE IF o.from > day THEN "future" ELSE "active"

list_lookup_options(day, failed) ==
    {o \in _lookup_versions_frame(failed) : _lookup_status_for_window(o, day) = "active"}

\* What the forms offer on a day (list_owner_role_options and the others of its
\* kind): the codes of the active options, or those of the defaults.
OfferedCodes(day, failed) ==
    LET active == list_lookup_options(day, failed)
    IN {o.code : o \in IF active = {} THEN _default_lookup_option_rows ELSE active}

-----------------------------------------------------------------------------
(* Write.                                                                  *)

\* By sort order, then by label; further ties fall as the identifiers do.
Ranked(rows) ==
    {order \in SetToSeqs(rows) :
        \A i, j \in DOMAIN order : i < j =>
            \/ order[i].sort < order[j].sort
            \/ order[i].sort = order[j].sort /\ order[i].label <= order[j].label}

BadRenumbered(rows) == rows                 \* the ranks are left as they are
Renumbered(rows) == [i \in DOMAIN rows |-> [rows[i] EXCEPT !.sort = i]]

\* What is left of rows when the first closed versions are closed and the first
\* inserted successors are there.  pairs: a sequence of <<version, successor>>,
\* some of which do not differ.
Differ(pairs, n) == {i \in 1 .. n : pairs[i][1] # pairs[i][2]}
Rewritten(rows, pairs, closed, inserted) ==
    (rows \ {pairs[i][1] : i \in Differ(pairs, closed)})
        \cup {pairs[i][2] : i \in Differ(pairs, inserted)}

BadRewrite(unnamed, rows, any, pairs) ==    \* the last successor is not inserted
    /\ options' = unnamed \cup Rewritten(rows, pairs, Len(pairs), Len(pairs) - 1)
    /\ stored' = TRUE
    /\ UNCHANGED cutShort
\* The table is left with unnamed and rows so far; any: it has rows of the type.
\* The versions in rows that differ from their successors are closed one by one,
\* then those successors are inserted.  No statement names a row of unnamed.
Rewrite(unnamed, rows, any, pairs) ==
    \E closed, inserted \in 0 .. Len(pairs) :
        /\ inserted > 0 => closed = Len(pairs)
        /\ Faults \/ inserted = Len(pairs)
        /\ options' = unnamed \cup Rewritten(rows, pairs, closed, inserted)
        /\ stored' = (any \/ Differ(pairs, inserted) # {})
        /\ cutShort' = (cutShort \/ Differ(pairs, inserted) # Differ(pairs, Len(pairs)))

\* The option a form names, or else the only one of its code.
SelectedOption(frame, form, code) ==
    LET named == {o \in frame : o.code = code}
    IN IF form # NoOption THEN form
       ELSE IF Cardinality(named) = 1 THEN CHOOSE o \in named : TRUE ELSE NoOption

\* Default rows need not be in the table: closing them may do nothing.
StoredRows == IF stored THEN options ELSE {}

\* The rows of the table whose identifiers a read returns: all of them, or those
\* that bear the identifier of a default row.
Named(rows, failed) ==
    IF failed THEN SUBSET (rows \cap _default_lookup_option_rows) ELSE {rows}

save_lookup_option(form, code, label, sort, window, failed) ==
    LET frame == _lookup_versions_frame(failed)
        selected == SelectedOption(frame, form, code)
        target == Option(code, label, sort, window)
        others == frame \ {selected}
        overlapping == {o \in others : _lookup_windows_overlap(target, o)}
    IN /\ form \in frame \cup {NoOption} /\ (failed => stored)
       /\ window[1] <= window[2]
       /\ \A o \in overlapping : o.label # label
       /\ Cardinality(others) < MaxOptions
       /\ \E ranked \in Ranked(overlapping), named \in Named(StoredRows, failed) :
            LET at == Min({sort, Len(ranked) + 1})
                before == InsertAt(ranked, at, selected)
                after == Renumbered(InsertAt(ranked, at, target))
            IN Rewrite(StoredRows \ named, named, stored,
                       [i \in DOMAIN after |-> <<before[i], after[i]>>])
       /\ Cardinality(options') <= MaxOptions
       /\ misled' = (misled \/ failed)

\* Close the option, insert a removed successor, read the rest again and close
\* the ranks behind it.
delete_lookup_option(target, failed) ==
    /\ target \in _lookup_versions_frame(failed) /\ (failed => stored)
    /\ \E closed \in Named(StoredRows, failed) :
         LET rest == StoredRows \ (closed \cap {target})
         IN \/ /\ Faults
               /\ options' = rest /\ cutShort' = TRUE /\ misled' = (misled \/ failed)
               /\ UNCHANGED stored
            \/ \E again \in Failing : \E named \in Named(rest, again) :
                 LET frame == IF again THEN _default_lookup_option_rows ELSE rest
                     overlapping == {o \in frame : _lookup_windows_overlap(target, o)}
                 IN /\ \E ranked \in Ranked(overlapping) :
                         LET after == Renumbered(ranked)
                         IN Rewrite(rest \ named, named, TRUE,
                                    [i \in DOMAIN after |-> <<ranked[i], after[i]>>])
                    /\ misled' = (misled \/ failed \/ again)
    /\ Cardinality(options') <= MaxOptions

save_lookup_option_submit(p, form, code, label, sort, window, failed) ==
    /\ MayManage(p, "admin_lookup_manage")
    /\ save_lookup_option(form, code, label, sort, window, failed)

delete_lookup_option_submit(p, target, failed) ==
    MayManage(p, "admin_lookup_manage") /\ delete_lookup_option(target, failed)

OptionsNext ==
    \E p \in Policies, failed \in Failing :
        \/ \E form \in _lookup_versions_frame(failed) \cup {NoOption}, code \in OptionCodes,
              label \in OptionLabels, sort \in SortInputs, window \in OptionWindows :
             save_lookup_option_submit(p, form, code, label, sort, window, failed)
        \/ \E o \in _lookup_versions_frame(failed) : delete_lookup_option_submit(p, o, failed)

OptionsSpec == OptionsInit /\ [][OptionsNext]_optionVars

-----------------------------------------------------------------------------
(* Properties.                                                             *)

(* No two options that are valid on a same day have the same label,        *)
(* whatever was saved, moved and removed and wherever a rewrite stopped:   *)
(* the forms offer the labels, and a record keeps the code.  With windows  *)
(* that all overlap and a table that is filled in their ranks are 1 to n,  *)
(* unless a rewrite has been cut short: each operation closes the gap or   *)
(* makes the room it needs.  All of it holds as long as every operation    *)
(* has read the table: one that was given the default rows instead checks  *)
(* its label against those, and moves those.                               *)
OptionsInOrder ==
    LET windows == OptionWindows \cup {<<FirstDay, LastDay>>}
        overlapping == \A v, w \in windows : v[1] <= w[2] /\ w[1] <= v[2]
    IN ~misled =>
        /\ \A a, b \in options : a # b /\ _lookup_windows_overlap(a, b) => a.label # b.label
        /\ FilledIn = {TRUE} /\ ~cutShort /\ overlapping =>
             {o.sort : o \in options} = 1 .. Cardinality(options)

(* Saving or removing one option of a table that is filled in loses the    *)
(* label of no other, unless a statement that writes failed; not even an   *)
(* operation that was given the default rows for the stored ones does.     *)
OthersStay ==
    [][stored /\ ~cutShort' =>
         Cardinality({o.label : o \in options} \ {o.label : o \in options'}) <= 1]_optionVars
=============================================================================
