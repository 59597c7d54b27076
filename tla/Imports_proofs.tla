---------------------------- MODULE Imports_proofs ----------------------------
(***************************************************************************)
(* Imports: their safety properties for any files, columns, matches and    *)
(* number of vendors, offerings, uploads and jobs; and, with the           *)
(* properties of the other components, that whatever is filed under an     *)
(* offering of the catalogue is filed under the vendor of that offering,   *)
(* and that the catalogue keeps its types.                                 *)
(***************************************************************************)
EXTENDS MCCatalogue, Catalogue_proofs, FiniteSetTheorems, SequenceTheorems

-----------------------------------------------------------------------------
(* The invariant                                                           *)

RunFields == {"preview", "reason", "at", "phase", "status", "vendor", "offering", "made",
              "groups", "todo", "context", "created", "merged", "skipped", "failed"}

\* The children that are stored under a key at a place; they are its copies,
\* numbered in the order in which they were entered.
Siblings(place, key) == {c \in children : PlaceOf(c) = place /\ c.key = key}

Copied ==
    /\ IsFiniteSet(children)
    /\ \A c \in children : c.copy \in 1 .. Cardinality(Siblings(PlaceOf(c), c.key))
    /\ ChildrenOnce

\* Children come from an upload that has been applied.
Uploaded == \A c \in children : c.upload \in Uploads /\ uploads[c.upload] = 1

\* Children have the vendor of their offering, which keeps its vendor.
FiledWith(v, o) == o # None => o \in There(offeringRows) /\ offeringRows[o].vendor = v

FiledRight ==
    /\ \A o \in There(offeringRows) : "vendor" \in DOMAIN offeringRows[o]
    /\ \A c \in children : FiledWith(c.vendor, c.offering)

\* What is known of the children at a place: those of the run by the names it
\* reported, the others by their keys, if those could be read.
Recalls(c, upload, known) ==
    IF c.upload = upload THEN c.reported => c.name \in known.keys
    ELSE known.read => c.key \in known.keys

Remembers(r) ==
    \A c \in children :
        /\ c.upload = r.preview.token[1] => PlaceOf(c) \in DOMAIN r.context
        /\ PlaceOf(c) \in DOMAIN r.context
             => Recalls(c, r.preview.token[1], r.context[PlaceOf(c)])

\* The rows done so far are those counted.
Counts(r) ==
    /\ r.at \in Nat /\ r.at <= Len(r.preview.rows) + 1
    /\ {r.created, r.merged, r.skipped, r.failed} \subseteq Nat
    /\ r.created + r.merged + r.skipped + r.failed = r.at - 1
    /\ r.phase = "areas" => r.status \in {"created", "merged"}

\* A preview has a job for as many rows, unless staging failed.
PreviewOK(p, table) ==
    /\ p.token \in Uploads \X Nat
    /\ p.file \in DOMAIN Files /\ p.layout \in {"vendors", "offerings", "projects"}
    /\ Len(p.rows) \in Nat
    /\ p.job \in There(table) \cup {None}
    /\ p.job # None => table[p.job].rows = Len(p.rows)

\* There is one preview of an upload at most.
Store(s) ==
    /\ s \in Seq(ToSet(s))
    /\ \A i, j \in DOMAIN s : i # j => s[i].token[1] # s[j].token[1]

\* A preview that waits has not been applied, but for the one that is being applied.
Waiting ==
    /\ Store(previews)
    /\ \A i \in DOMAIN previews :
         /\ PreviewOK(previews[i], jobs)
         /\ \/ uploads[previews[i].token[1]] = 0
            \/ run # NoRun /\ previews[i].token = run.preview.token
    /\ uploads \in [Uploads -> {NoRow, 0, 1}]

RunOK ==
    run # NoRun =>
        /\ DOMAIN run = RunFields
        /\ Remembers(run)
        /\ Counts(run)
        /\ PreviewOK(run.preview, jobs)
        /\ uploads[run.preview.token[1]] = 1

JobFields == {"status", "rows", "created", "merged", "skipped", "failed"}

Accounted(b) ==
    jobs[b].status # "staged" =>
        /\ jobs[b].created + jobs[b].merged + jobs[b].skipped + jobs[b].failed = jobs[b].rows
        /\ jobs[b].status = "applied" <=> jobs[b].failed = 0

Accounts == \A b \in There(jobs) : DOMAIN jobs[b] = JobFields /\ Accounted(b)

ImportsInv ==
    /\ Copied /\ Uploaded /\ FiledRight /\ RunOK /\ Waiting /\ Accounts
    /\ There(jobs) \subseteq JobIds

-----------------------------------------------------------------------------
(* A child more                                                            *)

LEMMA ChildFields ==
    ASSUME NEW area, NEW v, NEW o, NEW name, NEW read, NEW reported
    PROVE  LET x == NewChild(area, v, o, name, read, reported)
           IN /\ x.vendor = v /\ x.offering = o /\ x.name = name
              /\ PlaceOf(x) = Place(area, v, o) /\ x.key = StoredAs(area, name)
              /\ x.upload = run.preview.token[1] /\ x.read = read /\ x.reported = reported
              /\ x.copy = Cardinality(Siblings(Place(area, v, o), StoredAs(area, name))) + 1
BY DEF NewChild, PlaceOf, Siblings

LEMMA ChildAdded ==
    ASSUME Copied, NEW area, NEW v, NEW o, NEW name, NEW read, NEW reported,
           \A d \in Siblings(Place(area, v, o), StoredAs(area, name)) :
              IF d.upload = run.preview.token[1] THEN d.name = name => ~d.reported
              ELSE read => name # StoredAs(area, name),
           children' = children \cup {NewChild(area, v, o, name, read, reported)}
    PROVE  Copied'
<1> DEFINE place == Place(area, v, o)
           key == StoredAs(area, name)
           S == Siblings(place, key)
           n == Cardinality(S)
           x == NewChild(area, v, o, name, read, reported)
           Theirs(c) == Siblings(PlaceOf(c), c.key)
<1>1. IsFiniteSet(children) /\ IsFiniteSet(S) /\ n \in Nat
  <2>1. IsFiniteSet(children) /\ S \subseteq children
    BY DEF Copied, Siblings
  <2> QED BY <2>1, FS_Subset, FS_CardinalityType
<1>2. /\ children' = children \cup {x} /\ PlaceOf(x) = place /\ x.key = key /\ x.name = name
      /\ x.upload = run.preview.token[1] /\ x.read = read /\ x.copy = n + 1
  BY ChildFields
<1>3. \A d \in S : IF d.upload = x.upload THEN d.name = name => ~d.reported ELSE read => name # key
  BY <1>2
<1> HIDE DEF n, x, place, key
<1>4. \A c \in S : c \in children /\ c.copy \in 1 .. n /\ PlaceOf(c) = place /\ c.key = key
  BY DEF Copied, Siblings, n
<1>5. x \notin S
  <2>1. ~(n + 1 \in 1 .. n)
    BY <1>1
  <2> QED BY <1>2, <1>4, <2>1
<1>6. IsFiniteSet(children')
  BY <1>1, <1>2, FS_AddElement
<1>7. Cardinality(S \cup {x}) = n + 1
  BY <1>1, <1>5, FS_AddElement DEF n
<1>8. ASSUME NEW c \in children'
      PROVE  \/ Theirs(c)' = S \cup {x} /\ c \in S \cup {x}
             \/ c \in children /\ Theirs(c)' = Theirs(c)
  BY <1>2 DEF Siblings, PlaceOf
<1>9. ASSUME NEW c \in children'
      PROVE  c.copy \in 1 .. Cardinality(Theirs(c)')
  <2>1. CASE c \in S \cup {x} /\ Theirs(c)' = S \cup {x}
    <3>1. c.copy \in 1 .. n + 1
      BY <1>1, <1>2, <1>4, <2>1
    <3> QED BY <1>7, <2>1, <3>1
  <2>2. CASE c \in children /\ Theirs(c)' = Theirs(c)
    BY <2>2 DEF Copied
  <2> QED BY <1>8, <2>1, <2>2
<1>10. ASSUME NEW c \in children', NEW d \in children', PlaceOf(c) = PlaceOf(d), c.key = d.key,
              d.copy < c.copy
       PROVE  IF c.upload = d.upload THEN d.name = c.name => ~d.reported ELSE c.read => c.name # c.key
  <2>1. CASE c \in children /\ d \in children
    BY <1>10, <2>1 DEF Copied, ChildrenOnce
  <2>2. CASE c = x /\ d \in children
    <3>1. d \in S
      BY <1>2, <1>10, <2>2 DEF Siblings
    <3> QED BY <1>2, <1>3, <2>2, <3>1
  <2>3. CASE d = x
    <3>1. c \in S \cup {x}
      BY <1>2, <1>10, <2>3 DEF Siblings
    <3>2. c.copy \in Int /\ c.copy <= n + 1
      BY <1>1, <1>2, <1>4, <3>1
    <3> QED BY <1>1, <1>2, <1>10, <2>3, <3>2
  <2> QED BY <1>2, <2>1, <2>2, <2>3
<1>11. ChildrenOnce'
  BY <1>10 DEF ChildrenOnce, PlaceOf
<1>12. \A c \in children' : c.copy \in 1 .. Cardinality(Siblings(PlaceOf(c), c.key)')
  BY <1>9
<1> QED BY <1>6, <1>11, <1>12 DEF Copied, PlaceOf

\* What may be known of a place holds of the children that are there.
LEMMA LoadRecalls ==
    ASSUME Remembers(run), NEW place, NEW loaded \in _load_keys(place),
           NEW c \in children, PlaceOf(c) = place
    PROVE  Recalls(c, run.preview.token[1], loaded)
<1>1. CASE place \in DOMAIN run.context
  BY <1>1 DEF Remembers, _load_keys
<1>2. CASE place \notin DOMAIN run.context
  <2>1. c.upload # run.preview.token[1]
    BY <1>2 DEF Remembers
  <2>2. loaded.read => loaded.keys = {d.key : d \in {e \in children : PlaceOf(e) = place}}
    BY <1>2 DEF _load_keys
  <2> QED BY <2>1, <2>2 DEF Recalls
<1> QED BY <1>1, <1>2

-----------------------------------------------------------------------------
(* What a step of a run does                                               *)

Outcomes == {"created", "merged", "skipped", "failed"}

\* A run that is where run is, and has counted as much.
Level(r) ==
    /\ DOMAIN r = RunFields /\ r.preview = run.preview /\ r.at = run.at
    /\ r.created = run.created /\ r.merged = run.merged
    /\ r.skipped = run.skipped /\ r.failed = run.failed

\* It stays at its row or is done with it.
Went ==
    \/ Level(run') /\ (run'.phase = "areas" => run'.status \in {"created", "merged"})
    \/ /\ DOMAIN run' = RunFields /\ run'.preview = run.preview /\ run'.at = run.at + 1
       /\ run'.phase = "primary"
       /\ \E status \in Outcomes :
            /\ run'.created = run.created + (IF status = "created" THEN 1 ELSE 0)
            /\ run'.merged  = run.merged  + (IF status = "merged"  THEN 1 ELSE 0)
            /\ run'.skipped = run.skipped + (IF status = "skipped" THEN 1 ELSE 0)
            /\ run'.failed  = run.failed  + (IF status = "failed"  THEN 1 ELSE 0)

\* What is known when a child was entered: its name, if that was reported.
Learnt(loaded, name, reported) ==
    IF reported THEN [keys |-> loaded.keys \cup {name}, read |-> loaded.read] ELSE loaded

\* Nothing new is known or there, or one child more.
Noted ==
    \/ UNCHANGED children /\ run'.context = run.context
    \/ \E area, v, o : \E loaded \in _load_keys(Place(area, v, o)) :
         \/ UNCHANGED children /\ run'.context = Knowing(Place(area, v, o), loaded)
         \/ \E name : \E reported \in BOOLEAN :
              /\ name \notin loaded.keys /\ FiledWith(v, o)
              /\ children' = children \cup {NewChild(area, v, o, name, loaded.read, reported)}
              /\ run'.context = Knowing(Place(area, v, o), Learnt(loaded, name, reported))

\* Offerings stay with their vendors.
RowsKept ==
    /\ \A o \in There(offeringRows) :
         o \in There(offeringRows)' /\ offeringRows'[o].vendor = offeringRows[o].vendor
    /\ \A o \in There(offeringRows)' : "vendor" \in DOMAIN offeringRows'[o]

LEMMA DoneGoes ==
    ASSUME NEW r, Level(r), NEW status \in Outcomes, RowDone(r, status)
    PROVE  Went /\ run'.context = r.context
<1>1. DOMAIN run' = RunFields
  BY DEF RowDone, Level, RunFields
<1>2. /\ run'.preview = r.preview /\ run'.at = r.at + 1 /\ run'.phase = "primary"
      /\ run'.context = r.context
  BY DEF RowDone, Level, RunFields
<1>3. /\ run'.created = r.created + (IF status = "created" THEN 1 ELSE 0)
      /\ run'.merged  = r.merged  + (IF status = "merged"  THEN 1 ELSE 0)
      /\ run'.skipped = r.skipped + (IF status = "skipped" THEN 1 ELSE 0)
      /\ run'.failed  = r.failed  + (IF status = "failed"  THEN 1 ELSE 0)
  BY DEF RowDone, Level, RunFields
<1> QED BY <1>1, <1>2, <1>3 DEF Went, Level

LEMMA AreaGoes ==
    ASSUME NEW r, Level(r), AreaDone(r), r.phase = run.phase, r.status = run.status, Counts(run)
    PROVE  Went /\ run'.context = r.context
<1>1. Level(run') /\ run'.phase = r.phase /\ run'.status = r.status /\ run'.context = r.context
  BY DEF AreaDone, Level, RunFields
<1> QED BY <1>1 DEF Went, Counts

LEMMA ToAreasGoes ==
    ASSUME NEW r, Level(r), NEW status \in {"created", "merged"}, NEW v, NEW o,
           OnToAreas(r, status, v, o)
    PROVE  Went /\ run'.context = r.context
<1>1. Level(run') /\ run'.status = status /\ run'.context = r.context
  BY DEF OnToAreas, Level, RunFields
<1> QED BY <1>1 DEF Went

LEMMA NothingNoted ==
    ASSUME UNCHANGED children, run'.context = run.context
    PROVE  Noted
BY DEF Noted

LEMMA RefusedGoes ==
    ASSUME Level(run), FiledRight, Refused
    PROVE  Went /\ Noted /\ RowsKept
<1>1. Went /\ run'.context = run.context
  BY DoneGoes DEF Refused, Outcomes
<1>2. UNCHANGED children /\ RowsKept
  BY DEF Refused, catalogue, RowsKept, There, FiledRight
<1> QED BY <1>1, <1>2, NothingNoted

\* A write of the row that enters no child.
LEMMA WriteGoes ==
    ASSUME Level(run), FiledRight, NEW ACTION write, NEW ACTION next, Wrote(write, next),
           write => UNCHANGED children /\ RowsKept,
           next => Went /\ run'.context = run.context
    PROVE  Went /\ Noted /\ RowsKept
<1>1. UNCHANGED catalogue => UNCHANGED children /\ RowsKept
  BY DEF catalogue, RowsKept, There, FiledRight
<1>2. RowDone(run, "failed") => Went /\ run'.context = run.context
  BY DoneGoes DEF Outcomes
<1>3. UNCHANGED children /\ RowsKept
  BY <1>1 DEF Wrote
<1>4. Went /\ run'.context = run.context
  BY <1>2 DEF Wrote
<1> QED BY <1>3, <1>4, NothingNoted

-----------------------------------------------------------------------------
(* The steps                                                               *)

LEMMA OfferingWrites ==
    ASSUME FiledRight
    PROVE  /\ \A o \in OfferingIds \ There(offeringRows) : \A v, name :
                OfferingCreated(o, v, name) => UNCHANGED children /\ RowsKept
           /\ \A o, name : OfferingUpdated(o, name) => UNCHANGED children /\ RowsKept
<1>1. ASSUME NEW o \in OfferingIds \ There(offeringRows), NEW v, NEW name, OfferingCreated(o, v, name)
      PROVE  UNCHANGED children /\ RowsKept
  <2>1. offeringRows' = Entered(offeringRows, o, [vendor |-> v, name |-> name])
    BY <1>1 DEF OfferingCreated
  <2>2. DOMAIN offeringRows' = DOMAIN offeringRows \cup {o}
    BY <2>1 DEF Entered
  <2>3. offeringRows'[o] = [vendor |-> v, name |-> name]
        /\ \A d \in DOMAIN offeringRows : offeringRows'[d] = offeringRows[d]
    BY <2>1 DEF Entered, There
  <2> QED BY <1>1, <2>2, <2>3 DEF OfferingCreated, RowsKept, There, FiledRight
<1>2. ASSUME NEW o, NEW name, OfferingUpdated(o, name)
      PROVE  UNCHANGED children /\ RowsKept
  <2>1. offeringRows' = [offeringRows EXCEPT ![o].name = name]
    BY <1>2 DEF OfferingUpdated
  <2>2. DOMAIN offeringRows' = DOMAIN offeringRows
    BY <2>1
  <2>3. \A d \in DOMAIN offeringRows :
           "vendor" \in DOMAIN offeringRows'[d] /\ offeringRows'[d].vendor = offeringRows[d].vendor
    BY <2>1 DEF FiledRight, There
  <2> QED BY <1>2, <2>2, <2>3 DEF OfferingUpdated, RowsKept, There
<1> QED BY <1>1, <1>2

\* A project is written without children or offerings.
LEMMA ProjectGoes ==
    ASSUME Level(run), FiledRight, NEW j, NEW row, NEW halfway, NEW ACTION next,
           ProjectWritten(j, row, halfway, next), next => Went /\ run'.context = run.context
    PROVE  Went /\ Noted /\ RowsKept
<1>1. \A r : ProjectBecomes(j, r) => UNCHANGED children /\ RowsKept
  BY DEF ProjectBecomes, RowsKept, There, FiledRight
<1>2. UNCHANGED catalogue => UNCHANGED children /\ RowsKept
  BY DEF catalogue, RowsKept, There, FiledRight
<1>3. UNCHANGED children /\ RowsKept
  BY <1>1, <1>2 DEF ProjectWritten
<1>4. RowDone(run, "failed") => Went /\ run'.context = run.context
  BY DoneGoes DEF Outcomes
<1>5. Went /\ run'.context = run.context
  BY <1>4 DEF ProjectWritten
<1> QED BY <1>3, <1>5, NothingNoted

LEMMA ProjectWritesGo ==
    ASSUME Level(run), FiledRight, NEW ACTION next, next => Went /\ run'.context = run.context
    PROVE  /\ \A name, v : ProjectCreated(name, v, next) => Went /\ Noted /\ RowsKept
           /\ \A j, name, v : ProjectMerged(j, name, v, next) => Went /\ Noted /\ RowsKept
BY ProjectGoes DEF ProjectCreated, ProjectMerged

LEMMA OfferingRowGoes ==
    ASSUME Level(run), FiledRight, NEW action, NEW target, apply_offering_row(action, target)
    PROVE  Went /\ Noted /\ RowsKept
<1> DEFINE data == FileRow.data
           given == IF data.vendor # None THEN data.vendor ELSE FileRow.vendor
           v == IF given # None \/ target \notin There(offeringRows) THEN given
                ELSE offeringRows[target].vendor
<1>1. \/ \E o \in OfferingIds \ There(offeringRows) :
            Wrote(OfferingCreated(o, given, data.name), OnToAreas(run, "created", given, o))
      \/ Wrote(OfferingUpdated(target, data.name), OnToAreas(run, "merged", v, target))
      \/ Refused
  BY DEF apply_offering_row
<1> HIDE DEF data, given, v
<1>2. ASSUME NEW o \in OfferingIds \ There(offeringRows),
             Wrote(OfferingCreated(o, given, data.name), OnToAreas(run, "created", given, o))
      PROVE  Went /\ Noted /\ RowsKept
  <2>1. OfferingCreated(o, given, data.name) => UNCHANGED children /\ RowsKept
    BY OfferingWrites
  <2>2. OnToAreas(run, "created", given, o) => Went /\ run'.context = run.context
    BY ToAreasGoes
  <2> QED BY <1>2, <2>1, <2>2, WriteGoes
<1>3. CASE Wrote(OfferingUpdated(target, data.name), OnToAreas(run, "merged", v, target))
  <2>1. OfferingUpdated(target, data.name) => UNCHANGED children /\ RowsKept
    BY OfferingWrites
  <2>2. OnToAreas(run, "merged", v, target) => Went /\ run'.context = run.context
    BY ToAreasGoes
  <2> QED BY <1>3, <2>1, <2>2, WriteGoes
<1> QED BY <1>1, <1>2, <1>3, RefusedGoes

LEMMA ProjectRowGoes ==
    ASSUME Level(run), FiledRight, NEW action, NEW target, apply_project_row(action, target)
    PROVE  Went /\ Noted /\ RowsKept
<1> DEFINE data == FileRow.data
           v == IF data.vendor # None THEN data.vendor ELSE projectRows[target].vendor
<1>1. \/ ProjectCreated(data.name, data.vendor, OnToAreas(run, "created", data.vendor, None))
      \/ ProjectMerged(target, data.name, v, OnToAreas(run, "merged", v, None))
      \/ Refused
  BY DEF apply_project_row
<1> HIDE DEF data, v
<1>2. /\ OnToAreas(run, "created", data.vendor, None) => Went /\ run'.context = run.context
      /\ OnToAreas(run, "merged", v, None) => Went /\ run'.context = run.context
  BY ToAreasGoes
<1> QED BY <1>1, <1>2, ProjectWritesGo, RefusedGoes

\* What becomes of a contact, an owner or a contract: it is known or fails,
\* or it is entered, where that is allowed.
LEMMA Additions ==
    ASSUME NEW area, NEW v, NEW o, NEW name, NEW allowed,
           NEW done \in maybe_add(area, v, o, name, allowed)
    PROVE  \E loaded \in _load_keys(Place(area, v, o)) :
              \/ /\ done.children = children
                 /\ done.context = Knowing(Place(area, v, o), loaded)
              \/ /\ allowed /\ name \notin loaded.keys
                 /\ \E reported \in BOOLEAN :
                      /\ done.children = children \cup {NewChild(area, v, o, name, loaded.read, reported)}
                      /\ done.context = Knowing(Place(area, v, o), Learnt(loaded, name, reported))
<1> DEFINE place == Place(area, v, o)
           Child(loaded, reported) == NewChild(area, v, o, name, loaded.read, reported)
           Outcome(outcome, entered, loaded) ==
               [outcome |-> outcome, children |-> children \cup entered, context |-> Knowing(place, loaded)]
           Out(loaded) ==
               IF name \in loaded.keys THEN {Outcome("known", {}, loaded)}
               ELSE IF ~allowed THEN {Outcome("failed", {}, loaded)}
               ELSE {Outcome("added", {Child(loaded, TRUE)},
                             [keys |-> loaded.keys \cup {name}, read |-> loaded.read])}
                    \cup IF ~Faults THEN {}
                         ELSE {Outcome("failed", entered, loaded) : entered \in {{}, {Child(loaded, FALSE)}}}
<1>1. PICK loaded \in _load_keys(place) : done \in Out(loaded)
  BY DEF maybe_add
<1> HIDE DEF Child, place
<1>2. \/ done = Outcome("known", {}, loaded) \/ done = Outcome("failed", {}, loaded)
      \/ /\ allowed /\ name \notin loaded.keys
         /\ \/ done = Outcome("added", {Child(loaded, TRUE)},
                             [keys |-> loaded.keys \cup {name}, read |-> loaded.read])
            \/ done = Outcome("failed", {Child(loaded, FALSE)}, loaded)
  <2> HIDE DEF Outcome
  <2> QED BY <1>1
<1>3. \A outcome, entered, l :
        /\ Outcome(outcome, entered, l).children = children \cup entered
        /\ Outcome(outcome, entered, l).context = Knowing(place, l)
  OBVIOUS
<1> HIDE DEF Outcome
<1>4. CASE done = Outcome("known", {}, loaded) \/ done = Outcome("failed", {}, loaded)
  <2> DEFINE k == Outcome("known", {}, loaded)
             f == Outcome("failed", {}, loaded)
  <2>0. /\ k.children = children \cup {} /\ k.context = Knowing(place, loaded)
        /\ f.children = children \cup {} /\ f.context = Knowing(place, loaded)
    BY <1>3
  <2>1. done.children = children /\ done.context = Knowing(place, loaded)
    <3> HIDE DEF k, f
    <3>1. done = k \/ done = f
      BY <1>4 DEF k, f
    <3> QED BY <2>0, <3>1
  <2> QED BY <1>1, <2>1 DEF place
<1>5. CASE allowed /\ name \notin loaded.keys /\ done = Outcome("failed", {Child(loaded, FALSE)}, loaded)
  <2>1. /\ done.children = children \cup {Child(loaded, FALSE)}
        /\ done.context = Knowing(place, Learnt(loaded, name, FALSE))
    BY <1>3, <1>5 DEF Learnt
  <2> QED BY <1>1, <1>5, <2>1 DEF place, Child
<1>6. CASE /\ allowed /\ name \notin loaded.keys
           /\ done = Outcome("added", {Child(loaded, TRUE)},
                             [keys |-> loaded.keys \cup {name}, read |-> loaded.read])
  <2> DEFINE more == [keys |-> loaded.keys \cup {name}, read |-> loaded.read]
  <2>0. more = Learnt(loaded, name, TRUE)
    BY DEF Learnt
  <2> HIDE DEF more
  <2>1. /\ done.children = children \cup {Child(loaded, TRUE)}
        /\ done.context = Knowing(place, Learnt(loaded, name, TRUE))
    BY <1>3, <1>6, <2>0 DEF more
  <2> QED BY <1>1, <1>6, <2>1 DEF place, Child
<1> QED BY <1>2, <1>4, <1>5, <1>6

LEMMA AdditionNoted ==
    ASSUME NEW area, NEW v, NEW o, NEW name, NEW allowed, allowed => FiledWith(v, o),
           NEW done \in maybe_add(area, v, o, name, allowed),
           children' = done.children, run'.context = done.context
    PROVE  Noted
<1>1. PICK loaded \in _load_keys(Place(area, v, o)) :
         \/ /\ done.children = children
            /\ done.context = Knowing(Place(area, v, o), loaded)
         \/ /\ allowed /\ name \notin loaded.keys
            /\ \E reported \in BOOLEAN :
                 /\ done.children = children \cup {NewChild(area, v, o, name, loaded.read, reported)}
                 /\ done.context = Knowing(Place(area, v, o), Learnt(loaded, name, reported))
  BY Additions
<1> QED BY <1>1 DEF Noted

\* A vendor comes with its support contact, which may be known.
Supports(v, allowed) ==
    IF FileRow.data.contact = None
    THEN {[outcome |-> "known", children |-> children, context |-> run.context]}
    ELSE maybe_add("vendor_contact", v, None, FileRow.data.contact, allowed)

VendorSupport(v, allowed, status, updated) ==
    \E done \in Supports(v, allowed) :
       LET r == [run EXCEPT !.context = done.context]
       IN /\ children' = done.children
          /\ IF done.outcome = "failed" \/ (done.outcome = "known" /\ ~updated)
             THEN RowDone(r, "failed") ELSE OnToAreas(r, status, v, None)

VendorFails == RowDone(run, "failed") /\ UNCHANGED children

\* The steps of a row of a vendor.
LEMMA VendorRowCases ==
    ASSUME NEW action, NEW target, apply_vendor_row(action, target)
    PROVE  LET name == FileRow.data.name
           IN \/ /\ name # None
                 /\ \E v \in VendorIds \ There(vendorRows) :
                      /\ vendorRows' = Entered(vendorRows, v, [name |-> name])
                      /\ VendorSupport(v, TRUE, "created", TRUE) \/ VendorFails
                 /\ UNCHANGED <<offeringRows, projectRows>>
              \/ /\ name # None /\ target \in There(vendorRows)
                 /\ vendorRows' = Entered(vendorRows, target, [vendorRows[target] EXCEPT !.name = name])
                 /\ VendorSupport(target, TRUE, "merged", TRUE) \/ VendorFails
                 /\ UNCHANGED <<offeringRows, projectRows>>
              \/ /\ VendorSupport(target, target \in There(vendorRows), "merged", FALSE)
                 /\ UNCHANGED <<vendorRows, offeringRows, projectRows>>
              \/ Refused
BY ZenonT(60) DEF apply_vendor_row, VendorSupport, Supports, VendorFails

LEMMA SupportGoes ==
    ASSUME Level(run), NEW v, NEW allowed, NEW status \in {"created", "merged"}, NEW updated,
           VendorSupport(v, allowed, status, updated)
    PROVE  Went /\ Noted
<1>1. PICK done \in Supports(v, allowed) :
         /\ children' = done.children
         /\ \/ RowDone([run EXCEPT !.context = done.context], "failed")
            \/ OnToAreas([run EXCEPT !.context = done.context], status, v, None)
  BY DEF VendorSupport
<1> DEFINE r == [run EXCEPT !.context = done.context]
<1>2. Level(r) /\ r.context = done.context
  BY DEF Level, RunFields
<1>3. RowDone(r, "failed") \/ OnToAreas(r, status, v, None)
  BY <1>1
<1> HIDE DEF r
<1>4. Went /\ run'.context = done.context
  BY <1>2, <1>3, DoneGoes, ToAreasGoes DEF Outcomes
<1>5. CASE FileRow.data.contact = None
  <2>1. done = [outcome |-> "known", children |-> children, context |-> run.context]
    BY <1>5 DEF Supports
  <2>2. done.children = children /\ done.context = run.context
    BY <2>1
  <2> QED BY <1>1, <1>4, <2>2, NothingNoted
<1>6. CASE FileRow.data.contact # None
  <2>1. done \in maybe_add("vendor_contact", v, None, FileRow.data.contact, allowed)
    BY <1>6 DEF Supports
  <2>2. FiledWith(v, None)
    BY DEF FiledWith
  <2> QED BY <1>1, <1>4, <2>1, <2>2, AdditionNoted
<1> QED BY <1>5, <1>6

LEMMA VendorRowGoes ==
    ASSUME Level(run), FiledRight, NEW action, NEW target, apply_vendor_row(action, target)
    PROVE  Went /\ Noted /\ RowsKept
<1>1. \/ /\ \/ VendorFails
            \/ \E v, allowed, updated : \E status \in {"created", "merged"} :
                  VendorSupport(v, allowed, status, updated)
         /\ UNCHANGED <<offeringRows, projectRows>>
      \/ Refused
  BY VendorRowCases
<1>2. UNCHANGED <<offeringRows, projectRows>> => RowsKept
  BY DEF RowsKept, There, FiledRight
<1>3. VendorFails => Went /\ Noted
  BY DoneGoes, NothingNoted DEF VendorFails, Outcomes
<1> QED BY <1>1, <1>2, <1>3, SupportGoes, RefusedGoes

LEMMA RowGoes ==
    ASSUME Level(run), FiledRight, NEW action, NEW target, ApplyRow(action, target),
           run.preview.layout \in {"vendors", "offerings", "projects"}
    PROVE  Went /\ Noted /\ RowsKept
<1>1. CASE RowDone(run, "skipped") /\ UNCHANGED catalogue
  <2>1. Went /\ run'.context = run.context
    BY <1>1, DoneGoes DEF Outcomes
  <2>2. UNCHANGED children /\ RowsKept
    BY <1>1 DEF catalogue, RowsKept, There, FiledRight
  <2> QED BY <2>1, <2>2, NothingNoted
<1>2. CASE apply_import_row(action, target)
  <2>1. \/ apply_vendor_row(action, target)
        \/ apply_offering_row(action, target)
        \/ apply_project_row(action, target)
    BY <1>2 DEF apply_import_row
  <2> QED BY <2>1, VendorRowGoes, OfferingRowGoes, ProjectRowGoes
<1> QED BY <1>1, <1>2, RefusedGoes DEF ApplyRow

LEMMA SkippedGoes ==
    ASSUME Level(run), FiledRight, Counts(run), Skipped
    PROVE  Went /\ Noted /\ RowsKept
<1>1. Went /\ run'.context = run.context
  BY AreaGoes DEF Skipped
<1>2. UNCHANGED children /\ RowsKept
  BY DEF Skipped, catalogue, RowsKept, There, FiledRight
<1> QED BY <1>1, <1>2, NothingNoted

LEMMA OfferingAreaGoes ==
    ASSUME Level(run), FiledRight, Counts(run), NEW a, apply_offering_area(a)
    PROVE  Went /\ Noted /\ RowsKept
<1> DEFINE v == IF NamedVendor(a) = None /\ a.id \in There(offeringRows)
                THEN offeringRows[a.id].vendor ELSE NamedVendor(a)
           Grouped(o) == [g \in DOMAIN run.groups \cup {a.group} |->
                             IF g = a.group THEN o ELSE run.groups[g]]
           Naming(o) == [run EXCEPT !.groups = Grouped(o)]
           Made(o) == [run EXCEPT !.groups = Grouped(o), !.made = @ \cup {o}]
<1>1. \/ Wrote(OfferingUpdated(a.id, a.key), AreaDone(Naming(a.id)))
      \/ AreaDone(Naming(a.id)) /\ UNCHANGED catalogue
      \/ Refused
      \/ Skipped
      \/ \E o \in OfferingIds \ There(offeringRows) :
            Wrote(OfferingCreated(o, v, a.key), AreaDone(Made(o)))
  BY DEF apply_offering_area
<1>2. ASSUME NEW o PROVE (AreaDone(Naming(o)) \/ AreaDone(Made(o))) => Went /\ run'.context = run.context
  <2>1. /\ Level(Naming(o)) /\ Naming(o).phase = run.phase /\ Naming(o).status = run.status
        /\ Naming(o).context = run.context
        /\ Level(Made(o)) /\ Made(o).phase = run.phase /\ Made(o).status = run.status
        /\ Made(o).context = run.context
    <3> HIDE DEF Grouped
    <3>1. Level(Naming(o)) /\ Naming(o).phase = run.phase /\ Naming(o).status = run.status
          /\ Naming(o).context = run.context
      BY DEF Level, RunFields
    <3>2. Level(Made(o)) /\ Made(o).phase = run.phase /\ Made(o).status = run.status
          /\ Made(o).context = run.context
      BY DEF Level, RunFields
    <3> QED BY <3>1, <3>2
  <2> HIDE DEF Naming, Made
  <2> QED BY <2>1, AreaGoes
<1> HIDE DEF v, Naming, Made
<1>3. CASE Wrote(OfferingUpdated(a.id, a.key), AreaDone(Naming(a.id)))
  <2>1. OfferingUpdated(a.id, a.key) => UNCHANGED children /\ RowsKept
    BY OfferingWrites
  <2> QED BY <1>2, <1>3, <2>1, WriteGoes
<1>4. CASE AreaDone(Naming(a.id)) /\ UNCHANGED catalogue
  <2>1. UNCHANGED children /\ RowsKept
    BY <1>4 DEF catalogue, RowsKept, There, FiledRight
  <2> QED BY <1>2, <1>4, <2>1, NothingNoted
<1>5. ASSUME NEW o \in OfferingIds \ There(offeringRows),
             Wrote(OfferingCreated(o, v, a.key), AreaDone(Made(o)))
      PROVE  Went /\ Noted /\ RowsKept
  <2>1. OfferingCreated(o, v, a.key) => UNCHANGED children /\ RowsKept
    BY OfferingWrites
  <2> QED BY <1>2, <1>5, <2>1, WriteGoes
<1> QED BY <1>1, <1>3, <1>4, <1>5, RefusedGoes, SkippedGoes

LEMMA ChildAreaGoes ==
    ASSUME Level(run), FiledRight, Counts(run), NEW a, apply_child_area(a)
    PROVE  Went /\ Noted /\ RowsKept
<1> DEFINE o == IF a.area \in {"vendor_contact", "vendor_owner"} THEN None ELSE resolve_offering_id(a)
           Allowed(v) == v \in There(vendorRows) /\ (o # None => o \in OfferingsOf(v))
           With(done) == [run EXCEPT !.context = done.context]
<1>1. \/ Skipped
      \/ \E v : /\ v # None
               /\ \E done \in maybe_add(a.area, v, o, a.key, Allowed(v)) :
                    /\ children' = done.children
                    /\ RowDone(With(done), "failed") \/ AreaDone(With(done))
               /\ UNCHANGED <<vendorRows, offeringRows, projectRows>>
  BY DEF apply_child_area
<1> HIDE DEF o
<1>2. ASSUME NEW v, v # None, NEW done \in maybe_add(a.area, v, o, a.key, Allowed(v)),
             children' = done.children, RowDone(With(done), "failed") \/ AreaDone(With(done)),
             UNCHANGED <<vendorRows, offeringRows, projectRows>>
      PROVE  Went /\ Noted /\ RowsKept
  <2>1. /\ Level(With(done)) /\ With(done).phase = run.phase /\ With(done).status = run.status
        /\ With(done).context = done.context
    BY DEF Level, RunFields
  <2> HIDE DEF With
  <2>2. Went /\ run'.context = done.context
    BY <1>2, <2>1, AreaGoes, DoneGoes DEF Outcomes
  <2>3. Allowed(v) => FiledWith(v, o)
    BY <1>2 DEF FiledWith, OfferingsOf
  <2> HIDE DEF Allowed
  <2>4. Noted
    BY <1>2, <2>2, <2>3, AdditionNoted
  <2>5. RowsKept
    BY <1>2 DEF RowsKept, There, FiledRight
  <2> QED BY <2>2, <2>4, <2>5
<1> QED BY <1>1, <1>2, SkippedGoes

LEMMA AreaRowGoes ==
    ASSUME Level(run), FiledRight, Counts(run), apply_stage_area_rows_for_row
    PROVE  Went /\ Noted /\ RowsKept
<1> DEFINE a == Head(run.todo)
<1>1. apply_offering_area(a) \/ apply_project_area(a) \/ apply_child_area(a)
  BY DEF apply_stage_area_rows_for_row
<1> HIDE DEF a
<1>2. CASE apply_project_area(a)
  <2>1. \/ ProjectMerged(a.id, a.key, NamedVendor(a), AreaDone(run))
        \/ ProjectCreated(a.key, NamedVendor(a), AreaDone(run))
        \/ Refused
        \/ Skipped
    BY <1>2 DEF apply_project_area
  <2>2. AreaDone(run) => Went /\ run'.context = run.context
    BY AreaGoes
  <2> QED BY <2>1, <2>2, ProjectWritesGo, RefusedGoes, SkippedGoes
<1> QED BY <1>1, <1>2, OfferingAreaGoes, ChildAreaGoes

LEMMA AppliedGoes ==
    ASSUME Level(run), FiledRight, Counts(run), RowApplied
    PROVE  Went /\ Noted /\ RowsKept
<1>1. run.status \in Outcomes /\ RowDone(run, run.status)
  BY DEF RowApplied, Counts, Outcomes
<1>2. Went /\ run'.context = run.context
  BY <1>1, DoneGoes
<1>3. UNCHANGED children /\ RowsKept
  BY DEF RowApplied, catalogue, RowsKept, There, FiledRight
<1> QED BY <1>2, <1>3, NothingNoted

-----------------------------------------------------------------------------
(* The store of previews                                                   *)

\* The members of t are members of s, in places that differ.
Picks(t, s) ==
    \E f \in [DOMAIN t -> DOMAIN s] :
        /\ \A i \in DOMAIN t : t[i] = s[f[i]]
        /\ \A i, j \in DOMAIN t : i # j => f[i] # f[j]

LEMMA OwnMembers ==
    ASSUME NEW S, NEW s \in Seq(S)
    PROVE  s \in Seq(ToSet(s)) /\ DOMAIN s = 1 .. Len(s) /\ Len(s) \in Nat
<1>1. s \in [1 .. Len(s) -> S] /\ Len(s) \in Nat
  OBVIOUS
<1>2. \A i \in 1 .. Len(s) : s[i] \in ToSet(s)
  BY <1>1 DEF ToSet
<1>3. s \in [1 .. Len(s) -> ToSet(s)]
  BY <1>1, <1>2
<1> QED BY <1>1, <1>3, SeqDef

LEMMA ListedLength ==
    ASSUME NEW n \in Nat, NEW f, f = [i \in 1 .. n |-> f[i]]
    PROVE  Len(f) = n
<1> DEFINE S == {f[i] : i \in 1 .. n}
<1>1. f \in [1 .. n -> S]
  OBVIOUS
<1>2. f \in Seq(S)
  BY <1>1, SeqDef
<1>3. DOMAIN f = 1 .. Len(f) /\ Len(f) \in Nat /\ DOMAIN f = 1 .. n
  BY <1>1, <1>2
<1> QED BY <1>3

LEMMA PicksStore ==
    ASSUME NEW s, Store(s), NEW t \in Seq(ToSet(s)), Picks(t, s)
    PROVE  Store(t)
<1>1. t \in Seq(ToSet(t))
  BY OwnMembers
<1>2. PICK f \in [DOMAIN t -> DOMAIN s] :
        /\ \A i \in DOMAIN t : t[i] = s[f[i]]
        /\ \A i, j \in DOMAIN t : i # j => f[i] # f[j]
  BY DEF Picks
<1> QED BY <1>1, <1>2 DEF Store

LEMMA PrunedStore ==
    ASSUME Store(previews), NEW store \in _prune_preview_store
    PROVE  /\ Store(store) /\ Len(store) <= IMPORT_PREVIEW_MAX_ITEMS
           /\ \A i \in DOMAIN store : \E j \in DOMAIN previews : store[i] = previews[j]
<1> DEFINE S == ToSet(previews)
           n == Len(previews)
           least == Max({1, n - IMPORT_PREVIEW_MAX_ITEMS + 1})
<1>1. previews \in Seq(S) /\ n \in Nat /\ DOMAIN previews = 1 .. n
      /\ \A i \in 1 .. n : previews[i] \in S
  BY OwnMembers DEF Store
<1>2. least \in Nat /\ least >= 1 /\ least >= n - IMPORT_PREVIEW_MAX_ITEMS + 1
  <2> DEFINE a == n - IMPORT_PREVIEW_MAX_ITEMS + 1
  <2>1. a \in Int
    BY <1>1, ImportsAssumption DEF ImportsAssumption
  <2> HIDE DEF a
  <2>2. \E x \in {1, a} : \A y \in {1, a} : x >= y
    <3>1. CASE a >= 1
      BY <2>1, <3>1
    <3>2. CASE ~(a >= 1)
      BY <2>1, <3>2
    <3> QED BY <3>1, <3>2
  <2>3. Max({1, a}) \in {1, a} /\ Max({1, a}) >= 1 /\ Max({1, a}) >= a
    BY <2>2 DEF Max
  <2> QED BY <2>1, <2>3 DEF a
<1> HIDE DEF least
<1>3. PICK k \in least .. n + 1 : store = SubSeq(previews, k, n)
  BY DEF _prune_preview_store, least
<1>4. k \in 1 .. n + 1
  BY <1>1, <1>2
<1>5. /\ store \in Seq(S) /\ Len(store) = n - k + 1
      /\ \A i \in 1 .. n - k + 1 : store[i] = previews[k + i - 1]
  <2>1. \A i \in k .. n : previews[i] \in S
    BY <1>1, <1>4
  <2>2. /\ SubSeq(previews, k, n) \in Seq(S)
        /\ Len(SubSeq(previews, k, n)) = IF k <= n THEN n - k + 1 ELSE 0
        /\ \A i \in 1 .. n - k + 1 : SubSeq(previews, k, n)[i] = previews[k + i - 1]
    BY <1>1, <1>4, <2>1, SubSeqProperties
  <2> QED BY <1>1, <1>3, <1>4, <2>2
<1>6. DOMAIN store = 1 .. n - k + 1
  BY <1>5
<1> DEFINE f == [i \in DOMAIN store |-> k + i - 1]
<1>7. /\ f \in [DOMAIN store -> DOMAIN previews]
      /\ \A i \in DOMAIN store : store[i] = previews[f[i]]
      /\ \A i, j \in DOMAIN store : i # j => f[i] # f[j]
  <2>1. \A i \in DOMAIN store : k + i - 1 \in 1 .. n /\ k + i - 1 \in Int
    BY <1>1, <1>4, <1>6
  <2>2. f \in [DOMAIN store -> DOMAIN previews]
    BY <1>1, <2>1
  <2>3. \A i \in DOMAIN store : store[i] = previews[f[i]]
    BY <1>5, <1>6
  <2>4. \A i, j \in DOMAIN store : i # j => f[i] # f[j]
    BY <1>1, <1>4, <1>6
  <2> QED BY <2>2, <2>3, <2>4
<1> HIDE DEF f
<1>8. Picks(store, previews)
  BY <1>7 DEF Picks
<1>9. Store(store)
  BY <1>5, <1>8, PicksStore
<1>10. Len(store) <= IMPORT_PREVIEW_MAX_ITEMS
  BY <1>1, <1>2, <1>3, <1>5, ImportsAssumption DEF ImportsAssumption
<1> QED BY <1>7, <1>9, <1>10

LEMMA Removed ==
    ASSUME NEW S, NEW s \in Seq(S), NEW m \in DOMAIN s
    PROVE  /\ RemoveAt(s, m) \in Seq(S)
           /\ DOMAIN RemoveAt(s, m) = 1 .. Len(s) - 1
           /\ \A i \in DOMAIN RemoveAt(s, m) : RemoveAt(s, m)[i] = s[IF i < m THEN i ELSE i + 1]
<1> DEFINE a == SubSeq(s, 1, m - 1)
           b == SubSeq(s, m + 1, Len(s))
<1>1. Len(s) \in Nat /\ m \in 1 .. Len(s) /\ \A i \in 1 .. Len(s) : s[i] \in S
  OBVIOUS
<1>2. a \in Seq(S) /\ Len(a) = m - 1 /\ \A i \in 1 .. m - 1 : a[i] = s[i]
  <2>1. \A i \in 1 .. m - 1 : s[i] \in S
    BY <1>1
  <2>2. /\ a \in Seq(S) /\ Len(a) = IF 1 <= m - 1 THEN m - 1 - 1 + 1 ELSE 0
        /\ \A i \in 1 .. m - 1 - 1 + 1 : a[i] = s[1 + i - 1]
    BY <1>1, <2>1, SubSeqProperties
  <2> QED BY <1>1, <2>2
<1>3. b \in Seq(S) /\ Len(b) = Len(s) - m /\ \A i \in 1 .. Len(s) - m : b[i] = s[m + i]
  <2>1. \A i \in m + 1 .. Len(s) : s[i] \in S
    BY <1>1
  <2>2. /\ b \in Seq(S) /\ Len(b) = IF m + 1 <= Len(s) THEN Len(s) - (m + 1) + 1 ELSE 0
        /\ \A i \in 1 .. Len(s) - (m + 1) + 1 : b[i] = s[m + 1 + i - 1]
    BY <1>1, <2>1, SubSeqProperties
  <2> QED BY <1>1, <2>2
<1> HIDE DEF a, b
<1>4. a \o b \in Seq(S) /\ Len(a \o b) = Len(s) - 1
  BY <1>1, <1>2, <1>3
<1>5. DOMAIN (a \o b) = 1 .. Len(s) - 1
  BY <1>4
<1>6. ASSUME NEW i \in 1 .. Len(s) - 1 PROVE (a \o b)[i] = s[IF i < m THEN i ELSE i + 1]
  <2>1. CASE i < m
    <3>1. i \in 1 .. m - 1
      BY <1>1, <2>1
    <3> QED BY <1>1, <1>2, <1>3, <2>1, <3>1
  <2>2. CASE ~(i < m)
    <3>1. i - (m - 1) \in 1 .. Len(s) - m /\ m + (i - (m - 1)) = i + 1
      BY <1>1, <2>2
    <3>2. (a \o b)[i] = b[i - (m - 1)]
      <4>1. i \in 1 .. Len(a) + Len(b) /\ ~(i <= Len(a)) /\ i - Len(a) = i - (m - 1)
        BY <1>1, <1>2, <1>3, <2>2
      <4>2. \A l \in 1 .. Len(a) + Len(b) :
               (a \o b)[l] = IF l <= Len(a) THEN a[l] ELSE b[l - Len(a)]
        BY <1>2, <1>3, ConcatProperties
      <4> QED BY <4>1, <4>2
    <3> QED BY <1>3, <2>2, <3>1, <3>2
  <2> QED BY <2>1, <2>2
<1> QED BY <1>4, <1>5, <1>6 DEF RemoveAt, a, b

-----------------------------------------------------------------------------
(* The invariant is kept                                                   *)

LEMMA NotedKeeps ==
    ASSUME Copied, Uploaded, FiledRight, Remembers(run), RowsKept, Noted,
           run'.preview = run.preview, UNCHANGED uploads,
           run.preview.token[1] \in Uploads, uploads[run.preview.token[1]] = 1
    PROVE  Copied' /\ Uploaded' /\ FiledRight' /\ Remembers(run)'
<1> DEFINE u == run.preview.token[1]
<1>1. \A v, o : FiledWith(v, o) => FiledWith(v, o)'
  BY DEF FiledWith, RowsKept, There
<1>2. ASSUME UNCHANGED children
      PROVE  Copied' /\ Uploaded' /\ FiledRight'
  <2>1. Copied'
    BY <1>2 DEF Copied, Siblings, PlaceOf, ChildrenOnce
  <2>2. \A c \in children' : FiledWith(c.vendor, c.offering)'
    BY <1>1, <1>2 DEF FiledRight
  <2> QED BY <1>2, <2>1, <2>2 DEF FiledRight, RowsKept, There, Uploaded
<1>3. ASSUME NEW place, NEW loaded \in _load_keys(place), NEW more,
             more.read = loaded.read, loaded.keys \subseteq more.keys,
             run'.context = Knowing(place, more),
             NEW c \in children
      PROVE  /\ c.upload = u => PlaceOf(c) \in DOMAIN run'.context
             /\ PlaceOf(c) \in DOMAIN run'.context => Recalls(c, u, run'.context[PlaceOf(c)])
  <2>1. c.upload = u => PlaceOf(c) \in DOMAIN run'.context
    BY <1>3 DEF Remembers, Knowing
  <2>2. CASE PlaceOf(c) = place
    <3>1. Recalls(c, u, loaded)
      BY <1>3, <2>2, LoadRecalls
    <3>2. Recalls(c, u, more)
      BY <1>3, <3>1 DEF Recalls
    <3>3. run'.context[place] = more
      BY <1>3 DEF Knowing
    <3> QED BY <2>1, <2>2, <3>2, <3>3
  <2>3. CASE PlaceOf(c) # place
    <3>1. PlaceOf(c) \in DOMAIN run'.context =>
             PlaceOf(c) \in DOMAIN run.context /\ run'.context[PlaceOf(c)] = run.context[PlaceOf(c)]
      BY <1>3, <2>3 DEF Knowing
    <3> QED BY <2>1, <3>1 DEF Remembers
  <2> QED BY <2>2, <2>3
<1>4. ASSUME UNCHANGED children, run'.context = run.context
      PROVE  Remembers(run)'
  BY <1>4 DEF Remembers, PlaceOf, Recalls
<1>5. ASSUME UNCHANGED children, NEW place, NEW loaded \in _load_keys(place),
             run'.context = Knowing(place, loaded)
      PROVE  Remembers(run)'
  <2>1. \A c \in children' :
           /\ c.upload = u => PlaceOf(c) \in DOMAIN run'.context
           /\ PlaceOf(c) \in DOMAIN run'.context => Recalls(c, u, run'.context[PlaceOf(c)])
    BY <1>3, <1>5
  <2> QED BY <2>1 DEF Remembers, PlaceOf, Recalls
<1>6. ASSUME NEW area, NEW v, NEW o, NEW loaded \in _load_keys(Place(area, v, o)),
             NEW name, NEW reported \in BOOLEAN, name \notin loaded.keys, FiledWith(v, o),
             children' = children \cup {NewChild(area, v, o, name, loaded.read, reported)},
             run'.context = Knowing(Place(area, v, o), Learnt(loaded, name, reported))
      PROVE  Copied' /\ Uploaded' /\ FiledRight' /\ Remembers(run)'
  <2> DEFINE place == Place(area, v, o)
             key == StoredAs(area, name)
             x == NewChild(area, v, o, name, loaded.read, reported)
             more == Learnt(loaded, name, reported)
  <2>1. ASSUME NEW d \in Siblings(place, key)
        PROVE  IF d.upload = u THEN d.name = name => ~d.reported ELSE loaded.read => name # key
    <3>1. d \in children /\ PlaceOf(d) = place /\ d.key = key
      BY DEF Siblings
    <3>2. Recalls(d, u, loaded)
      BY <3>1, <1>6, LoadRecalls
    <3> HIDE DEF place, key
    <3> QED BY <1>6, <3>1, <3>2 DEF Recalls
  <2>2. Copied'
    BY <1>6, <2>1, ChildAdded
  <2>3. /\ children' = children \cup {x} /\ x.vendor = v /\ x.offering = o /\ x.name = name
        /\ PlaceOf(x) = place /\ x.upload = u /\ x.reported = reported
    BY <1>6, ChildFields
  <2>4. more.read = loaded.read /\ loaded.keys \subseteq more.keys
        /\ (reported => name \in more.keys)
    BY DEF Learnt
  <2> HIDE DEF x, place, more
  <2>5. Uploaded'
    BY <2>3 DEF Uploaded
  <2>6. FiledRight'
    <3>1. \A c \in children' : FiledWith(c.vendor, c.offering)
      BY <1>6, <2>3 DEF FiledRight
    <3>2. \A c \in children' : FiledWith(c.vendor, c.offering)'
      BY <1>1, <3>1
    <3> QED BY <3>2 DEF FiledRight, RowsKept, There
  <2>7. run'.context = Knowing(place, more) /\ loaded \in _load_keys(place)
    BY <1>6 DEF place, more
  <2>8. PlaceOf(x) \in DOMAIN run'.context /\ Recalls(x, u, run'.context[PlaceOf(x)])
    <3>1. place \in DOMAIN run'.context /\ run'.context[place] = more
      BY <2>7 DEF Knowing
    <3> QED BY <2>3, <2>4, <3>1 DEF Recalls
  <2>9. \A c \in children' :
           /\ c.upload = u => PlaceOf(c) \in DOMAIN run'.context
           /\ PlaceOf(c) \in DOMAIN run'.context => Recalls(c, u, run'.context[PlaceOf(c)])
    BY <1>3, <2>3, <2>4, <2>7, <2>8
  <2>10. Remembers(run)'
    BY <2>9 DEF Remembers, PlaceOf, Recalls
  <2> QED BY <2>2, <2>5, <2>6, <2>10
<1> QED BY <1>2, <1>4, <1>5, <1>6 DEF Noted

LEMMA WentCounts ==
    ASSUME Counts(run), Went, Len(run.preview.rows) \in Nat, run.at <= Len(run.preview.rows)
    PROVE  run' # NoRun /\ DOMAIN run' = RunFields /\ run'.preview = run.preview /\ Counts(run)'
<1>1. /\ run.at \in Nat /\ run.created \in Nat /\ run.merged \in Nat /\ run.skipped \in Nat
      /\ run.failed \in Nat
      /\ run.created + run.merged + run.skipped + run.failed = run.at - 1
  BY DEF Counts
<1>2. DOMAIN run' = RunFields /\ run'.preview = run.preview
  BY DEF Went, Level
<1>3. run' # NoRun
  BY <1>2 DEF RunFields, NoRun
<1>4. ASSUME Level(run'), run'.phase = "areas" => run'.status \in {"created", "merged"}
      PROVE  Counts(run)'
  <2>1. /\ run'.at = run.at /\ run'.created = run.created /\ run'.merged = run.merged
        /\ run'.skipped = run.skipped /\ run'.failed = run.failed
    BY <1>4 DEF Level
  <2>2. run.at <= Len(run.preview.rows) + 1
    BY DEF Counts
  <2> QED BY <1>1, <1>2, <1>4, <2>1, <2>2 DEF Counts
<1>5. ASSUME run'.at = run.at + 1, run'.phase = "primary", NEW status \in Outcomes,
             run'.created = run.created + (IF status = "created" THEN 1 ELSE 0),
             run'.merged  = run.merged  + (IF status = "merged"  THEN 1 ELSE 0),
             run'.skipped = run.skipped + (IF status = "skipped" THEN 1 ELSE 0),
             run'.failed  = run.failed  + (IF status = "failed"  THEN 1 ELSE 0)
      PROVE  Counts(run)'
  <2>1. /\ run'.at \in Nat /\ run'.created \in Nat /\ run'.merged \in Nat /\ run'.skipped \in Nat
        /\ run'.failed \in Nat
    BY <1>1, <1>5
  <2>2. run'.created + run'.merged + run'.skipped + run'.failed = run'.at - 1
    <3> DEFINE a == run.created
               b == run.merged
               c == run.skipped
               d == run.failed
               n == run.at
               a1 == run'.created
               b1 == run'.merged
               c1 == run'.skipped
               d1 == run'.failed
               n1 == run'.at
    <3>1. {a, b, c, d, n} \subseteq Nat /\ a + b + c + d = n - 1
      BY <1>1
    <3>2. \/ a1 = a + 1 /\ b1 = b + 0 /\ c1 = c + 0 /\ d1 = d + 0
          \/ a1 = a + 0 /\ b1 = b + 1 /\ c1 = c + 0 /\ d1 = d + 0
          \/ a1 = a + 0 /\ b1 = b + 0 /\ c1 = c + 1 /\ d1 = d + 0
          \/ a1 = a + 0 /\ b1 = b + 0 /\ c1 = c + 0 /\ d1 = d + 1
      BY <1>5 DEF Outcomes
    <3>3. n1 = n + 1
      BY <1>5
    <3> HIDE DEF a, b, c, d, n, a1, b1, c1, d1, n1
    <3>4. a1 + b1 + c1 + d1 = n1 - 1
      BY <3>1, <3>2, <3>3
    <3> QED BY <3>4 DEF a1, b1, c1, d1, n1
  <2>3. run'.at <= Len(run'.preview.rows) + 1
    BY <1>1, <1>2, <1>5
  <2> QED BY <1>5, <2>1, <2>2, <2>3 DEF Counts
<1>6. Counts(run)'
  BY <1>4, <1>5 DEF Went
<1> QED BY <1>2, <1>3, <1>6

LEMMA RunStep ==
    ASSUME ImportsInv, Running, Went, Noted, RowsKept, UNCHANGED <<jobs, previews, uploads>>
    PROVE  ImportsInv'
<1>1. /\ run # NoRun /\ run.at <= Len(run.preview.rows) /\ Copied /\ FiledRight
      /\ Remembers(run) /\ Counts(run) /\ PreviewOK(run.preview, jobs) /\ Uploaded
      /\ uploads[run.preview.token[1]] = 1
  BY DEF ImportsInv, RunOK, Running
<1>2. run' # NoRun /\ DOMAIN run' = RunFields /\ run'.preview = run.preview /\ Counts(run)'
  BY <1>1, WentCounts DEF PreviewOK
<1>3. Copied' /\ Uploaded' /\ FiledRight' /\ Remembers(run)'
  <2>1. run.preview.token[1] \in Uploads
    BY <1>1 DEF PreviewOK
  <2> QED BY <1>1, <1>2, <2>1, NotedKeeps
<1>4. \A p : PreviewOK(p, jobs) => PreviewOK(p, jobs')
  BY DEF PreviewOK
<1>5. RunOK'
  BY <1>1, <1>2, <1>3, <1>4 DEF RunOK
<1>6. Waiting'
  BY <1>1, <1>2, <1>4 DEF ImportsInv, Waiting, Store
<1>7. Accounts' /\ There(jobs)' \subseteq JobIds
  BY DEF ImportsInv, Accounts, Accounted, There
<1> QED BY <1>3, <1>5, <1>6, <1>7 DEF ImportsInv

\* What the actions between runs leave alone.
LEMMA CatalogueKept ==
    ASSUME ImportsInv, UNCHANGED catalogue
    PROVE  /\ Copied' /\ FiledRight'
           /\ (\A u \in Uploads : uploads[u] = 1 => uploads'[u] = 1) => Uploaded'
<1>1. Copied'
  BY DEF ImportsInv, catalogue, Copied, Siblings, PlaceOf, ChildrenOnce
<1>2. FiledRight'
  BY DEF ImportsInv, catalogue, FiledRight, FiledWith, There
<1> QED BY <1>1, <1>2 DEF ImportsInv, catalogue, Uploaded

\* A job more has another identifier, and jobs keep their number of rows.
LEMMA StagedKeeps ==
    ASSUME ImportsInv, NEW lines, Len(lines) \in Nat, NEW job \in JobIds \cup {None}, Staged(lines, job)
    PROVE  /\ Accounts' /\ There(jobs)' \subseteq JobIds
           /\ \A p : PreviewOK(p, jobs) => PreviewOK(p, jobs')
           /\ job \in There(jobs)' \cup {None}
           /\ job # None => jobs'[job].rows = Len(lines)
<1>1. CASE UNCHANGED jobs /\ job = None
  BY <1>1 DEF ImportsInv, Accounts, Accounted, There, PreviewOK
<1>2. CASE job \in JobIds \ There(jobs) /\
           jobs' = Entered(jobs, job, [status |-> "staged", rows |-> Len(lines), created |-> 0,
                                       merged |-> 0, skipped |-> 0, failed |-> 0])
  <2>1. DOMAIN jobs' = DOMAIN jobs \cup {job}
    BY <1>2 DEF Entered
  <2>2. jobs'[job].rows = Len(lines) /\ jobs'[job].status = "staged"
        /\ DOMAIN jobs'[job] = JobFields
        /\ \A b \in DOMAIN jobs : jobs'[b] = jobs[b]
    BY <1>2 DEF Entered, There, JobFields
  <2>3. Accounts'
    BY <2>1, <2>2 DEF ImportsInv, Accounts, Accounted, There
  <2>4. None \notin There(jobs)
    BY ImportsAssumption DEF ImportsAssumption, ImportsInv
  <2>5. \A p : PreviewOK(p, jobs) => PreviewOK(p, jobs')
    BY <2>1, <2>2, <2>4 DEF PreviewOK, There
  <2> QED BY <1>2, <2>1, <2>2, <2>3, <2>5 DEF ImportsInv, There
<1> QED BY <1>1, <1>2 DEF Staged

LEMMA PreviewFits ==
    ASSUME NEW token, NEW file \in DOMAIN Files, NEW requested \in DOMAIN Requested, NEW job
    PROVE  LET p == Preview(token, <<file, requested>>, job)
           IN /\ p.token = token /\ p.file = file /\ p.job = job
              /\ p.layout \in {"vendors", "offerings", "projects"}
              /\ Len(p.rows) \in Nat
<1> DEFINE parsed == parse_layout_rows[<<file, requested>>]
           p == Preview(token, <<file, requested>>, job)
           n == Len(Files[file].rows)
           mapping == _resolve_source_target_mapping(Files[file].keys, Requested[requested])
           fields == _resolve_field_mapping(Files[file].layout, Files[file].keys, mapping)
<1>1. /\ n \in Nat /\ DOMAIN Files[file].rows = 1 .. n
      /\ Files[file].layout \in {"vendors", "offerings", "projects"}
  BY ImportsAssumption DEF ImportsAssumption
<1>2. /\ parsed.layout = Files[file].layout
      /\ parsed.rows = [i \in DOMAIN Files[file].rows |-> _apply_field_mapping(Files[file].rows[i], fields)]
  BY DEF parse_layout_rows
<1>3. DOMAIN parsed.rows = 1 .. n
  BY <1>1, <1>2
<1> HIDE DEF parsed
<1>4. /\ p.token = token /\ p.file = file /\ p.job = job /\ p.layout = parsed.layout
      /\ p.rows = [i \in DOMAIN parsed.rows |-> build_preview_row(parsed.layout, parsed.rows[i])]
  BY DEF Preview, parsed
<1>5. p.rows = [i \in 1 .. n |-> p.rows[i]]
  BY <1>3, <1>4
<1> HIDE DEF p, n
<1>6. Len(p.rows) = n
  BY <1>1, <1>5, ListedLength
<1> QED BY <1>1, <1>2, <1>4, <1>6 DEF p

LEMMA PreviewStep ==
    ASSUME ImportsInv, NEW p, NEW u \in Uploads, NEW file \in DOMAIN Files,
           NEW requested \in DOMAIN Requested, imports_preview(p, u, file, requested)
    PROVE  ImportsInv'
<1>1. PICK job \in JobIds \cup {None}, store \in _prune_preview_store :
         LET preview == Preview(<<u, 0>>, <<file, requested>>, job)
         IN Staged(preview.rows, job) /\ previews' = Append(store, preview)
  BY DEF imports_preview
<1> DEFINE q == Preview(<<u, 0>>, <<file, requested>>, job)
<1>2. /\ q.token = <<u, 0>> /\ q.file = file /\ q.job = job
      /\ q.layout \in {"vendors", "offerings", "projects"} /\ Len(q.rows) \in Nat
  BY PreviewFits
<1>3. Staged(q.rows, job) /\ previews' = Append(store, q)
  BY <1>1
<1> HIDE DEF q
<1>4. run = NoRun /\ run' = run /\ uploads[u] = NoRow /\ uploads' = [uploads EXCEPT ![u] = 0]
      /\ UNCHANGED catalogue
  BY DEF imports_preview
<1>5. /\ Accounts' /\ There(jobs)' \subseteq JobIds /\ \A r : PreviewOK(r, jobs) => PreviewOK(r, jobs')
      /\ job \in There(jobs)' \cup {None} /\ (job # None => jobs'[job].rows = Len(q.rows))
  BY <1>2, <1>3, StagedKeeps
<1>6. PreviewOK(q, jobs')
  BY <1>2, <1>5 DEF PreviewOK
<1>7. /\ Store(store) /\ \A i \in DOMAIN store : \E j \in DOMAIN previews : store[i] = previews[j]
  BY PrunedStore DEF ImportsInv, Waiting
<1>8. \A i \in DOMAIN store : /\ PreviewOK(store[i], jobs') /\ uploads[store[i].token[1]] = 0
                             /\ store[i].token[1] \in Uploads /\ store[i].token[1] # u
  <2>1. \A j \in DOMAIN previews : PreviewOK(previews[j], jobs) /\ uploads[previews[j].token[1]] = 0
    BY <1>4 DEF ImportsInv, Waiting
  <2>2. NoRow # 0
    BY ImportsAssumption DEF ImportsAssumption
  <2>3. \A r : PreviewOK(r, jobs) => r.token[1] \in Uploads
    BY DEF PreviewOK
  <2> QED BY <1>4, <1>5, <1>7, <2>1, <2>2, <2>3
<1>9. /\ previews' \in Seq(ToSet(previews')) /\ DOMAIN previews' = 1 .. Len(store) + 1
      /\ \A i \in DOMAIN store : previews'[i] = store[i]
      /\ previews'[Len(store) + 1] = q /\ DOMAIN store = 1 .. Len(store) /\ Len(store) \in Nat
  <2>1. store \in Seq(ToSet(store) \cup {q})
    <3>1. ToSet(store) \subseteq ToSet(store) \cup {q} /\ store \in Seq(ToSet(store))
      BY <1>7 DEF Store
    <3> QED BY <3>1, SeqMonotonic
  <2>2. previews' \in Seq(ToSet(store) \cup {q})
    BY <1>3, <2>1
  <2>3. previews' \in Seq(ToSet(previews'))
    BY <2>2, OwnMembers
  <2> QED BY <1>3, <2>1, <2>3
<1>10. \A i \in DOMAIN previews' : i \in DOMAIN store \/ i = Len(store) + 1
  BY <1>9
<1>11. Store(previews')
  <2>1. ASSUME NEW i \in DOMAIN previews', NEW j \in DOMAIN previews', i # j
        PROVE  previews'[i].token[1] # previews'[j].token[1]
    BY <1>2, <1>7, <1>8, <1>9, <1>10, <2>1 DEF Store
  <2> QED BY <1>9, <2>1 DEF Store
<1>12. uploads' \in [Uploads -> {NoRow, 0, 1}] /\ uploads'[u] = 0
       /\ \A w \in Uploads : w # u => uploads'[w] = uploads[w]
  BY <1>4 DEF ImportsInv, Waiting
<1>13. \A i \in DOMAIN previews' : PreviewOK(previews'[i], jobs') /\ uploads'[previews'[i].token[1]] = 0
  BY <1>2, <1>6, <1>8, <1>9, <1>10, <1>12
<1>14. Waiting'
  BY <1>11, <1>12, <1>13 DEF Waiting, Store
<1>15. RunOK'
  BY <1>4 DEF RunOK
<1>16. Uploaded'
  <2>1. \A w \in Uploads : uploads[w] = 1 => uploads'[w] = 1
    BY <1>4, <1>12, ImportsAssumption DEF ImportsAssumption
  <2> QED BY <1>4, <2>1, CatalogueKept
<1> QED BY <1>4, <1>5, <1>14, <1>15, <1>16, CatalogueKept DEF ImportsInv

\* A preview that is discarded was the only one of its upload.
LEMMA DiscardedStore ==
    ASSUME NEW s, Store(s), NEW token
    PROVE  /\ Store(Discarded(s, token))
           /\ \A i \in DOMAIN Discarded(s, token) :
                \E j \in DOMAIN s : Discarded(s, token)[i] = s[j] /\ s[j].token # token
<1> DEFINE t == Discarded(s, token)
           m == CHOOSE i \in Loaded(s, token) : TRUE
<1>1. s \in Seq(ToSet(s)) /\ DOMAIN s = 1 .. Len(s) /\ Len(s) \in Nat
  BY OwnMembers DEF Store
<1>2. CASE Loaded(s, token) = {}
  BY <1>2 DEF Discarded, Loaded
<1>3. CASE Loaded(s, token) # {}
  <2>1. m \in DOMAIN s /\ s[m].token = token /\ t = RemoveAt(s, m)
    BY <1>3 DEF Discarded, Loaded
  <2> HIDE DEF m
  <2>2. /\ t \in Seq(ToSet(s)) /\ DOMAIN t = 1 .. Len(s) - 1
        /\ \A i \in DOMAIN t : t[i] = s[IF i < m THEN i ELSE i + 1]
    BY <1>1, <2>1, Removed
  <2> HIDE DEF t
  <2> DEFINE f == [i \in DOMAIN t |-> IF i < m THEN i ELSE i + 1]
  <2>3. \A i \in DOMAIN t : f[i] \in DOMAIN s /\ f[i] # m
    BY <1>1, <2>1, <2>2
  <2>4. \A i, j \in DOMAIN t : i # j => f[i] # f[j]
    BY <1>1, <2>1, <2>2
  <2>5. \A i \in DOMAIN t : t[i] = s[f[i]]
    BY <2>2
  <2>6. f \in [DOMAIN t -> DOMAIN s]
    BY <2>3
  <2> HIDE DEF f
  <2>7. Picks(t, s)
    BY <2>4, <2>5, <2>6 DEF Picks
  <2>8. Store(t)
    BY <2>2, <2>7, PicksStore
  <2>9. \A j \in DOMAIN s : j # m => s[j].token # token
    BY <2>1 DEF Store
  <2> QED BY <2>3, <2>5, <2>8, <2>9 DEF t
<1> QED BY <1>2, <1>3

LEMMA FinalStep ==
    ASSUME ImportsInv, finalize_import_staging_job
    PROVE  ImportsInv'
<1> DEFINE b == run.preview.job
           sum == run.created + run.merged + run.skipped + run.failed
<1>1. /\ run # NoRun /\ run.at > Len(run.preview.rows) /\ run' = NoRun
      /\ previews' = Discarded(previews, run.preview.token)
      /\ UNCHANGED <<catalogue, uploads>>
  BY DEF finalize_import_staging_job, Running, ImportsInv, RunOK, Counts, PreviewOK
<1>2. /\ PreviewOK(run.preview, jobs)
      /\ {run.created, run.merged, run.skipped, run.failed} \subseteq Nat
      /\ sum = Len(run.preview.rows)
  <2>1. /\ run.at \in Nat /\ run.at <= Len(run.preview.rows) + 1 /\ Len(run.preview.rows) \in Nat
        /\ sum = run.at - 1
    BY <1>1 DEF ImportsInv, RunOK, Counts, PreviewOK
  <2> HIDE DEF sum
  <2>2. sum = Len(run.preview.rows)
    BY <1>1, <2>1
  <2> QED BY <1>1, <2>2 DEF ImportsInv, RunOK, Counts
<1> HIDE DEF sum
<1>3. \/ UNCHANGED jobs
      \/ b # None /\ jobs' = [jobs EXCEPT ![b] = [@ EXCEPT
                    !.status = IF run.failed = 0 THEN "applied" ELSE "applied_with_errors",
                    !.created = run.created, !.merged = run.merged,
                    !.skipped = run.skipped, !.failed = run.failed]]
  BY DEF finalize_import_staging_job
<1>4. /\ DOMAIN jobs' = DOMAIN jobs
      /\ \A c \in There(jobs) : jobs'[c].rows = jobs[c].rows
      /\ Accounts'
  <2>1. CASE UNCHANGED jobs
    BY <2>1 DEF ImportsInv, Accounts, Accounted, There
  <2>2. CASE b # None /\ jobs' = [jobs EXCEPT ![b] = [@ EXCEPT
                    !.status = IF run.failed = 0 THEN "applied" ELSE "applied_with_errors",
                    !.created = run.created, !.merged = run.merged,
                    !.skipped = run.skipped, !.failed = run.failed]]
    <3>1. b \in There(jobs) /\ jobs[b].rows = Len(run.preview.rows)
      BY <1>2, <2>2 DEF PreviewOK
    <3>2. DOMAIN jobs' = DOMAIN jobs /\ \A c \in There(jobs) : c # b => jobs'[c] = jobs[c]
      BY <2>2 DEF There
    <3>3. /\ jobs'[b].status = (IF run.failed = 0 THEN "applied" ELSE "applied_with_errors")
          /\ jobs'[b].created = run.created /\ jobs'[b].merged = run.merged
          /\ jobs'[b].skipped = run.skipped /\ jobs'[b].failed = run.failed
          /\ jobs'[b].rows = jobs[b].rows /\ DOMAIN jobs'[b] = JobFields
      BY <2>2, <3>1 DEF ImportsInv, Accounts, JobFields, There
    <3>4. /\ jobs'[b].created + jobs'[b].merged + jobs'[b].skipped + jobs'[b].failed = jobs'[b].rows
          /\ jobs'[b].status = "applied" <=> jobs'[b].failed = 0
      BY <1>2, <3>1, <3>3 DEF sum
    <3>5. Accounts'
      BY <3>2, <3>3, <3>4 DEF ImportsInv, Accounts, Accounted, There
    <3> QED BY <3>2, <3>3, <3>5
  <2> QED BY <1>3, <2>1, <2>2
<1>5. \A p : PreviewOK(p, jobs) => PreviewOK(p, jobs')
  BY <1>4 DEF PreviewOK, There
<1>6. /\ Store(previews')
      /\ \A i \in DOMAIN previews' :
           \E j \in DOMAIN previews : previews'[i] = previews[j] /\ previews[j].token # run.preview.token
  BY <1>1, DiscardedStore DEF ImportsInv, Waiting
<1>7. \A i \in DOMAIN previews' : PreviewOK(previews'[i], jobs') /\ uploads'[previews'[i].token[1]] = 0
  BY <1>1, <1>5, <1>6 DEF ImportsInv, Waiting
<1>8. Waiting'
  BY <1>1, <1>6, <1>7 DEF ImportsInv, Waiting, Store
<1>9. RunOK'
  BY <1>1 DEF RunOK
<1>10. There(jobs)' \subseteq JobIds
  BY <1>4 DEF ImportsInv, There
<1> QED BY <1>1, <1>4, <1>8, <1>9, <1>10, CatalogueKept DEF ImportsInv

LEMMA RestartStep ==
    ASSUME ImportsInv, Restart
    PROVE  ImportsInv'
<1>1. run' = NoRun /\ previews' = <<>> /\ UNCHANGED <<catalogue, jobs, uploads>>
  BY DEF Restart
<1>2. DOMAIN previews' = {} /\ previews' \in Seq(ToSet(previews'))
  BY <1>1
<1>3. Waiting'
  BY <1>1, <1>2 DEF ImportsInv, Waiting, Store
<1>4. RunOK' /\ Accounts' /\ There(jobs)' \subseteq JobIds
  BY <1>1 DEF ImportsInv, RunOK, Accounts, Accounted, There
<1> QED BY <1>1, <1>3, <1>4, CatalogueKept DEF ImportsInv

LEMMA ApplyStep ==
    ASSUME ImportsInv, NEW p, NEW token, NEW reason, imports_apply(p, token, reason)
    PROVE  ImportsInv'
<1>1. PICK loaded \in _prune_preview_store : \E i \in Loaded(loaded, token) :
         /\ previews' = loaded
         /\ run' = [preview |-> loaded[i], reason |-> reason, at |-> 1, phase |-> "primary",
                    status |-> None, vendor |-> None, offering |-> None,
                    made |-> {}, groups |-> <<>>, todo |-> <<>>, context |-> <<>>,
                    created |-> 0, merged |-> 0, skipped |-> 0, failed |-> 0]
  BY DEF imports_apply
<1>2. PICK i \in DOMAIN loaded :
         /\ loaded[i].token = token /\ previews' = loaded
         /\ run' = [preview |-> loaded[i], reason |-> reason, at |-> 1, phase |-> "primary",
                    status |-> None, vendor |-> None, offering |-> None,
                    made |-> {}, groups |-> <<>>, todo |-> <<>>, context |-> <<>>,
                    created |-> 0, merged |-> 0, skipped |-> 0, failed |-> 0]
  BY <1>1 DEF Loaded
<1>3. /\ run = NoRun /\ uploads' = [uploads EXCEPT ![token[1]] = @ + 1]
      /\ UNCHANGED <<catalogue, jobs>>
  BY DEF imports_apply
<1>4. /\ Store(loaded) /\ \A j \in DOMAIN loaded : \E k \in DOMAIN previews : loaded[j] = previews[k]
  BY PrunedStore DEF ImportsInv, Waiting
<1>5. \A j \in DOMAIN loaded : PreviewOK(loaded[j], jobs) /\ uploads[loaded[j].token[1]] = 0
                               /\ loaded[j].token[1] \in Uploads
  <2>1. \A k \in DOMAIN previews : PreviewOK(previews[k], jobs) /\ uploads[previews[k].token[1]] = 0
    BY <1>3 DEF ImportsInv, Waiting
  <2>2. \A r : PreviewOK(r, jobs) => r.token[1] \in Uploads
    BY DEF PreviewOK
  <2> QED BY <1>4, <2>1, <2>2
<1>6. /\ run'.preview = loaded[i] /\ run'.at = 1 /\ run'.phase = "primary" /\ DOMAIN run' = RunFields
      /\ run'.created = 0 /\ run'.merged = 0 /\ run'.skipped = 0 /\ run'.failed = 0
      /\ run'.context = <<>>
  BY <1>2 DEF RunFields
<1>7. run' # NoRun
  BY <1>6 DEF RunFields, NoRun
<1>8. Counts(run)'
  <2>1. Len(loaded[i].rows) \in Nat
    BY <1>5 DEF PreviewOK
  <2> QED BY <1>6, <2>1 DEF Counts
\* The upload is applied for the first time: no child comes from it.
<1>9. Remembers(run)'
  <2>1. DOMAIN run'.context = {}
    BY <1>6
  <2>2. \A c \in children' : c.upload # token[1]
    BY <1>2, <1>3, <1>5 DEF ImportsInv, Uploaded, catalogue
  <2>3. run'.preview.token[1] = token[1]
    BY <1>2, <1>6
  <2> QED BY <2>1, <2>2, <2>3 DEF Remembers, PlaceOf
<1>10. /\ uploads' \in [Uploads -> {NoRow, 0, 1}] /\ uploads'[token[1]] = 1
       /\ \A w \in Uploads : w # token[1] => uploads'[w] = uploads[w]
  BY <1>2, <1>3, <1>5 DEF ImportsInv, Waiting
<1>11. RunOK'
  BY <1>2, <1>3, <1>5, <1>6, <1>8, <1>9, <1>10 DEF RunOK
<1>12. \A j \in DOMAIN loaded : uploads'[loaded[j].token[1]] = 0 \/ loaded[j].token = token
  BY <1>2, <1>4, <1>5, <1>10 DEF Store
<1>13. Waiting'
  BY <1>2, <1>3, <1>4, <1>5, <1>6, <1>7, <1>10, <1>12 DEF Waiting, Store
<1>14. Accounts' /\ There(jobs)' \subseteq JobIds
  BY <1>3 DEF ImportsInv, Accounts, Accounted, There
<1>15. Uploaded'
  <2>1. \A w \in Uploads : uploads[w] = 1 => uploads'[w] = 1
    BY <1>10
  <2> QED BY <1>3, <2>1, CatalogueKept
<1> QED BY <1>3, <1>11, <1>13, <1>14, <1>15, CatalogueKept DEF ImportsInv

LEMMA RemapStep ==
    ASSUME ImportsInv, NEW p, NEW token, NEW requested \in DOMAIN Requested,
           imports_remap(p, token, requested)
    PROVE  ImportsInv'
<1>1. PICK job \in JobIds \cup {None}, loaded \in _prune_preview_store, store \in _prune_preview_store :
       \E i \in Loaded(loaded, token) :
         LET preview == Preview(<<token[1], token[2] + 1>>, <<loaded[i].file, requested>>, job)
         IN /\ Staged(preview.rows, job)
            /\ previews' = Discarded(Append(store, preview), token)
  BY DEF imports_remap
<1>2. PICK i \in DOMAIN loaded :
         LET preview == Preview(<<token[1], token[2] + 1>>, <<loaded[i].file, requested>>, job)
         IN /\ loaded[i].token = token
            /\ Staged(preview.rows, job)
            /\ previews' = Discarded(Append(store, preview), token)
  BY <1>1 DEF Loaded
<1> DEFINE file == loaded[i].file
           q == Preview(<<token[1], token[2] + 1>>, <<file, requested>>, job)
           all == Append(store, q)
           n == Len(store)
<1>3. run = NoRun /\ run' = run /\ UNCHANGED uploads /\ UNCHANGED catalogue
  BY DEF imports_remap
<1>4. \A j \in DOMAIN previews : PreviewOK(previews[j], jobs) /\ uploads[previews[j].token[1]] = 0
  BY <1>3 DEF ImportsInv, Waiting
<1>5. /\ Store(store) /\ \A j \in DOMAIN store : \E k \in DOMAIN previews : store[j] = previews[k]
      /\ \E k \in DOMAIN previews : loaded[i] = previews[k]
  BY PrunedStore DEF ImportsInv, Waiting
<1>6. token \in Uploads \X Nat /\ file \in DOMAIN Files /\ uploads[token[1]] = 0
  BY <1>2, <1>4, <1>5 DEF PreviewOK
<1>7. /\ q.token = <<token[1], token[2] + 1>> /\ q.file = file /\ q.job = job
      /\ q.layout \in {"vendors", "offerings", "projects"} /\ Len(q.rows) \in Nat
  BY <1>6, PreviewFits
<1>8. Staged(q.rows, job) /\ previews' = Discarded(all, token)
  BY <1>2
<1> HIDE DEF q, file
<1>9. /\ Accounts' /\ There(jobs)' \subseteq JobIds
      /\ \A r : PreviewOK(r, jobs) => PreviewOK(r, jobs')
      /\ job \in There(jobs)' \cup {None} /\ (job # None => jobs'[job].rows = Len(q.rows))
  BY <1>7, <1>8, StagedKeeps
<1>10. q.token \in Uploads \X Nat /\ q.token # token /\ q.token[1] = token[1]
  BY <1>6, <1>7
<1>11. PreviewOK(q, jobs')
  BY <1>6, <1>7, <1>9, <1>10 DEF PreviewOK
<1>12. /\ all \in Seq(ToSet(all)) /\ DOMAIN all = 1 .. n + 1 /\ all[n + 1] = q
       /\ DOMAIN store = 1 .. n /\ n \in Nat /\ \A j \in DOMAIN store : all[j] = store[j]
  <2>1. store \in Seq(ToSet(store) \cup {q})
    <3>1. ToSet(store) \subseteq ToSet(store) \cup {q} /\ store \in Seq(ToSet(store))
      BY <1>5 DEF Store
    <3> QED BY <3>1, SeqMonotonic
  <2>2. all \in Seq(ToSet(store) \cup {q})
    BY <2>1
  <2>3. all \in Seq(ToSet(all))
    BY <2>2, OwnMembers
  <2> QED BY <2>1, <2>3
<1> HIDE DEF all, n
\* The preview that is mapped again is the only other one of its upload.
<1>13. \A j \in DOMAIN store : PreviewOK(store[j], jobs') /\ uploads[store[j].token[1]] = 0
  BY <1>4, <1>5, <1>9
<1>14. \A j \in DOMAIN store : store[j].token # token => store[j].token[1] # token[1]
  BY <1>2, <1>5 DEF ImportsInv, Waiting, Store
<1>15. \A j \in DOMAIN all : j \in DOMAIN store \/ j = n + 1
  BY <1>12
<1>16. \A j \in DOMAIN all : PreviewOK(all[j], jobs') /\ uploads[all[j].token[1]] = 0
  <2>1. \A j \in DOMAIN store : PreviewOK(all[j], jobs') /\ uploads[all[j].token[1]] = 0
    BY <1>12, <1>13
  <2>2. PreviewOK(all[n + 1], jobs') /\ uploads[all[n + 1].token[1]] = 0
    BY <1>6, <1>10, <1>11, <1>12
  <2> QED BY <1>15, <2>1, <2>2
<1>17. /\ Store(Discarded(all, token))
       /\ \A k \in DOMAIN Discarded(all, token) :
            \E j \in DOMAIN all : Discarded(all, token)[k] = all[j]
  <2>1. CASE \E m \in DOMAIN store : store[m].token = token
    <3>1. PICK m \in DOMAIN store : store[m].token = token
      BY <2>1
    <3>2. \A j \in Loaded(all, token) : j = m
      <4>1. \A j \in DOMAIN store : store[j].token = token => j = m
        BY <1>5, <3>1 DEF Store
      <4> QED BY <1>10, <1>12, <1>15, <4>1 DEF Loaded
    <3>3. m \in Loaded(all, token)
      BY <1>12, <3>1 DEF Loaded
    <3>4. m \in DOMAIN all /\ Discarded(all, token) = RemoveAt(all, m)
      BY <3>2, <3>3 DEF Discarded, Loaded
    <3> DEFINE t == RemoveAt(all, m)
               f == [k \in DOMAIN t |-> IF k < m THEN k ELSE k + 1]
    <3>5. /\ t \in Seq(ToSet(all)) /\ DOMAIN t = 1 .. Len(all) - 1 /\ Len(all) = n + 1
          /\ \A k \in DOMAIN t : t[k] = all[IF k < m THEN k ELSE k + 1]
      <4>1. Len(all) = n + 1
        BY <1>12
      <4> QED BY <1>12, <3>4, <4>1, Removed
    <3> HIDE DEF t
    <3>6. \A k \in DOMAIN t : f[k] \in DOMAIN all /\ f[k] # m
      BY <1>12, <3>4, <3>5
    <3>7. \A k, l \in DOMAIN t : k # l => f[k] # f[l]
      BY <1>12, <3>4, <3>5
    <3>8. \A k \in DOMAIN t : t[k] = all[f[k]]
      BY <3>5
    <3> HIDE DEF f
    <3>9. \A j, k \in DOMAIN all : j # k /\ j # m /\ k # m => all[j].token[1] # all[k].token[1]
      <4>1. \A j \in DOMAIN store : j # m => store[j].token[1] # token[1]
        BY <1>5, <3>1 DEF Store
      <4>2. \A j, k \in DOMAIN store : j # k => store[j].token[1] # store[k].token[1]
        BY <1>5 DEF Store
      <4> QED BY <1>10, <1>12, <1>15, <4>1, <4>2
    <3>10. t \in Seq(ToSet(t))
      BY <3>5, OwnMembers
    <3>11. Store(t)
      BY <3>6, <3>7, <3>8, <3>9, <3>10 DEF Store
    <3> QED BY <3>4, <3>6, <3>8, <3>11 DEF t
  <2>2. CASE \A m \in DOMAIN store : store[m].token # token
    <3>1. Loaded(all, token) = {}
      BY <1>10, <1>12, <1>15, <2>2 DEF Loaded
    <3>2. Discarded(all, token) = all
      BY <3>1 DEF Discarded
    <3>3. \A j, k \in DOMAIN all : j # k => all[j].token[1] # all[k].token[1]
      <4>1. \A j, k \in DOMAIN store : j # k => store[j].token[1] # store[k].token[1]
        BY <1>5 DEF Store
      <4>2. \A j \in DOMAIN store : store[j].token[1] # token[1]
        BY <1>14, <2>2
      <4> QED BY <1>10, <1>12, <1>15, <4>1, <4>2
    <3> QED BY <1>12, <3>2, <3>3 DEF Store
  <2> QED BY <2>1, <2>2
<1>18. Store(previews')
       /\ \A k \in DOMAIN previews' : PreviewOK(previews'[k], jobs') /\ uploads'[previews'[k].token[1]] = 0
  BY <1>3, <1>8, <1>16, <1>17
<1>19. Waiting'
  BY <1>3, <1>18 DEF ImportsInv, Waiting, Store
<1>20. RunOK'
  BY <1>3 DEF RunOK
<1> QED BY <1>3, <1>9, <1>19, <1>20, CatalogueKept DEF ImportsInv

LEMMA ImportsStep == ImportsInv /\ [ImportsNext]_importVars => ImportsInv'
<1> SUFFICES ASSUME ImportsInv, [ImportsNext]_importVars PROVE ImportsInv'
  OBVIOUS
<1>1. CASE UNCHANGED importVars
  <2>1. UNCHANGED <<catalogue, jobs, previews, run, uploads>>
    BY <1>1 DEF importVars, catalogue
  <2>2. Copied' /\ FiledRight' /\ Uploaded'
    BY <2>1, CatalogueKept
  <2>3. Remembers(run) => Remembers(run)'
    BY <2>1 DEF Remembers, PlaceOf, Recalls, catalogue
  <2>4. RunOK'
    BY <2>1, <2>3 DEF ImportsInv, RunOK, Counts
  <2>5. Waiting' /\ Accounts' /\ There(jobs)' \subseteq JobIds
    BY <2>1 DEF ImportsInv, Waiting, Store, Accounts, Accounted, There
  <2> QED BY <2>2, <2>4, <2>5 DEF ImportsInv
<1>2. Running => /\ Level(run) /\ FiledRight /\ Counts(run)
                 /\ run.preview.layout \in {"vendors", "offerings", "projects"}
  BY DEF ImportsInv, RunOK, Running, Level, PreviewOK
<1>3. ASSUME NEW action, NEW target, ApplyRow(action, target) PROVE ImportsInv'
  <2>1. Running /\ UNCHANGED <<jobs, previews, uploads>>
    BY <1>3 DEF ApplyRow
  <2>2. Went /\ Noted /\ RowsKept
    BY <1>2, <1>3, <2>1, RowGoes
  <2> QED BY <2>1, <2>2, RunStep
<1>4. CASE apply_stage_area_rows_for_row
  <2>1. Running /\ UNCHANGED <<jobs, previews, uploads>>
    BY <1>4 DEF apply_stage_area_rows_for_row
  <2> QED BY <1>2, <1>4, <2>1, AreaRowGoes, RunStep
<1>5. CASE RowApplied
  <2>1. Running /\ UNCHANGED <<jobs, previews, uploads>>
    BY <1>5 DEF RowApplied
  <2> QED BY <1>2, <1>5, <2>1, AppliedGoes, RunStep
<1>6. ASSUME NEW p \in Policies, NEW requested \in DOMAIN Requested, NEW u \in Uploads,
             NEW file \in DOMAIN Files, imports_preview(p, u, file, requested)
      PROVE  ImportsInv'
  BY <1>6, PreviewStep
<1>7. ASSUME NEW p \in Policies, NEW requested \in DOMAIN Requested, NEW token \in Tokens,
             imports_remap(p, token, requested)
      PROVE  ImportsInv'
  BY <1>7, RemapStep
<1>8. ASSUME NEW p \in Policies, NEW token \in Tokens, NEW reason \in BOOLEAN,
             imports_apply(p, token, reason)
      PROVE  ImportsInv'
  BY <1>8, ApplyStep
<1> QED BY <1>1, <1>3, <1>4, <1>5, <1>6, <1>7, <1>8, FinalStep, RestartStep DEF ImportsNext

LEMMA ImportsStart == ImportsInit => ImportsInv
<1> SUFFICES ASSUME ImportsInit PROVE ImportsInv
  OBVIOUS
<1>1. /\ children = {} /\ run = NoRun /\ DOMAIN jobs = {}
      /\ previews = <<>> /\ DOMAIN previews = {}
      /\ uploads \in [Uploads -> {NoRow, 0, 1}]
  BY DEF ImportsInit
<1>2. Copied /\ Uploaded
  BY <1>1, FS_EmptySet DEF Copied, ChildrenOnce, Uploaded
<1>3. FiledRight
  BY <1>1, ImportsAssumption DEF ImportsInit, ImportsAssumption, FiledRight, There
<1>4. RunOK /\ Accounts /\ There(jobs) \subseteq JobIds
  BY <1>1 DEF RunOK, Accounts, There
<1>5. Waiting
  BY <1>1 DEF Waiting, Store
<1> QED BY <1>2, <1>3, <1>4, <1>5 DEF ImportsInv

LEMMA ImportsInductive == ImportsSpec => []ImportsInv
BY ImportsStart, ImportsStep, PTL DEF ImportsSpec

-----------------------------------------------------------------------------
(* The properties                                                          *)

(* For any files, matches, choices of the user and failures, also of the   *)
(* reads that tell what is known, a run enters no contact, owner or        *)
(* contract again under a name it reported, and none at all that was there *)
(* before under the key its file gives, unless it could not read the keys. *)
THEOREM NothingTwice == ImportsSpec => []ChildrenOnce
<1>1. ImportsInv => ChildrenOnce
  BY DEF ImportsInv, Copied
<1> QED BY <1>1, ImportsInductive, PTL

(* For any sequence of uploads, mappings, runs and restarts an upload is   *)
(* applied once, and a job that is closed accounts for all of its rows.    *)
THEOREM JobsAccount == ImportsSpec => []JobsTell
<1>1. ImportsInv => JobsTell
  <2> SUFFICES ASSUME ImportsInv PROVE JobsTell
    OBVIOUS
  <2>1. \A u \in Uploads : uploads[u] # NoRow => uploads[u] <= 1
    BY DEF ImportsInv, Waiting
  <2>2. \A b \in There(jobs) : Accounted(b)
    BY DEF ImportsInv, Accounts
  <2> QED BY <2>1, <2>2 DEF JobsTell, Accounted
<1> QED BY <1>1, ImportsInductive, PTL

(* What an import files under an offering belongs to its vendor.           *)
THEOREM ImportsFileRight == ImportsSpec => []ChildrenOfVendor
<1>1. ImportsInv => ChildrenOfVendor
  BY DEF ImportsInv, FiledRight, FiledWith, ChildrenOfVendor
<1> QED BY <1>1, ImportsInductive, PTL

\* Each component of the catalogue moves as it does alone.
LEMMA CatalogueAlone ==
    Spec => /\ ContractsSpec /\ OfferingsSpec /\ HistorySpec
            /\ ProjectsSpec /\ DemosSpec /\ ImportsSpec
<1>1. Init => /\ ContractsInit /\ OfferingsInit /\ HistoryInit
              /\ ProjectsInit /\ DemosInit /\ ImportsInit
  BY DEF Init
<1>2. [Next]_<<focus, contractVars, offeringVars, historyVars, projectVars, demoVars, importVars>>
      => /\ [ContractsNext]_contractVars /\ [OfferingsNext]_offeringVars
         /\ [HistoryNext]_historyVars /\ [ProjectsNext]_projectVars
         /\ [DemosNext]_demoVars /\ [ImportsNext]_importVars
  BY DEF Next
<1> QED BY <1>1, <1>2, PTL DEF Spec, ContractsSpec, OfferingsSpec, HistorySpec, ProjectsSpec,
           DemosSpec, ImportsSpec

(* Whatever is filed under an offering of the catalogue is filed under the *)
(* vendor of that offering, in each of its parts: contracts, rows, what    *)
(* imports enter, and the offerings of projects, but for those whose       *)
(* update broke off or gave the vendors without the offerings.             *)
THEOREM CatalogueFiledRight == Spec => []FiledUnderItsVendor
<1>1. OfferingOfVendor /\ RowsOfVendor /\ OfferingsBringVendors /\ ChildrenOfVendor
      => FiledUnderItsVendor
  BY DEF FiledUnderItsVendor
<1> QED BY <1>1, CatalogueAlone, ContractsStayWithTheirVendor, RowsStayWithTheirVendor,
           OfferingsHaveTheirVendors, ImportsFileRight, PTL

-----------------------------------------------------------------------------
(* The types: what refers to a vendor finds it                             *)

Linked ==
    /\ There(vendorRows) \subseteq VendorIds /\ There(offeringRows) \subseteq OfferingIds
    /\ There(projectRows) \subseteq ProjectRowIds
    /\ \A v \in There(vendorRows) : "name" \in DOMAIN vendorRows[v] /\ vendorRows[v].name # None
    /\ \A o \in There(offeringRows) :
         "vendor" \in DOMAIN offeringRows[o] /\ offeringRows[o].vendor \in There(vendorRows)
    /\ \A j \in There(projectRows) :
         /\ {"vendor", "vendors"} \subseteq DOMAIN projectRows[j]
         /\ projectRows[j].vendor \in There(vendorRows) \cup {None}
         /\ projectRows[j].vendors \subseteq There(vendorRows)
    /\ \A c \in children : c.vendor \in There(vendorRows)

LEMMA CatalogueLinked ==
    ASSUME Linked, UNCHANGED catalogue
    PROVE  Linked'
BY DEF Linked, catalogue, There

LEMMA WriteLinks ==
    ASSUME Linked, NEW ACTION write, NEW ACTION next, Wrote(write, next), write => Linked'
    PROVE  Linked'
BY CatalogueLinked DEF Wrote

LEMMA OfferingsLinked ==
    ASSUME Linked
    PROVE  /\ \A o \in OfferingIds, v \in There(vendorRows) : \A name : OfferingCreated(o, v, name) => Linked'
           /\ \A o, name : OfferingUpdated(o, name) => Linked'
<1>1. ASSUME NEW o \in OfferingIds, NEW v \in There(vendorRows), NEW name, OfferingCreated(o, v, name)
      PROVE  Linked'
  <2> DEFINE row == [vendor |-> v, name |-> name]
  <2>1. offeringRows' = Entered(offeringRows, o, row) /\ UNCHANGED <<vendorRows, projectRows, children>>
    BY <1>1 DEF OfferingCreated
  <2>2. "vendor" \in DOMAIN row /\ row.vendor = v
    OBVIOUS
  <2> HIDE DEF row
  <2>3. /\ DOMAIN offeringRows' = DOMAIN offeringRows \cup {o} /\ offeringRows'[o] = row
        /\ \A x \in DOMAIN offeringRows : x # o => offeringRows'[x] = offeringRows[x]
    BY <2>1 DEF Entered
  <2> QED BY <2>1, <2>2, <2>3 DEF Linked, There
<1>2. ASSUME NEW o, NEW name, OfferingUpdated(o, name)
      PROVE  Linked'
  <2>1. /\ offeringRows' = [offeringRows EXCEPT ![o].name = name]
        /\ UNCHANGED <<vendorRows, projectRows, children>>
    BY <1>2 DEF OfferingUpdated
  <2>2. DOMAIN offeringRows' = DOMAIN offeringRows
    BY <2>1
  <2>3. \A x \in DOMAIN offeringRows :
           "vendor" \in DOMAIN offeringRows'[x] /\ offeringRows'[x].vendor = offeringRows[x].vendor
    BY <2>1 DEF Linked, There
  <2> QED BY <2>1, <2>2, <2>3 DEF Linked, There
<1> QED BY <1>1, <1>2

LEMMA ProjectsLinked ==
    ASSUME Linked, NEW j \in ProjectRowIds, NEW row, ProjectBecomes(j, row),
           {"vendor", "vendors"} \subseteq DOMAIN row,
           row.vendor \in There(vendorRows) \cup {None}, row.vendors \subseteq There(vendorRows)
    PROVE  Linked'
<1>1. projectRows' = Entered(projectRows, j, row) /\ UNCHANGED <<vendorRows, offeringRows, children>>
  BY DEF ProjectBecomes
<1>2. /\ DOMAIN projectRows' = DOMAIN projectRows \cup {j} /\ projectRows'[j] = row
      /\ \A x \in DOMAIN projectRows : x # j => projectRows'[x] = projectRows[x]
  BY <1>1 DEF Entered
<1> QED BY <1>1, <1>2 DEF Linked, There

LEMMA WrittenLinked ==
    ASSUME Linked, NEW j \in ProjectRowIds, NEW row, NEW halfway, NEW ACTION next,
           {"vendor", "vendors"} \subseteq DOMAIN row,
           row.vendor \in There(vendorRows) \cup {None}, row.vendors \subseteq There(vendorRows),
           \A V \in halfway : V \subseteq There(vendorRows),
           ProjectWritten(j, row, halfway, next)
    PROVE  Linked'
<1>1. ASSUME NEW V \in halfway, ProjectBecomes(j, [row EXCEPT !.vendors = V])
      PROVE  Linked'
  <2> DEFINE half == [row EXCEPT !.vendors = V]
  <2>1. /\ {"vendor", "vendors"} \subseteq DOMAIN half /\ half.vendor = row.vendor
        /\ half.vendors = V
    OBVIOUS
  <2>2. ProjectBecomes(j, half)
    BY <1>1
  <2> HIDE DEF half
  <2> QED BY <2>1, <2>2, ProjectsLinked
<1> QED BY <1>1, ProjectsLinked, CatalogueLinked DEF ProjectWritten

LEMMA CreatedLinked ==
    ASSUME Linked, NEW name, NEW v \in There(vendorRows) \cup {None}, NEW ACTION next,
           ProjectCreated(name, v, next)
    PROVE  Linked'
<1> DEFINE row == [name |-> name, vendor |-> v, vendors |-> {v} \ {None}]
<1>1. PICK j \in ProjectRowIds : ProjectWritten(j, row, {{}, {v} \ {None}}, next)
  BY DEF ProjectCreated
<1>2. /\ {"vendor", "vendors"} \subseteq DOMAIN row /\ row.vendor = v
      /\ row.vendors \subseteq There(vendorRows)
  OBVIOUS
<1> HIDE DEF row
<1>3. \A V \in {{}, {v} \ {None}} : V \subseteq There(vendorRows)
  OBVIOUS
<1> QED BY <1>1, <1>2, <1>3, WrittenLinked

\* The vendor a project is given is one that it has.
LEMMA MergedLinked ==
    ASSUME Linked, NEW j \in There(projectRows), NEW name, NEW v, ProjectUpdatable(j, v),
           NEW ACTION next, ProjectMerged(j, name, v, next)
    PROVE  Linked'
<1> DEFINE old == projectRows[j]
           named == [old EXCEPT !.name = IF name = None THEN @ ELSE name]
           moved == [named EXCEPT !.vendor = v, !.vendors = {v}]
<1>1. /\ j \in ProjectRowIds /\ {"vendor", "vendors"} \subseteq DOMAIN old
      /\ old.vendor \in There(vendorRows) \cup {None} /\ old.vendors \subseteq There(vendorRows)
  BY DEF Linked
<1>2. \A theirs \in ProjectVendors(j) : theirs \subseteq There(vendorRows)
  BY <1>1 DEF ProjectVendors
<1>3. v \in There(vendorRows) \cup {None}
  BY <1>2 DEF ProjectUpdatable
<1>4. IF v = None THEN ProjectWritten(j, named, {old.vendors}, next)
      ELSE ProjectWritten(j, moved, {old.vendors, {}, {v}}, next)
  BY DEF ProjectMerged
<1> HIDE DEF old
<1>5. /\ {"vendor", "vendors"} \subseteq DOMAIN named /\ named.vendor = old.vendor
      /\ named.vendors = old.vendors
  BY <1>1
<1> HIDE DEF named
<1>6. /\ {"vendor", "vendors"} \subseteq DOMAIN moved /\ moved.vendor = v
      /\ moved.vendors = {v}
  BY <1>5
<1> HIDE DEF moved
<1>7. CASE v = None
  <2>1. \A V \in {old.vendors} : V \subseteq There(vendorRows)
    BY <1>1
  <2> QED BY <1>1, <1>4, <1>5, <1>7, <2>1, WrittenLinked
<1>8. CASE v # None
  <2>1. \A V \in {old.vendors, {}, {v}} : V \subseteq There(vendorRows)
    BY <1>1, <1>3, <1>8
  <2> QED BY <1>1, <1>3, <1>4, <1>6, <1>8, <2>1, WrittenLinked
<1> QED BY <1>7, <1>8

\* A child of a vendor that is there; vendors stay, and have names.
LEMMA VendorsLinked ==
    ASSUME Linked, UNCHANGED <<offeringRows, projectRows>>, NEW v, v \in There(vendorRows'),
           There(vendorRows) \subseteq There(vendorRows'), There(vendorRows') \subseteq VendorIds,
           \A w \in There(vendorRows') : "name" \in DOMAIN vendorRows'[w] /\ vendorRows'[w].name # None,
           \A c \in children' : c \in children \/ c.vendor = v
    PROVE  Linked'
BY DEF Linked, There

LEMMA AdditionOf ==
    ASSUME NEW area, NEW v, NEW o, NEW name, NEW allowed,
           NEW done \in maybe_add(area, v, o, name, allowed), children' = done.children
    PROVE  \A c \in children' : c \in children \/ (allowed /\ c.vendor = v)
BY Additions, ChildFields

LEMMA VendorRowLinks ==
    ASSUME Linked, NEW action, NEW target, apply_vendor_row(action, target)
    PROVE  Linked'
<1> DEFINE name == FileRow.data.name
<1>1. ASSUME NEW v, NEW allowed, NEW status, NEW updated, VendorSupport(v, allowed, status, updated)
      PROVE  \A c \in children' : c \in children \/ (allowed /\ c.vendor = v)
  <2>1. PICK done \in Supports(v, allowed) : children' = done.children
    BY <1>1 DEF VendorSupport
  <2>2. CASE FileRow.data.contact = None
    BY <2>1, <2>2 DEF Supports
  <2>3. CASE FileRow.data.contact # None
    BY <2>1, <2>3, AdditionOf DEF Supports
  <2> QED BY <2>2, <2>3
<1>2. \/ /\ name # None
         /\ \E v \in VendorIds \ There(vendorRows) :
              /\ vendorRows' = Entered(vendorRows, v, [name |-> name])
              /\ VendorSupport(v, TRUE, "created", TRUE) \/ VendorFails
         /\ UNCHANGED <<offeringRows, projectRows>>
      \/ /\ name # None /\ target \in There(vendorRows)
         /\ vendorRows' = Entered(vendorRows, target, [vendorRows[target] EXCEPT !.name = name])
         /\ VendorSupport(target, TRUE, "merged", TRUE) \/ VendorFails
         /\ UNCHANGED <<offeringRows, projectRows>>
      \/ /\ VendorSupport(target, target \in There(vendorRows), "merged", FALSE)
         /\ UNCHANGED <<vendorRows, offeringRows, projectRows>>
      \/ Refused
  BY VendorRowCases
<1> HIDE DEF name
<1>3. ASSUME NEW v \in VendorIds, NEW row, "name" \in DOMAIN row, row.name # None,
             vendorRows' = Entered(vendorRows, v, row),
             NEW status, VendorSupport(v, TRUE, status, TRUE) \/ VendorFails,
             UNCHANGED <<offeringRows, projectRows>>
      PROVE  Linked'
  <2>1. /\ DOMAIN vendorRows' = DOMAIN vendorRows \cup {v} /\ vendorRows'[v] = row
        /\ \A x \in DOMAIN vendorRows : x # v => vendorRows'[x] = vendorRows[x]
    BY <1>3 DEF Entered
  <2>2. /\ There(vendorRows) \subseteq There(vendorRows') /\ There(vendorRows') \subseteq VendorIds
        /\ v \in There(vendorRows')
        /\ \A w \in There(vendorRows') : "name" \in DOMAIN vendorRows'[w] /\ vendorRows'[w].name # None
    BY <1>3, <2>1 DEF Linked, There
  <2>3. \A c \in children' : c \in children \/ c.vendor = v
    BY <1>1, <1>3 DEF VendorFails
  <2> QED BY <1>3, <2>2, <2>3, VendorsLinked
<1>4. ASSUME name # None, NEW v \in VendorIds \ There(vendorRows),
             vendorRows' = Entered(vendorRows, v, [name |-> name]),
             VendorSupport(v, TRUE, "created", TRUE) \/ VendorFails,
             UNCHANGED <<offeringRows, projectRows>>
      PROVE  Linked'
  <2> DEFINE row == [name |-> name]
  <2>1. "name" \in DOMAIN row /\ row.name # None /\ vendorRows' = Entered(vendorRows, v, row)
    BY <1>4
  <2> HIDE DEF row
  <2> QED BY <1>3, <1>4, <2>1
<1>5. CASE /\ name # None /\ target \in There(vendorRows)
           /\ vendorRows' = Entered(vendorRows, target, [vendorRows[target] EXCEPT !.name = name])
           /\ VendorSupport(target, TRUE, "merged", TRUE) \/ VendorFails
           /\ UNCHANGED <<offeringRows, projectRows>>
  <2> DEFINE row == [vendorRows[target] EXCEPT !.name = name]
  <2>1. "name" \in DOMAIN vendorRows[target] /\ target \in VendorIds
    BY <1>5 DEF Linked
  <2>2. "name" \in DOMAIN row /\ row.name # None /\ vendorRows' = Entered(vendorRows, target, row)
    BY <1>5, <2>1
  <2> HIDE DEF row
  <2> QED BY <1>3, <1>5, <2>1, <2>2
<1>6. CASE /\ VendorSupport(target, target \in There(vendorRows), "merged", FALSE)
           /\ UNCHANGED <<vendorRows, offeringRows, projectRows>>
  <2>1. \A c \in children' : c \in children \/ (target \in There(vendorRows) /\ c.vendor = target)
    <3> DEFINE allowed == target \in There(vendorRows)
    <3>1. VendorSupport(target, allowed, "merged", FALSE)
      BY <1>6
    <3> HIDE DEF allowed
    <3>2. \A c \in children' : c \in children \/ (allowed /\ c.vendor = target)
      BY <1>1, <3>1
    <3> QED BY <3>2 DEF allowed
  <2> QED BY <1>6, <2>1 DEF Linked, There
<1> QED BY <1>2, <1>4, <1>5, <1>6, CatalogueLinked DEF Refused

LEMMA RowLinks ==
    ASSUME Linked, NEW action, NEW target, ApplyRow(action, target),
           run.preview.layout \in {"vendors", "offerings", "projects"}
    PROVE  Linked'
<1> DEFINE data == FileRow.data
<1>1. CASE apply_offering_row(action, target)
  <2> DEFINE given == IF data.vendor # None THEN data.vendor ELSE FileRow.vendor
             v == IF given # None \/ target \notin There(offeringRows) THEN given
                  ELSE offeringRows[target].vendor
  <2>1. \/ /\ given \in There(vendorRows)
           /\ \E o \in OfferingIds \ There(offeringRows) :
                Wrote(OfferingCreated(o, given, data.name), OnToAreas(run, "created", given, o))
        \/ Wrote(OfferingUpdated(target, data.name), OnToAreas(run, "merged", v, target))
        \/ Refused
    BY <1>1 DEF apply_offering_row
  <2> HIDE DEF data, given, v
  <2>2. ASSUME given \in There(vendorRows), NEW o \in OfferingIds,
               Wrote(OfferingCreated(o, given, data.name), OnToAreas(run, "created", given, o))
        PROVE  Linked'
    <3>1. OfferingCreated(o, given, data.name) => Linked'
      BY <2>2, OfferingsLinked
    <3> QED BY <2>2, <3>1, WriteLinks
  <2>3. CASE Wrote(OfferingUpdated(target, data.name), OnToAreas(run, "merged", v, target))
    <3>1. OfferingUpdated(target, data.name) => Linked'
      BY OfferingsLinked
    <3> QED BY <2>3, <3>1, WriteLinks
  <2> QED BY <2>1, <2>2, <2>3, CatalogueLinked DEF Refused
<1>2. CASE apply_project_row(action, target)
  <2> DEFINE v == IF data.vendor # None THEN data.vendor ELSE projectRows[target].vendor
             created == OnToAreas(run, "created", data.vendor, None)
             merged == OnToAreas(run, "merged", v, None)
  <2>1. \/ /\ data.vendor \in There(vendorRows) \cup {None}
           /\ ProjectCreated(data.name, data.vendor, created)
        \/ /\ target \in There(projectRows) /\ ProjectUpdatable(target, v)
           /\ ProjectMerged(target, data.name, v, merged)
        \/ Refused
    BY <1>2 DEF apply_project_row
  <2> HIDE DEF data, v, created, merged
  <2> QED BY <2>1, CreatedLinked, MergedLinked, CatalogueLinked DEF Refused
<1>3. CASE UNCHANGED catalogue
  BY <1>3, CatalogueLinked
<1>4. \/ UNCHANGED catalogue \/ apply_vendor_row(action, target)
      \/ apply_offering_row(action, target) \/ apply_project_row(action, target)
  BY DEF ApplyRow, apply_import_row, Refused
<1> QED BY <1>1, <1>2, <1>3, <1>4, VendorRowLinks

LEMMA AreaRowLinks ==
    ASSUME Linked, apply_stage_area_rows_for_row
    PROVE  Linked'
<1> DEFINE a == Head(run.todo)
<1>1. apply_offering_area(a) \/ apply_project_area(a) \/ apply_child_area(a)
  BY DEF apply_stage_area_rows_for_row
<1> HIDE DEF a
<1>2. Refused \/ Skipped => Linked'
  BY CatalogueLinked DEF Refused, Skipped
<1>3. CASE apply_offering_area(a)
  <2> DEFINE v == IF NamedVendor(a) = None /\ a.id \in There(offeringRows)
                  THEN offeringRows[a.id].vendor ELSE NamedVendor(a)
  <2>1. \/ OfferingUpdated(a.id, a.key)
        \/ UNCHANGED catalogue
        \/ v \in There(vendorRows) /\ \E o \in OfferingIds : OfferingCreated(o, v, a.key)
    BY <1>3, ZenonT(60) DEF apply_offering_area, Wrote, Refused, Skipped
  <2> HIDE DEF v
  <2> QED BY <2>1, OfferingsLinked, CatalogueLinked
<1>4. CASE apply_project_area(a)
  <2> DEFINE next == AreaDone(run)
             v == NamedVendor(a)
  <2>1. \/ /\ a.id \in There(projectRows) /\ ProjectUpdatable(a.id, v)
           /\ ProjectMerged(a.id, a.key, v, next)
        \/ v \in There(vendorRows) \cup {None} /\ ProjectCreated(a.key, v, next)
        \/ Refused
        \/ Skipped
    BY <1>4 DEF apply_project_area
  <2> HIDE DEF v, next
  <2> QED BY <1>2, <2>1, CreatedLinked, MergedLinked
<1>5. CASE apply_child_area(a)
  <2> DEFINE o == IF a.area \in {"vendor_contact", "vendor_owner"} THEN None ELSE resolve_offering_id(a)
             Allowed(v) == v \in There(vendorRows) /\ (o # None => o \in OfferingsOf(v))
  <2>1. \/ Skipped
        \/ /\ \E v : \E done \in maybe_add(a.area, v, o, a.key, Allowed(v)) : children' = done.children
           /\ UNCHANGED <<vendorRows, offeringRows, projectRows>>
    BY <1>5 DEF apply_child_area
  <2> HIDE DEF o
  <2>2. ASSUME NEW v, NEW done \in maybe_add(a.area, v, o, a.key, Allowed(v)), children' = done.children,
               UNCHANGED <<vendorRows, offeringRows, projectRows>>
        PROVE  Linked'
    <3>1. \A c \in children' : c \in children \/ (Allowed(v) /\ c.vendor = v)
      <4> HIDE DEF Allowed
      <4> QED BY <2>2, AdditionOf
    <3> QED BY <2>2, <3>1 DEF Linked, There
  <2> QED BY <1>2, <2>1, <2>2
<1> QED BY <1>1, <1>3, <1>4, <1>5

\* The store has room for one preview more than it is pruned to.
Stored == Len(previews) <= IMPORT_PREVIEW_MAX_ITEMS + 1

Statuses == \A b \in There(jobs) : jobs[b].status \in {"staged", "applied", "applied_with_errors"}

LEMMA DiscardedLength ==
    ASSUME NEW S, NEW s \in Seq(S), NEW token
    PROVE  Len(Discarded(s, token)) \in Nat /\ Len(s) \in Nat /\ Len(Discarded(s, token)) <= Len(s)
<1> DEFINE m == CHOOSE i \in Loaded(s, token) : TRUE
<1>1. CASE Loaded(s, token) = {}
  BY <1>1 DEF Discarded
<1>2. CASE Loaded(s, token) # {}
  <2>1. m \in DOMAIN s /\ Discarded(s, token) = RemoveAt(s, m)
    BY <1>2 DEF Discarded, Loaded
  <2> HIDE DEF m
  <2> DEFINE t == RemoveAt(s, m)
  <2>2. t \in Seq(S) /\ DOMAIN t = 1 .. Len(s) - 1
    BY <2>1, Removed
  <2> HIDE DEF t
  <2>3. Len(t) \in Nat /\ DOMAIN t = 1 .. Len(t) /\ Len(s) \in Nat /\ m \in 1 .. Len(s)
    BY <2>1, <2>2
  <2>4. Len(t) = Len(s) - 1
    BY <2>2, <2>3
  <2> QED BY <2>1, <2>3, <2>4 DEF t
<1> QED BY <1>1, <1>2

LEMMA AppendedLength ==
    ASSUME NEW store, Store(store), Len(store) <= IMPORT_PREVIEW_MAX_ITEMS, NEW q
    PROVE  /\ Append(store, q) \in Seq(ToSet(store) \cup {q})
           /\ Len(Append(store, q)) <= IMPORT_PREVIEW_MAX_ITEMS + 1
<1>1. store \in Seq(ToSet(store) \cup {q})
  <2>1. ToSet(store) \subseteq ToSet(store) \cup {q} /\ store \in Seq(ToSet(store))
    BY DEF Store
  <2> QED BY <2>1, SeqMonotonic
<1>2. Len(Append(store, q)) = Len(store) + 1 /\ Len(store) \in Nat
  BY <1>1
<1> QED BY <1>1, <1>2, ImportsAssumption DEF ImportsAssumption

LEMMA StagedStatuses ==
    ASSUME Statuses, NEW lines, NEW job, Staged(lines, job)
    PROVE  Statuses'
<1>1. CASE UNCHANGED jobs
  BY <1>1 DEF Statuses, There
<1>2. ASSUME NEW row, row.status = "staged", jobs' = Entered(jobs, job, row)
      PROVE  Statuses'
  BY <1>2 DEF Statuses, There, Entered
<1>3. UNCHANGED jobs \/
      jobs' = Entered(jobs, job, [status |-> "staged", rows |-> Len(lines), created |-> 0,
                                  merged |-> 0, skipped |-> 0, failed |-> 0])
  BY DEF Staged
<1> QED BY <1>1, <1>2, <1>3

LEMMA StoredStep ==
    ASSUME ImportsInv, Stored, Statuses, [ImportsNext]_importVars
    PROVE  Stored' /\ Statuses'
<1>1. /\ Store(previews) /\ \A b \in There(jobs) : DOMAIN jobs[b] = JobFields
      /\ IMPORT_PREVIEW_MAX_ITEMS \in Nat
  BY ImportsAssumption DEF ImportsInv, Waiting, Accounts, ImportsAssumption
<1>2. UNCHANGED <<jobs, previews>> => Stored' /\ Statuses'
  BY DEF Stored, Statuses, There
<1>3. ASSUME NEW p, NEW u, NEW file, NEW requested, imports_preview(p, u, file, requested)
      PROVE  Stored' /\ Statuses'
  <2>1. PICK job \in JobIds \cup {None}, store \in _prune_preview_store :
           LET preview == Preview(<<u, 0>>, <<file, requested>>, job)
           IN Staged(preview.rows, job) /\ previews' = Append(store, preview)
    BY <1>3 DEF imports_preview
  <2> DEFINE q == Preview(<<u, 0>>, <<file, requested>>, job)
  <2>2. Staged(q.rows, job) /\ previews' = Append(store, q)
    BY <2>1
  <2> HIDE DEF q
  <2> QED BY <1>1, <2>2, PrunedStore, AppendedLength, StagedStatuses DEF Stored
<1>4. ASSUME NEW p, NEW token, NEW requested, imports_remap(p, token, requested)
      PROVE  Stored' /\ Statuses'
  <2>1. PICK job \in JobIds \cup {None}, loaded \in _prune_preview_store, store \in _prune_preview_store :
         \E i \in Loaded(loaded, token) :
           LET preview == Preview(<<token[1], token[2] + 1>>, <<loaded[i].file, requested>>, job)
           IN /\ Staged(preview.rows, job)
              /\ previews' = Discarded(Append(store, preview), token)
    BY <1>4 DEF imports_remap
  <2>2. PICK q : Staged(q.rows, job) /\ previews' = Discarded(Append(store, q), token)
    BY <2>1
  <2> DEFINE all == Append(store, q)
  <2>3. all \in Seq(ToSet(store) \cup {q}) /\ Len(all) <= IMPORT_PREVIEW_MAX_ITEMS + 1
    BY <1>1, PrunedStore, AppendedLength
  <2> HIDE DEF all
  <2>4. Discarded(all, token) = previews'
    BY <2>2 DEF all
  <2>5. Len(previews') \in Nat /\ Len(all) \in Nat /\ Len(previews') <= Len(all)
    BY <2>3, <2>4, DiscardedLength
  <2> QED BY <1>1, <2>2, <2>3, <2>5, StagedStatuses DEF Stored
<1>5. ASSUME NEW p, NEW token, NEW reason, imports_apply(p, token, reason)
      PROVE  Stored' /\ Statuses'
  <2>1. PICK store \in _prune_preview_store : previews' = store
    BY <1>5 DEF imports_apply
  <2>2. Store(store) /\ Len(store) <= IMPORT_PREVIEW_MAX_ITEMS
    BY <1>1, PrunedStore
  <2>3. Len(store) \in Nat
    BY <2>2 DEF Store
  <2>4. Stored'
    BY <1>1, <2>1, <2>2, <2>3 DEF Stored
  <2>5. UNCHANGED jobs
    BY <1>5 DEF imports_apply
  <2> QED BY <2>4, <2>5 DEF Statuses, There
<1>6. CASE finalize_import_staging_job
  <2> DEFINE b == run.preview.job
             token == run.preview.token
  <2>1. previews' = Discarded(previews, token)
    BY <1>6 DEF finalize_import_staging_job
  <2>2. previews \in Seq(ToSet(previews))
    BY <1>1 DEF Store
  <2> HIDE DEF token
  <2>3. Len(previews') \in Nat /\ Len(previews) \in Nat /\ Len(previews') <= Len(previews)
    BY <2>1, <2>2, DiscardedLength
  <2>4. Stored'
    BY <1>1, <2>3 DEF Stored
  <2>5. DOMAIN jobs' = DOMAIN jobs /\ \A c \in There(jobs) : c # b => jobs'[c] = jobs[c]
    BY <1>6 DEF finalize_import_staging_job, There
  <2>6. \/ UNCHANGED jobs
        \/ jobs' = [jobs EXCEPT ![b] = [@ EXCEPT
                    !.status = IF run.failed = 0 THEN "applied" ELSE "applied_with_errors",
                    !.created = run.created, !.merged = run.merged,
                    !.skipped = run.skipped, !.failed = run.failed]]
    BY <1>6 DEF finalize_import_staging_job
  <2>7. b \in There(jobs) => jobs'[b].status \in {jobs[b].status, "applied", "applied_with_errors"}
    <3> SUFFICES ASSUME b \in There(jobs), ~ UNCHANGED jobs
                 PROVE  jobs'[b].status \in {"applied", "applied_with_errors"}
      OBVIOUS
    <3>1. DOMAIN jobs[b] = JobFields /\ b \in DOMAIN jobs
      BY <1>1 DEF There
    <3>2. jobs'[b].status = IF run.failed = 0 THEN "applied" ELSE "applied_with_errors"
      BY <2>6, <3>1 DEF JobFields
    <3> QED BY <3>2
  <2>8. Statuses'
    BY <2>5, <2>7 DEF Statuses, There
  <2> QED BY <2>4, <2>8
<1>7. CASE Restart
  <2>1. Len(previews') = 0 /\ UNCHANGED jobs
    BY <1>7 DEF Restart
  <2> QED BY <1>1, <2>1 DEF Stored, Statuses, There
<1>8. (\E action, target : ApplyRow(action, target)) \/ apply_stage_area_rows_for_row \/ RowApplied
      \/ UNCHANGED importVars => UNCHANGED <<jobs, previews>>
  BY DEF ApplyRow, apply_stage_area_rows_for_row, RowApplied, importVars
<1> QED BY <1>2, <1>3, <1>4, <1>5, <1>6, <1>7, <1>8 DEF ImportsNext

LEMMA LinkedStep ==
    ASSUME ImportsInv, Linked, [ImportsNext]_importVars
    PROVE  Linked'
<1>1. Running => run.preview.layout \in {"vendors", "offerings", "projects"}
  BY DEF ImportsInv, RunOK, Running, PreviewOK
<1>2. ASSUME NEW action, NEW target, ApplyRow(action, target) PROVE Linked'
  <2>1. Running
    BY <1>2 DEF ApplyRow
  <2> QED BY <1>1, <1>2, <2>1, RowLinks
<1>3. UNCHANGED catalogue \/ apply_stage_area_rows_for_row \/ \E action, target : ApplyRow(action, target)
  BY DEF ImportsNext, imports_preview, imports_remap, imports_apply, RowApplied,
         finalize_import_staging_job, Restart, importVars, catalogue
<1> QED BY <1>2, <1>3, CatalogueLinked, AreaRowLinks

LEMMA ImportsTyped == ImportsSpec => []ImportsTypeOK
<1> DEFINE Typed == Linked /\ Stored /\ Statuses
<1>1. ImportsInit => Typed
  <2> SUFFICES ASSUME ImportsInit PROVE Typed
    OBVIOUS
  <2>1. DOMAIN jobs = {} /\ children = {} /\ Len(previews) = 0
    BY DEF ImportsInit
  <2>2. Linked
    <3>1. PICK c \in Catalogues :
             vendorRows = c.vendors /\ offeringRows = c.offerings /\ projectRows = c.projects
      BY DEF ImportsInit
    <3> QED BY <2>1, <3>1, ImportsAssumption DEF Linked, There, ImportsAssumption
  <2>3. Stored /\ Statuses
    BY <2>1, ImportsAssumption DEF Stored, Statuses, There, ImportsAssumption
  <2> QED BY <2>2, <2>3
<1>2. ImportsInv /\ Typed /\ [ImportsNext]_importVars => Typed'
  BY LinkedStep, StoredStep
<1>3. ImportsInv /\ Typed => ImportsTypeOK
  <2> SUFFICES ASSUME ImportsInv, Typed PROVE ImportsTypeOK
    OBVIOUS
  <2>1. uploads \in [Uploads -> {NoRow} \cup Nat] /\ There(jobs) \subseteq JobIds
    BY DEF ImportsInv, Waiting
  <2> QED BY <2>1 DEF Linked, Stored, Statuses, ImportsTypeOK
<1> HIDE DEF Typed
<1> QED BY <1>1, <1>2, <1>3, ImportsInductive, PTL DEF ImportsSpec

(* Every part of the catalogue keeps its types: what refers to a vendor    *)
(* or an offering finds it, names are there, and versions and previews     *)
(* stay within their bounds, for any requests, files and failures.         *)
THEOREM CatalogueTyped == Spec => []CatalogueTypeOK
<1>1. /\ ContractsTypeOK /\ OfferingsTypeOK /\ HistoryTypeOK
      /\ ProjectsTypeOK /\ DemosTypeOK /\ ImportsTypeOK
      => CatalogueTypeOK
  BY DEF CatalogueTypeOK
<1> QED BY <1>1, CatalogueAlone, ContractsTyped, OfferingsTyped, HistoryTyped, ProjectsTyped,
           DemosTyped, ImportsTyped, PTL
=============================================================================
