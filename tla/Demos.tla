-------------------------------- MODULE Demos --------------------------------
(***************************************************************************)
(* The demos of vendors and their review: a demo goes through stages, a    *)
(* review form of the library is attached to it, and while the session is  *)
(* open each reviewer answers the form and is scored.  Stages, forms and   *)
(* reviews are all notes: JSON appended to a table and read back by age.   *)
(*                                                                         *)
(* The numbers of a form (weights, scales, answers) are in hundredths.     *)
(* The order of creation is the order of a sequence.  Titles, comments,    *)
(* layout and the notes of version 1, which nothing writes any more, are   *)
(* left out.                                                               *)
(***************************************************************************)
EXTENDS Catalogue, SequencesExt

CONSTANTS DemoRowIds, Reviewers,
          ActorRef,     \* the reference a row carries for a login
          FormKeys,
          FormInputs,   \* the questions a form may be saved with
          AnswerInputs, \* the answers a reviewer may give to a question
          StageInputs, OutcomeInputs,
          MaxVersions, MaxReviews  \* bounds on the notes

DEMO_CLOSED_OUTCOMES == {"selected", "not_selected"}
DEMO_SELECTION_OUTCOMES == DEMO_CLOSED_OUTCOMES \cup {"deferred"}
DEMO_STAGE_ORDER == <<"intake", "scheduled", "in_progress", "scoring", "decision", "closed">>
NoStage == "no stage"
NoForm == <<>>
NoScore == [overall |-> -1, answered |-> FALSE]   \* nothing submitted

SCORE_SCALE == {"scale", "star_rating"}
SCORE_OPTION == {"boolean", "multi_choice", "likert_scale", "dropdown_select"}
NON_SCORED == {"short_text", "long_text", "section_header"}
QuestionInputs == [type : SCORE_SCALE \cup SCORE_OPTION \cup NON_SCORED, weight : Int,
                   required : BOOLEAN, multiple : BOOLEAN, min : Int, max : Int, step : Int,
                   options : Seq(Int)]

\* No two reviewers have the same reference.
ASSUME DemosAssumption ==
    /\ DOMAIN ActorRef = Reviewers /\ IsInjective(ActorRef)
    /\ \A input \in FormInputs : input \in Seq(QuestionInputs)
    /\ AnswerInputs \subseteq Seq(Int)
    /\ OutcomeInputs \subseteq DEMO_SELECTION_OUTCOMES

VARIABLES
    vendorDemos, \* core_vendor_demo
    stages,      \* the newest stage note of a demo
    library,     \* the versions of a form, oldest first, [status, questions]
    attached,    \* the questions of the form attached last
    reviews,     \* the submissions of a demo, oldest first, [by, text]
    lastScores   \* what a reviewer submitted last and was told

demoVars == <<vendorDemos, stages, library, attached, reviews, lastScores>>

DemosInit ==
    /\ vendorDemos = [d \in DemoRowIds |-> NoRow]
    /\ stages = [d \in DemoRowIds |-> NoStage]
    /\ library = [k \in FormKeys |-> <<>>]
    /\ attached = [d \in DemoRowIds |-> NoForm]
    /\ reviews = [d \in DemoRowIds |-> <<>>]
    /\ lastScores = [d \in DemoRowIds |-> [u \in Reviewers |-> NoScore]]

VendorDemoRows == [vendor : Vendors, offering : Offerings \cup {NoOffering},
                   outcome : DEMO_SELECTION_OUTCOMES]

DemosTypeOK ==
    /\ vendorDemos \in [DemoRowIds -> VendorDemoRows \cup {NoRow}]
    /\ stages \in [DemoRowIds -> Range(DEMO_STAGE_ORDER) \cup {NoStage}]
    /\ DOMAIN library = FormKeys
    /\ \A k \in FormKeys : \A i \in DOMAIN library[k] :
         library[k][i].status \in {"active", "deleted"} /\ library[k][i].questions # NoForm
    /\ \A d \in DemoRowIds : \A i \in DOMAIN reviews[d] :
         reviews[d][i].by \in Range(ActorRef) /\ reviews[d][i].text.overall \in Int

-----------------------------------------------------------------------------
(* The questions of a form.                                                *)

_safe_float(x, lo, hi) == Max({lo, Min({x, hi})})

_default_options_for_question_type(type) ==
    CASE type = "boolean"         -> <<100, 0>>
      [] type = "multi_choice"    -> <<100, 50, 0>>
      [] type = "likert_scale"    -> <<100, 200, 300, 400, 500>>
      [] type = "dropdown_select" -> <<100, 0>>

Accepted(q) ==
    /\ q.type \in SCORE_SCALE => _safe_float(q.max, 1, 100000) > _safe_float(q.min, 0, 100000)
    /\ q.type \in SCORE_OPTION \ {"boolean"} /\ q.options # <<>> => Len(q.options) > 1

ParsedQuestion(q) ==
    LET star == q.type = "star_rating"
    IN [type |-> q.type,
        weight |-> _safe_float(q.weight, 1, 10000),
        required |-> q.required /\ q.type # "section_header",
        multiple |-> q.multiple /\ q.type = "multi_choice",
        min |-> IF star THEN 100 ELSE _safe_float(q.min, 0, 100000),
        max |-> IF star THEN 500 ELSE _safe_float(q.max, 1, 100000),
        step |-> IF star THEN 100 ELSE _safe_float(q.step, 1, 10000),
        options |-> IF q.type \notin SCORE_OPTION THEN <<>>
                    ELSE IF q.options = <<>> THEN _default_options_for_question_type(q.type)
                    ELSE [i \in DOMAIN q.options |-> _safe_float(q.options[i], 0, 10000)]]

\* The empty sequence stands for the refusal of the form.
parse_template_questions_from_form(input) ==
    IF \A i \in DOMAIN input : Accepted(input[i])
    THEN [i \in DOMAIN input |-> ParsedQuestion(input[i])] ELSE NoForm

BadTemplate(questions) ==                   \* no option is taken to weigh more than one
    [i \in DOMAIN questions |-> [q |-> questions[i], top |-> 100]]
\* Read back, the greatest weight of the options counts for full marks.
_parse_template_v2(questions) ==
    [i \in DOMAIN questions |->
        [q |-> questions[i],
         top |-> IF questions[i].type \in SCORE_OPTION
                 THEN Max(Range(questions[i].options) \cup {1})
                 ELSE IF questions[i].type \in SCORE_SCALE THEN 100 ELSE 0]]

parse_template_note(d) == _parse_template_v2(attached[d])

-----------------------------------------------------------------------------
(* Answers and their score, of ten in hundredths.                          *)

\* round(a / b) of Python: halves go to the even neighbour.
Round(a, b) == LET q == a \div b  r == 2 * (a % b)
               IN IF r < b \/ (r = b /\ q % 2 = 0) THEN q ELSE q + 1

\* The answer moves to the nearest step of the scale.
OnScale(q, x) == Round(x - q.min, q.step) * q.step + q.min

Chosen(q, answer) == IF q.multiple THEN answer ELSE <<answer[1]>>
WeightsOf(q, answer) == [i \in DOMAIN Chosen(q, answer) |-> q.options[answer[i]]]

\* sum(): the total after n terms.
SumOf(terms) ==
    LET sum[n \in 0 .. Len(terms)] == IF n = 0 THEN 0 ELSE sum[n - 1] + terms[n]
    IN sum[Len(terms)]

AnswerOK(q, answer) ==
    \/ answer = <<>> /\ ~q.required
    \/ q.type = "section_header"
    \/ /\ answer # <<>>
       /\ q.type \in SCORE_SCALE => OnScale(q, answer[1]) \in q.min .. q.max
       /\ q.type \in SCORE_OPTION => Range(Chosen(q, answer)) \subseteq DOMAIN q.options

\* The part of the full marks an answer earns, in hundredths, times its weight.
Weighted(t, answer) ==
    LET q == t.q
    IN IF answer = <<>> \/ q.type \notin SCORE_SCALE \cup SCORE_OPTION THEN [is |-> 0, of |-> 0]
       ELSE [is |-> q.weight * IF q.type \in SCORE_SCALE
                               THEN (100 * (OnScale(q, answer[1]) - q.min)) \div (q.max - q.min)
                               ELSE SumOf(WeightsOf(q, answer)) \div Len(Chosen(q, answer)),
             of |-> q.weight * t.top]

\* The score, and whether any answer is recorded: an optional question may
\* be left out.
build_submission_from_form(template, answers) ==
    LET part == [i \in DOMAIN template |-> Weighted(template[i], answers[i])]
        is == SumOf([i \in DOMAIN template |-> part[i].is])
        of == SumOf([i \in DOMAIN template |-> part[i].of])
    IN [overall |-> IF of = 0 THEN 0 ELSE Round(1000 * is, of),
        answered |-> \E i \in DOMAIN template :
                        answers[i] # <<>> /\ template[i].q.type # "section_header"]

-----------------------------------------------------------------------------
(* What the pages read.                                                    *)

get_vendor_demos(v) == {d \in Present(vendorDemos) : vendorDemos[d].vendor = v}

build_stage_history(d) ==
    IF vendorDemos[d].outcome \in DEMO_CLOSED_OUTCOMES THEN "closed"
    ELSE IF stages[d] = NoStage THEN "scheduled" ELSE stages[d]

\* When the notes cannot be read the stage is not known to be closed.
is_demo_session_open(d) ==
    /\ vendorDemos[d].outcome \notin DEMO_CLOSED_OUTCOMES
    /\ Faults \/ build_stage_history(d) # "closed"

\* A submission without answers is not one.
parse_submission_note(d) == {i \in DOMAIN reviews[d] : reviews[d][i].text.answered}

BadSummary(d) ==                            \* the oldest submission of each reviewer
    {i \in parse_submission_note(d) :
        \A j \in parse_submission_note(d) : j < i => reviews[d][j].by # reviews[d][i].by}
\* The newest submission of each reviewer, by its place.
build_review_summary(d) ==
    {i \in parse_submission_note(d) :
        \A j \in parse_submission_note(d) : j > i => reviews[d][j].by # reviews[d][i].by}

list_demo_notes_by_demo_and_creator(d, who) ==
    {i \in DOMAIN reviews[d] : reviews[d][i].by = who}

-----------------------------------------------------------------------------
(* Demos and their stages.                                                 *)

\* The first stage note is tried, its failure swallowed.
create_demo(p, v, o, outcome) ==
    /\ MayWrite(p, "demo_create")
    /\ can_apply_change(p, "create_demo_outcome")
    /\ \E d \in Unused(vendorDemos) :
         /\ vendorDemos' = [vendorDemos EXCEPT ![d] =
                               [vendor |-> v, offering |-> o, outcome |-> outcome]]
         /\ \/ stages' = [stages EXCEPT ![d] = "scheduled"]
            \/ Faults /\ UNCHANGED stages
    /\ UNCHANGED <<library, attached, reviews, lastScores>>

update_demo_stage(p, d, stage) ==
    /\ MayWrite(p, "demo_stage")
    /\ stage \in Range(DEMO_STAGE_ORDER)
    /\ d \in Present(vendorDemos)
    /\ stages' = [stages EXCEPT ![d] = stage]
    /\ UNCHANGED <<vendorDemos, library, attached, reviews, lastScores>>

DemosBecome(rows) ==
    vendorDemos' = rows /\ UNCHANGED <<stages, library, attached, reviews, lastScores>>

map_demo_to_offering(D, o) ==
    DemosBecome([d \in DemoRowIds |->
        IF d \in D THEN [vendorDemos[d] EXCEPT !.offering = o] ELSE vendorDemos[d]])

map_demo_submit(p, v, d, o) ==
    /\ MayWrite(p, "vendor_demo_map")
    /\ d \in get_vendor_demos(v)
    /\ Mappable(v, o)
    /\ can_apply_change(p, "map_demo_to_offering")
    /\ map_demo_to_offering({d}, o)

\* Those not there yet, one by one, until one fails.
bulk_map_demos_to_offering(D, o) ==
    \E done \in SUBSET {d \in D : vendorDemos[d].offering # o} :
        /\ Faults \/ \A d \in D \ done : vendorDemos[d].offering = o
        /\ map_demo_to_offering(done, o)

map_demos_bulk_submit(p, v, D, o) ==
    /\ MayWrite(p, "vendor_demo_map_bulk")
    /\ D # {} /\ D \subseteq get_vendor_demos(v)
    /\ offering_belongs_to_vendor(v, o)
    /\ can_apply_change(p, "map_demo_to_offering")
    /\ bulk_map_demos_to_offering(D, o)

-----------------------------------------------------------------------------
(* The library of forms: every change appends a version.                   *)

TemplateNote(status, questions, number) ==
    [status |-> status, questions |-> questions, number |-> number]

\* The version shown is the one with the greatest number, the newest of them.
build_template_library_index(k) ==
    library[k][CHOOSE i \in DOMAIN library[k] :
        \A j \in DOMAIN library[k] : \/ library[k][j].number < library[k][i].number
                                    \/ (library[k][j].number = library[k][i].number /\ j <= i)]

Listed == {k \in FormKeys : library[k] # <<>>}

\* Deleted versions count too; when they cannot be read it is the first.
_next_template_version(k) ==
    {IF k \in Listed THEN build_template_library_index(k).number + 1 ELSE 1}
        \cup IF Faults THEN {1} ELSE {}

create_app_note(k, version) ==
    /\ Cardinality(UNION {{key} \X DOMAIN library[key] : key \in FormKeys}) < MaxVersions
    /\ library' = [library EXCEPT ![k] = Append(@, version)]

save_demo_form_template(p, k, input) ==
    LET questions == parse_template_questions_from_form(input)
    IN /\ MayWrite(p, "demo_form_save")
       /\ questions # NoForm
       /\ \E number \in _next_template_version(k) :
             create_app_note(k, TemplateNote("active", questions, number))
       /\ UNCHANGED <<vendorDemos, stages, attached, reviews, lastScores>>

\* Under a new key, whether or not the form was deleted.
copy_demo_form_template(p, k) ==
    /\ MayWrite(p, "demo_form_copy")
    /\ k \in Listed
    /\ \E new \in FormKeys \ Listed :
         create_app_note(new, TemplateNote("active", build_template_library_index(k).questions, 1))
    /\ UNCHANGED <<vendorDemos, stages, attached, reviews, lastScores>>

delete_demo_form_template(p, k) ==
    LET latest == build_template_library_index(k)
    IN /\ MayWrite(p, "demo_form_delete")
       /\ k \in Listed
       /\ latest.status # "deleted"
       /\ create_app_note(k, TemplateNote("deleted", latest.questions, latest.number + 1))
       /\ UNCHANGED <<vendorDemos, stages, attached, reviews, lastScores>>

\* Saved from the page of a demo, and attached to it at once if asked to.
save_demo_review_template(p, d, k, input, attach_now) ==
    LET questions == parse_template_questions_from_form(input)
    IN /\ MayWrite(p, "demo_review_form_template")
       /\ d \in Present(vendorDemos)
       /\ questions # NoForm
       /\ \E number \in _next_template_version(k) :
             create_app_note(k, TemplateNote("active", questions, number))
       /\ \/ attach_now /\ attached' = [attached EXCEPT ![d] = questions]
          \/ (~attach_now \/ Faults) /\ UNCHANGED attached
       /\ UNCHANGED <<vendorDemos, stages, reviews, lastScores>>

\* Any version, by its identifier: also an old one, also of a deleted form.
attach_demo_review_template(p, d, k, i) ==
    /\ MayWrite(p, "demo_review_form_attach")
    /\ d \in Present(vendorDemos)
    /\ i \in DOMAIN library[k]
    /\ attached' = [attached EXCEPT ![d] = library[k][i].questions]
    /\ UNCHANGED <<vendorDemos, stages, library, reviews, lastScores>>

-----------------------------------------------------------------------------
(* Reviews.                                                                *)

create_demo_note(d, u, text) ==
    /\ Len(reviews[d]) < MaxReviews
    /\ reviews' = [reviews EXCEPT ![d] = Append(@, [by |-> ActorRef[u], text |-> text])]

\* Only the text changes, and only for the one who wrote it.
update_demo_note_text(d, i, u, text) ==
    /\ reviews[d][i].by = ActorRef[u]
    /\ reviews' = [reviews EXCEPT ![d][i].text = text]

\* The submission there is is looked for under the login of the user.
submit_demo_review_form(p, u, d, answers) ==
    LET template == parse_template_note(d)
        text == build_submission_from_form(template, answers)
    IN /\ require_permission(p, "demo_review_form_submit") /\ ~LockedMode
       /\ d \in Present(vendorDemos)
       /\ is_demo_session_open(d)
       /\ template # <<>>
       /\ \A i \in DOMAIN template : AnswerOK(template[i].q, answers[i])
       /\ \E existing \in {list_demo_notes_by_demo_and_creator(d, u)} \cup IF Faults THEN {{}} ELSE {} :
            IF existing = {} THEN create_demo_note(d, u, text)
            ELSE update_demo_note_text(d, Max(existing), u, text)
       /\ lastScores' = [lastScores EXCEPT ![d][u] = text]
       /\ UNCHANGED <<vendorDemos, stages, library, attached>>

-----------------------------------------------------------------------------
DemosNext ==
    \E p \in Policies :
        \/ \E v \in Vendors, o \in Offerings \cup {NoOffering} :
             \/ \E outcome \in OutcomeInputs : create_demo(p, v, o, outcome)
             \/ \E d \in DemoRowIds : map_demo_submit(p, v, d, o)
        \/ \E v \in Vendors, o \in Offerings, D \in SUBSET DemoRowIds :
             map_demos_bulk_submit(p, v, D, o)
        \/ \E d \in DemoRowIds, stage \in StageInputs : update_demo_stage(p, d, stage)
        \/ \E k \in FormKeys :
             \/ \E input \in FormInputs :
                  \/ save_demo_form_template(p, k, input)
                  \/ \E d \in DemoRowIds, attach_now \in BOOLEAN :
                       save_demo_review_template(p, d, k, input, attach_now)
             \/ copy_demo_form_template(p, k)
             \/ delete_demo_form_template(p, k)
             \/ \E d \in DemoRowIds, i \in 1 .. MaxVersions :
                  attach_demo_review_template(p, d, k, i)
        \/ \E u \in Reviewers, d \in DemoRowIds :
             \E answers \in [DOMAIN attached[d] -> AnswerInputs] :
                submit_demo_review_form(p, u, d, answers)

DemosSpec == DemosInit /\ [][DemosNext]_demoVars

-----------------------------------------------------------------------------
(* Properties.                                                             *)

(* The summary of a demo counts a reviewer once, with the score he was     *)
(* told last, although a submission may add a note or change one and a     *)
(* form may be replaced between two of them, unless he recorded no answer  *)
(* the last time: that is told a score but not counted, and an earlier     *)
(* submission may count in its place.  Nobody else is counted.  And no     *)
(* score is below zero or above ten, whatever weights the options of the   *)
(* forms have, wherever the steps of a scale lead and however many options *)
(* are chosen.                                                             *)
SummaryIsLatest ==
    \A d \in DemoRowIds :
        /\ \A u \in Reviewers :
             LET his == {i \in build_review_summary(d) : reviews[d][i].by = ActorRef[u]}
             IN /\ lastScores[d][u] = NoScore => his = {}
                /\ lastScores[d][u].answered =>
                      his # {} /\ \A i \in his : reviews[d][i].text = lastScores[d][u]
                /\ \A i, j \in his : i = j
        /\ \A r \in Range(reviews[d]) : r.by \in Range(ActorRef) /\ r.text.overall \in 0 .. 1000
=============================================================================
