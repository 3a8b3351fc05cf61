------------------------------ MODULE Learning ------------------------------
(***************************************************************************)
(* A course and the enrolments of its learners.                            *)
(*                                                                         *)
(* A learner has several tabs open.  A request reads the enrolment and the *)
(* course together, works out what becomes of the row, and its commit      *)
(* writes the columns it changed; no row is locked before.  An admin may   *)
(* edit or withdraw the course at any time.                                *)
(*                                                                         *)
(* The count of attempts is left out: nothing reads it.                    *)
(***************************************************************************)
EXTENDS Rows, Naturals

CONSTANTS
    Lesson,    \* lessons that a course may have
    Quiz,      \* the placeholder of the quiz among the modules
    Learner,   \* partners
    Tab,       \* requests of learners
    TopScore,  \* scores are 0 .. TopScore; a pass mark of 0 counts as 70%
    Syllabus   \* what admins may make of the course

Module == Lesson \cup {Quiz}
Content == [modules : SUBSET Module, assessed : BOOLEAN, pass : 1 .. TopScore]

ASSUME LearningAssumption ==
    /\ Quiz \notin Lesson /\ None \notin 0 .. TopScore
    /\ TopScore \in Nat \ {0} /\ Syllabus \subseteq Content

VARIABLES
    course,   \* the content of the course
    listed,   \* whether it is a draft, published or deleted
    enrol,    \* the enrolment of each learner
    tab,      \* the request under way in each tab
    basis,    \* the course on which each enrolment was completed
    issued,   \* how many certificates were issued to each learner
    raced     \* a request wrote over a row that had changed since it read it

learningVars == <<course, listed, enrol, tab, basis, issued, raced>>

Enrolment == [status : {"none", "enrolled", "in_progress", "completed"},
              done : SUBSET Module, score : 0 .. TopScore \cup {None},
              certificate : BOOLEAN]

NotEnrolled == [status |-> "none", done |-> {}, score |-> None,
                certificate |-> FALSE]
NoRequest == [learner |-> None, seen |-> NotEnrolled, new |-> NotEnrolled,
              course |-> None]

-----------------------------------------------------------------------------
(* _completion_requirements_met: every lesson done, and the quiz passed if *)
(* there are questions.  The placeholder itself is never required.         *)
Met(c, row) ==
    /\ c.modules \ {Quiz} \subseteq row.done
    /\ c.assessed => row.score # None /\ row.score >= c.pass

(* _complete and _auto_issue_certificate *)
Completed(row) == [row EXCEPT !.status = "completed", !.certificate = TRUE]

(* What both kinds of progress end with. *)
Advanced(c, row) ==
    IF row.status = "completed" THEN row
    ELSE IF Met(c, row) THEN Completed(row)
    ELSE [row EXCEPT !.status = "in_progress"]

Ticked(c, row, lesson) == Advanced(c, [row EXCEPT !.done = @ \cup {lesson}])

MutantSat(c, row, score) ==
    Advanced(c, [row EXCEPT
        !.score = score,
        !.done = IF score >= c.pass THEN @ \cup (c.modules \cap {Quiz}) ELSE @])

(* The best attempt is kept; passing ticks the placeholder off. *)
Sat(c, row, score) ==
    Advanced(c, [row EXCEPT
        !.score = IF @ = None \/ score > @ THEN score ELSE @,
        !.done = IF score >= c.pass THEN @ \cup (c.modules \cap {Quiz}) ELSE @])

-----------------------------------------------------------------------------
Completes(seen, new) == seen.status # "completed" /\ new.status = "completed"

(* _own_enrollment and _ensure_course_open, in every request on progress.  *)
BeginTab(t, u, new) ==
    /\ tab[t] = NoRequest
    /\ enrol[u].status # "none" /\ listed = "published"
    /\ tab' = [tab EXCEPT ![t] = [learner |-> u, seen |-> enrol[u],
                                  new |-> new,
                                  course |-> IF Completes(enrol[u], new)
                                             THEN course ELSE None]]
    /\ UNCHANGED <<course, listed, enrol, basis, issued, raced>>

(* update_enrollment: the status moves freely until it is completed.       *)
Restate(t, u, status) ==
    /\ enrol[u].status # "completed"
    /\ BeginTab(t, u, [enrol[u] EXCEPT !.status = status])

AskToComplete(t, u) ==
    /\ enrol[u].status # "completed" /\ Met(course, enrol[u])
    /\ BeginTab(t, u, Completed(enrol[u]))

(* update_module_progress *)
TickLesson(t, u, lesson) ==
    /\ lesson \in course.modules \ {Quiz}
    /\ BeginTab(t, u, Ticked(course, enrol[u], lesson))

(* submit_assessment, before or after completion *)
SitQuiz(t, u, score) ==
    /\ course.assessed
    /\ BeginTab(t, u, Sat(course, enrol[u], score))

CommitTab(t) ==
    LET u == tab[t].learner
        r == tab[t]
        completes == Completes(r.seen, r.new)
    IN  /\ r # NoRequest
        /\ enrol' = [enrol EXCEPT ![u] = Overlay(@, r.seen, r.new)]
        /\ basis' = [basis EXCEPT ![u] = IF completes THEN r.course ELSE @]
        /\ issued' = [issued EXCEPT
                ![u] = IF completes /\ ~r.seen.certificate THEN @ + 1 ELSE @]
        /\ raced' = (raced \/ enrol[u] # r.seen)
        /\ tab' = [tab EXCEPT ![t] = NoRequest]
        /\ UNCHANGED <<course, listed>>

(* enroll_in_course; the row is unique. *)
Enrol(u) ==
    /\ listed = "published" /\ enrol[u].status = "none"
    /\ enrol' = [enrol EXCEPT ![u].status = "enrolled"]
    /\ UNCHANGED <<course, listed, tab, basis, issued, raced>>

(* update_course and delete_course: enrolments are not looked at. *)
EditCourse(content, state) ==
    /\ listed # "deleted" /\ <<content, state>> # <<course, listed>>
    /\ course' = content /\ listed' = state
    /\ UNCHANGED <<enrol, tab, basis, issued, raced>>

-----------------------------------------------------------------------------
(* create_course *)
LearningInit ==
    /\ course \in Syllabus /\ listed = "draft"
    /\ enrol = [u \in Learner |-> NotEnrolled]
    /\ tab = [t \in Tab |-> NoRequest]
    /\ basis = [u \in Learner |-> None]
    /\ issued = [u \in Learner |-> 0]
    /\ raced = FALSE

Study(t, u) ==
    \/ \E s \in {"enrolled", "in_progress"} : Restate(t, u, s)
    \/ AskToComplete(t, u)
    \/ \E l \in Lesson : TickLesson(t, u, l)
    \/ \E s \in 0 .. TopScore : SitQuiz(t, u, s)

LearningNext ==
    \/ \E u \in Learner : Enrol(u) \/ \E t \in Tab : Study(t, u)
    \/ \E t \in Tab : CommitTab(t)
    \/ \E c \in Syllabus : \/ \E s \in {"draft", "published"} : EditCourse(c, s)
                          \/ EditCourse(course, "deleted")

LearningSpec == LearningInit /\ [][LearningNext]_learningVars

-----------------------------------------------------------------------------
LearningTypeOK ==
    /\ course \in Content /\ listed \in {"draft", "published", "deleted"}
    /\ enrol \in [Learner -> Enrolment]
    /\ tab \in [Tab -> {NoRequest} \cup
                 [learner : Learner, seen : Enrolment, new : Enrolment,
                  course : Content \cup {None}]]
    /\ basis \in [Learner -> Content \cup {None}]
    /\ issued \in [Learner -> Nat] /\ raced \in BOOLEAN

(* A completed enrolment has one certificate and still shows the work it   *)
(* was granted on, a lesson at a time and a pass, whatever edits of the    *)
(* course, practice attempts and requests to move it back followed; a      *)
(* certificate is of a completed enrolment.  Two requests of one learner   *)
(* that cross can break it: one that failed the quiz writes "in_progress"  *)
(* over a completion it did not see.                                       *)
CompletionStands ==
    raced \/
    \A u \in Learner :
        /\ enrol[u].certificate <=> enrol[u].status = "completed"
        /\ enrol[u].certificate => issued[u] = 1 /\ Met(basis[u], enrol[u])
        /\ ~enrol[u].certificate => issued[u] = 0
=============================================================================
