--------------------------- MODULE RecordsProofs ----------------------------
(***************************************************************************)
(* Proofs about courses and their certificates, and about uploaded files and *)
(* the rows that name them, for any number of each and of requests.  The two *)
(* parts share no state.                                                   *)
(***************************************************************************)
EXTENDS Learning, Library, FiniteSetTheorems, TLAPS

-----------------------------------------------------------------------------
(* Courses: a certificate stands on work that was done, for any course, any *)
(* edits of it, any scores and any number of learners and of tabs, as long as *)
(* no tab writes over a row that has changed.                              *)
(*                                                                         *)
(* CompletionStands says what is in the rows; it is inductive with what    *)
(* every request under way will make of the row it read.                   *)

(* A certificate is of a completed enrolment. *)
Certified(row) == row.certificate <=> row.status = "completed"

(* Nothing that was done is undone, and the best score is kept. *)
Extends(old, new) ==
    /\ old.done \subseteq new.done
    /\ old.score # None => new.score # None /\ old.score <= new.score

(* What a request makes of the row it read: a completion stays and loses   *)
(* no work, and a new one meets the course as it was read.                 *)
Progress(r) ==
    /\ Certified(r.seen) /\ Certified(r.new)
    /\ r.seen.status = "completed" => /\ r.new.status = "completed"
                                      /\ Extends(r.seen, r.new)
    /\ Completes(r.seen, r.new) => r.course \in Content /\ Met(r.course, r.new)

(* What the row of a learner says of the certificate. *)
Earned(u, row) ==
    /\ Certified(row)
    /\ row.certificate => /\ issued[u] = 1 /\ basis[u] \in Content
                          /\ Met(basis[u], row)
    /\ ~row.certificate => issued[u] = 0

LInv ==
    /\ LearningTypeOK
    /\ raced \/ /\ \A u \in Learner : Earned(u, enrol[u])
                /\ \A t \in Tab : tab[t] # NoRequest => Progress(tab[t])

-----------------------------------------------------------------------------
(* Operators. *)

LEMMA OverlayOfEnrolments ==
    ASSUME NEW now \in Enrolment, NEW seen \in Enrolment, NEW new \in Enrolment
    PROVE  /\ Overlay(now, seen, new) \in Enrolment
           /\ now = seen => Overlay(now, seen, new) = new
  <1>1. DOMAIN now = {"status", "done", "score", "certificate"}
    BY DEF Enrolment
  <1> DEFINE f == Overlay(now, seen, new)
  <1>2. f = [status |-> f.status, done |-> f.done, score |-> f.score,
             certificate |-> f.certificate]
    BY <1>1 DEF Overlay
  <1>3. /\ f.status \in {now.status, new.status} /\ f.done \in {now.done, new.done}
        /\ f.score \in {now.score, new.score}
        /\ f.certificate \in {now.certificate, new.certificate}
    BY <1>1 DEF Overlay
  <1>4. now = seen => /\ f.status = new.status /\ f.done = new.done
                      /\ f.score = new.score /\ f.certificate = new.certificate
    BY <1>1 DEF Overlay
  <1>5. f \in Enrolment
    <2>1. /\ f.status \in {"none", "enrolled", "in_progress", "completed"}
          /\ f.done \in SUBSET Module /\ f.score \in 0 .. TopScore \cup {None}
          /\ f.certificate \in BOOLEAN
      BY <1>3 DEF Enrolment
    <2> QED
      BY <1>2, <2>1 DEF Enrolment
  <1>6. now = seen => f = new
    BY <1>2, <1>4 DEF Enrolment
  <1> QED
    BY <1>5, <1>6

(* What every request on progress makes of a row. *)
Moves(c, row, new) ==
    /\ new \in Enrolment /\ (Certified(row) => Certified(new))
    /\ Extends(row, new)
    /\ row.status = "completed" => new.status = "completed"
    /\ Completes(row, new) => Met(c, new)

(* More work, and a better score, still meet the course. *)
LEMMA MetIsMonotone ==
    ASSUME NEW c \in Content, NEW old \in Enrolment, NEW new \in Enrolment,
           Met(c, old), Extends(old, new)
    PROVE  Met(c, new)
  <1>1. c.pass \in Nat
    BY LearningAssumption DEF Content
  <1>2. /\ old.score = None \/ old.score \in 0 .. TopScore
        /\ new.score = None \/ new.score \in 0 .. TopScore
    BY DEF Enrolment
  <1>3. c.modules \ {Quiz} \subseteq new.done
    BY DEF Met, Extends
  <1>4. ASSUME c.assessed PROVE new.score # None /\ new.score >= c.pass
    BY <1>1, <1>2, <1>4, LearningAssumption DEF Met, Extends
  <1> QED
    BY <1>3, <1>4 DEF Met

LEMMA CompletedIsComplete ==
    ASSUME NEW row \in Enrolment
    PROVE  LET new == Completed(row) IN
           /\ new \in Enrolment /\ Certified(new) /\ new.status = "completed"
           /\ new.done = row.done /\ new.score = row.score
  BY DEF Completed, Enrolment, Certified

LEMMA AdvancedProgress ==
    ASSUME NEW c \in Content, NEW row \in Enrolment
    PROVE  LET new == Advanced(c, row) IN
           /\ new \in Enrolment /\ (Certified(row) => Certified(new))
           /\ new.done = row.done /\ new.score = row.score
           /\ row.status = "completed" => new.status = "completed"
           /\ Completes(row, new) => Met(c, new)
  <1> DEFINE new == Advanced(c, row)
  <1>1. CASE row.status = "completed"
    BY <1>1 DEF Advanced, Completes
  <1>2. CASE row.status # "completed" /\ Met(c, row)
    BY <1>2, CompletedIsComplete DEF Advanced, Met
  <1>3. CASE row.status # "completed" /\ ~Met(c, row)
    <2>1. new = [row EXCEPT !.status = "in_progress"]
      BY <1>3 DEF Advanced
    <2>2. /\ new \in Enrolment /\ new.status = "in_progress" /\ new.done = row.done
          /\ new.score = row.score /\ new.certificate = row.certificate
      BY <2>1 DEF Enrolment
    <2> QED
      BY <1>3, <2>2 DEF Certified, Completes
  <1> QED
    BY <1>1, <1>2, <1>3

(* The same, of a row to which work was added first. *)
LEMMA AddedProgress ==
    ASSUME NEW c \in Content, NEW row \in Enrolment, NEW mid \in Enrolment,
           mid.status = row.status, mid.certificate = row.certificate,
           Extends(row, mid)
    PROVE  Moves(c, row, Advanced(c, mid))
  <1> DEFINE new == Advanced(c, mid)
  <1>1. /\ new \in Enrolment /\ (Certified(mid) => Certified(new))
        /\ new.done = mid.done /\ new.score = mid.score
        /\ mid.status = "completed" => new.status = "completed"
        /\ Completes(mid, new) => Met(c, new)
    BY AdvancedProgress
  <1>2. (Certified(row) => Certified(mid)) /\ (Completes(row, new) => Completes(mid, new))
    BY DEF Certified, Completes
  <1>3. Extends(row, new)
    BY <1>1 DEF Extends
  <1> QED
    BY <1>1, <1>2, <1>3 DEF Moves

LEMMA TickedProgress ==
    ASSUME NEW c \in Content, NEW row \in Enrolment,
           NEW lesson \in Module
    PROVE  Moves(c, row, Ticked(c, row, lesson))
  <1> DEFINE mid == [row EXCEPT !.done = @ \cup {lesson}]
  <1>1. /\ mid \in Enrolment /\ mid.status = row.status
        /\ mid.certificate = row.certificate /\ mid.score = row.score
        /\ mid.done = row.done \cup {lesson}
    BY DEF Enrolment
  <1>2. row.score = None \/ row.score \in 0 .. TopScore
    BY DEF Enrolment
  <1>3. Extends(row, mid)
    BY <1>1, <1>2, LearningAssumption DEF Extends
  <1>4. Ticked(c, row, lesson) = Advanced(c, mid)
    BY DEF Ticked
  <1> HIDE DEF mid
  <1> QED
    BY <1>1, <1>3, <1>4, AddedProgress

LEMMA SatProgress ==
    ASSUME NEW c \in Content, NEW row \in Enrolment,
           NEW score \in 0 .. TopScore
    PROVE  Moves(c, row, Sat(c, row, score))
  <1> DEFINE best == IF row.score = None \/ score > row.score THEN score ELSE row.score
             done == IF score >= c.pass THEN row.done \cup (c.modules \cap {Quiz})
                                        ELSE row.done
             mid == [row EXCEPT !.score = best, !.done = done]
  <1>1. /\ row.score = None \/ row.score \in 0 .. TopScore
        /\ row.done \in SUBSET Module /\ c.modules \in SUBSET Module
    BY DEF Enrolment, Content
  <1>2. /\ best \in 0 .. TopScore /\ done \in SUBSET Module
        /\ row.done \subseteq done /\ (row.score # None => row.score <= best)
    BY <1>1, LearningAssumption
  <1>3. /\ mid \in Enrolment /\ mid.status = row.status
        /\ mid.certificate = row.certificate /\ mid.score = best
        /\ mid.done = done
    BY <1>2 DEF Enrolment
  <1>4. best # None
    BY <1>2, LearningAssumption
  <1>5. Sat(c, row, score) = Advanced(c, mid)
    BY DEF Sat
  <1>6. Extends(row, mid)
    BY <1>2, <1>3, <1>4 DEF Extends
  <1> HIDE DEF mid
  <1> QED
    BY <1>3, <1>5, <1>6, AddedProgress

-----------------------------------------------------------------------------
LEMMA LearningInitLInv == LearningInit => LInv
  <1> SUFFICES ASSUME LearningInit PROVE LInv
    OBVIOUS
  <1>1. /\ course \in Syllabus /\ listed = "draft" /\ raced = FALSE
        /\ enrol = [u \in Learner |-> NotEnrolled]
        /\ tab = [t \in Tab |-> NoRequest] /\ basis = [u \in Learner |-> None]
        /\ issued = [u \in Learner |-> 0]
    BY DEF LearningInit
  <1>2. NotEnrolled \in Enrolment
    BY DEF NotEnrolled, Enrolment
  <1>3. LearningTypeOK
    BY <1>1, <1>2, LearningAssumption DEF LearningTypeOK
  <1>4. \A u \in Learner : Earned(u, enrol[u])
    BY <1>1 DEF Earned, Certified, NotEnrolled
  <1> QED
    BY <1>1, <1>3, <1>4 DEF LInv

(* A request that read the row, and what it makes of it. *)
LEMMA BeginTabLInv ==
    ASSUME LInv, NEW t \in Tab, NEW u \in Learner, NEW new \in Enrolment,
           BeginTab(t, u, new),
           Certified(enrol[u]) =>
               /\ Certified(new)
               /\ enrol[u].status = "completed" => /\ new.status = "completed"
                                                   /\ Extends(enrol[u], new)
               /\ Completes(enrol[u], new) => Met(course, new)
    PROVE  LInv'
  <1> DEFINE r == [learner |-> u, seen |-> enrol[u], new |-> new,
                   course |-> IF Completes(enrol[u], new) THEN course ELSE None]
  <1>1. /\ tab' = [tab EXCEPT ![t] = r]
        /\ UNCHANGED <<course, listed, enrol, basis, issued, raced>>
    BY DEF BeginTab
  <1>2. /\ r \in [learner : Learner, seen : Enrolment, new : Enrolment,
                  course : Content \cup {None}]
        /\ course \in Content
    BY DEF LInv, LearningTypeOK
  <1>3. LearningTypeOK'
    BY <1>1, <1>2 DEF LInv, LearningTypeOK
  <1>4. ASSUME ~raced PROVE Progress(r)
    <2>1. Certified(enrol[u])
      BY <1>4 DEF LInv, Earned
    <2> QED
      BY <1>2, <2>1 DEF Progress
  <1>5. \A s \in Tab : tab'[s] = IF s = t THEN r ELSE tab[s]
    BY <1>1 DEF LInv, LearningTypeOK
  <1>6. ASSUME ~raced
        PROVE  /\ \A s \in Tab : tab'[s] # NoRequest => Progress(tab'[s])
               /\ \A v \in Learner : Earned(v, enrol[v])
    BY <1>4, <1>5, <1>6 DEF LInv
  <1>7. ASSUME ~raced PROVE \A v \in Learner : Earned(v, enrol[v])'
    BY <1>1, <1>6, <1>7 DEF Earned
  <1>8. ASSUME ~raced
        PROVE  \A s \in Tab : (tab[s] # NoRequest => Progress(tab[s]))'
    BY <1>1, <1>6, <1>8 DEF Progress
  <1> QED
    BY <1>1, <1>3, <1>7, <1>8 DEF LInv

LEMMA StudyLInv ==
    ASSUME LInv, NEW t \in Tab, NEW u \in Learner, Study(t, u) PROVE LInv'
  <1>1. enrol[u] \in Enrolment /\ course \in Content
    BY DEF LInv, LearningTypeOK
  <1>2. ASSUME NEW s \in {"enrolled", "in_progress"}, Restate(t, u, s) PROVE LInv'
    <2> DEFINE new == [enrol[u] EXCEPT !.status = s]
    <2>1. enrol[u].status # "completed" /\ BeginTab(t, u, new)
      BY <1>2 DEF Restate
    <2>2. /\ new \in Enrolment /\ new.status = s
          /\ new.certificate = enrol[u].certificate
      BY <1>1 DEF Enrolment
    <2> QED
      BY <2>1, <2>2, BeginTabLInv DEF Certified, Completes
  <1>3. CASE AskToComplete(t, u)
    <2> DEFINE new == Completed(enrol[u])
    <2>1. /\ enrol[u].status # "completed" /\ Met(course, enrol[u])
          /\ BeginTab(t, u, new)
      BY <1>3 DEF AskToComplete
    <2>2. /\ new \in Enrolment /\ Certified(new) /\ new.status = "completed"
          /\ new.done = enrol[u].done /\ new.score = enrol[u].score
      BY <1>1, CompletedIsComplete
    <2>3. Met(course, new)
      BY <2>1, <2>2 DEF Met
    <2> QED
      BY <2>1, <2>2, <2>3, BeginTabLInv
  <1>4. ASSUME NEW lesson \in Lesson, TickLesson(t, u, lesson) PROVE LInv'
    <2> DEFINE new == Ticked(course, enrol[u], lesson)
    <2>1. BeginTab(t, u, new) /\ lesson \in Module
      BY <1>4 DEF TickLesson, Module
    <2>2. Moves(course, enrol[u], new)
      BY <1>1, <2>1, TickedProgress
    <2> QED
      BY <2>1, <2>2, BeginTabLInv DEF Moves
  <1>5. ASSUME NEW s \in 0 .. TopScore, SitQuiz(t, u, s) PROVE LInv'
    <2> DEFINE new == Sat(course, enrol[u], s)
    <2>1. BeginTab(t, u, new)
      BY <1>5 DEF SitQuiz
    <2>2. Moves(course, enrol[u], new)
      BY <1>1, SatProgress
    <2> QED
      BY <2>1, <2>2, BeginTabLInv DEF Moves
  <1> QED
    BY <1>2, <1>3, <1>4, <1>5 DEF Study

(* A row that has not changed becomes what the request made of it. *)
LEMMA CommitTabLInv ==
    ASSUME LInv, NEW t \in Tab, CommitTab(t) PROVE LInv'
  <1> DEFINE r == tab[t]
             u == r.learner
             row == Overlay(enrol[u], r.seen, r.new)
             completes == Completes(r.seen, r.new)
  <1>1. /\ r # NoRequest
        /\ enrol' = [enrol EXCEPT ![u] = row]
        /\ basis' = [basis EXCEPT ![u] = IF completes THEN r.course ELSE @]
        /\ issued' = [issued EXCEPT
                ![u] = IF completes /\ ~r.seen.certificate THEN @ + 1 ELSE @]
        /\ raced' = (raced \/ enrol[u] # r.seen)
        /\ tab' = [tab EXCEPT ![t] = NoRequest]
        /\ UNCHANGED <<course, listed>>
    BY DEF CommitTab
  <1>2. /\ u \in Learner /\ r.seen \in Enrolment /\ r.new \in Enrolment
        /\ r.course \in Content \cup {None} /\ enrol[u] \in Enrolment
    BY <1>1 DEF LInv, LearningTypeOK
  <1>3. row \in Enrolment /\ (enrol[u] = r.seen => row = r.new)
    BY <1>2, OverlayOfEnrolments
  <1>4. LearningTypeOK'
    <2>1. enrol' \in [Learner -> Enrolment]
      BY <1>1, <1>2, <1>3 DEF LInv, LearningTypeOK
    <2>2. basis' \in [Learner -> Content \cup {None}]
      BY <1>1, <1>2 DEF LInv, LearningTypeOK
    <2>3. issued' \in [Learner -> Nat]
      BY <1>1, <1>2 DEF LInv, LearningTypeOK
    <2> QED
      BY <1>1, <2>1, <2>2, <2>3 DEF LInv, LearningTypeOK
  <1>5. ASSUME ~raced'
        PROVE  /\ \A v \in Learner : Earned(v, enrol[v])'
               /\ \A s \in Tab : (tab[s] # NoRequest => Progress(tab[s]))'
    <2>1. /\ ~raced /\ enrol[u] = r.seen /\ row = r.new
          /\ Earned(u, r.seen) /\ Progress(r)
      BY <1>1, <1>2, <1>3, <1>5 DEF LInv
    <2>2. /\ enrol'[u] = r.new
          /\ basis'[u] = (IF completes THEN r.course ELSE basis[u])
          /\ issued'[u] = (IF completes /\ ~r.seen.certificate THEN issued[u] + 1
                                                               ELSE issued[u])
      BY <1>1, <1>2, <2>1 DEF LInv, LearningTypeOK
    <2>3. /\ Certified(r.new)
          /\ r.new.certificate => /\ issued'[u] = 1 /\ basis'[u] \in Content
                                  /\ Met(basis'[u], r.new)
          /\ ~r.new.certificate => issued'[u] = 0
      <3>1. CASE completes
        <4>1. /\ ~r.seen.certificate /\ issued[u] = 0 /\ Certified(r.new)
              /\ r.course \in Content /\ Met(r.course, r.new)
              /\ r.new.status = "completed"
          BY <2>1, <3>1 DEF Earned, Progress, Certified, Completes
        <4> QED
          BY <2>2, <3>1, <4>1 DEF Certified
      <3>2. CASE ~completes /\ r.seen.status = "completed"
        <4>1. /\ r.seen.certificate /\ issued[u] = 1 /\ basis[u] \in Content
              /\ Met(basis[u], r.seen) /\ Extends(r.seen, r.new)
              /\ Certified(r.new) /\ r.new.status = "completed"
          BY <2>1, <3>2 DEF Earned, Progress, Certified
        <4>2. Met(basis[u], r.new)
          BY <1>2, <4>1, MetIsMonotone
        <4> QED
          BY <2>2, <3>2, <4>1, <4>2 DEF Certified
      <3>3. CASE ~completes /\ r.seen.status # "completed"
        <4>1. /\ ~r.seen.certificate /\ issued[u] = 0 /\ Certified(r.new)
              /\ r.new.status # "completed"
          BY <2>1, <3>3 DEF Earned, Progress, Certified, Completes
        <4> QED
          BY <2>2, <3>3, <4>1 DEF Certified
      <3> QED
        BY <3>1, <3>2, <3>3
    <2>4. \A v \in Learner \ {u} : /\ enrol'[v] = enrol[v] /\ basis'[v] = basis[v]
                                   /\ issued'[v] = issued[v]
      BY <1>1 DEF LInv, LearningTypeOK
    <2>5. ASSUME NEW v \in Learner PROVE Earned(v, enrol[v])'
      <3>1. CASE v = u
        BY <2>2, <2>3, <3>1 DEF Earned
      <3>2. CASE v # u
        <4>1. Earned(v, enrol[v])
          BY <2>1 DEF LInv
        <4> QED
          BY <2>4, <3>2, <4>1 DEF Earned
      <3> QED
        BY <3>1, <3>2
    <2>6. ASSUME NEW s \in Tab, tab'[s] # NoRequest PROVE Progress(tab[s])'
      <3>1. s # t /\ tab'[s] = tab[s]
        BY <1>1, <2>6 DEF LInv, LearningTypeOK
      <3>2. Progress(tab[s])
        BY <2>1, <2>6, <3>1 DEF LInv
      <3> QED
        BY <3>1, <3>2 DEF Progress
    <2> QED
      BY <2>5, <2>6
  <1> QED
    BY <1>4, <1>5 DEF LInv

LEMMA EnrolLInv ==
    ASSUME LInv, NEW u \in Learner, Enrol(u) PROVE LInv'
  <1> DEFINE row == [enrol[u] EXCEPT !.status = "enrolled"]
  <1>1. /\ enrol[u].status = "none" /\ enrol' = [enrol EXCEPT ![u] = row]
        /\ UNCHANGED <<course, listed, tab, basis, issued, raced>>
    BY DEF Enrol
  <1>2. enrol[u] \in Enrolment
    BY DEF LInv, LearningTypeOK
  <1>3. /\ row \in Enrolment /\ row.status = "enrolled"
        /\ row.certificate = enrol[u].certificate
    BY <1>2 DEF Enrolment
  <1>4. LearningTypeOK'
    BY <1>1, <1>3 DEF LInv, LearningTypeOK
  <1>5. ASSUME ~raced, NEW v \in Learner PROVE Earned(v, enrol[v])'
    <2>1. Earned(v, enrol[v]) /\ enrol'[v] = IF v = u THEN row ELSE enrol[v]
      BY <1>1, <1>5 DEF LInv, LearningTypeOK
    <2>2. Certified(enrol[u]) => ~row.certificate /\ Certified(row)
      BY <1>1, <1>3 DEF Certified
    <2> QED
      BY <1>1, <1>3, <2>1, <2>2 DEF Earned
  <1>6. ASSUME ~raced, NEW s \in Tab, tab[s] # NoRequest PROVE Progress(tab[s])'
    <2>1. Progress(tab[s])
      BY <1>6 DEF LInv
    <2> QED
      BY <1>1, <2>1 DEF Progress
  <1> QED
    BY <1>1, <1>4, <1>5, <1>6 DEF LInv

LEMMA LearningNextLInv == LInv /\ [LearningNext]_learningVars => LInv'
  <1> SUFFICES ASSUME LInv, [LearningNext]_learningVars PROVE LInv'
    OBVIOUS
  <1>1. ASSUME NEW u \in Learner, Enrol(u) \/ \E t \in Tab : Study(t, u)
        PROVE  LInv'
    BY <1>1, EnrolLInv, StudyLInv
  <1>2. ASSUME NEW t \in Tab, CommitTab(t) PROVE LInv'
    BY <1>2, CommitTabLInv
  <1>3. ASSUME NEW c \in Content, NEW s \in {"draft", "published", "deleted"},
               EditCourse(c, s)
        PROVE  LInv'
    <2>1. /\ course' = c /\ listed' = s
          /\ UNCHANGED <<enrol, tab, basis, issued, raced>>
      BY <1>3 DEF EditCourse
    <2>2. LearningTypeOK'
      BY <2>1 DEF LInv, LearningTypeOK
    <2> QED
      BY <2>1, <2>2 DEF LInv, Earned, Progress
  <1>4. CASE UNCHANGED learningVars
    BY <1>4 DEF learningVars, LInv, LearningTypeOK, Earned, Progress
  <1>5. Syllabus \subseteq Content /\ course \in Content
    BY LearningAssumption DEF LInv, LearningTypeOK
  <1> QED
    BY <1>1, <1>2, <1>3, <1>4, <1>5 DEF LearningNext

(* Every request of a learner and every edit of a course keeps the         *)
(* strengthening.                                                          *)
THEOREM LearningInductive == LearningSpec => []LInv
  <1> QED
    BY LearningInitLInv, LearningNextLInv, PTL DEF LearningSpec

-----------------------------------------------------------------------------
(* The theorems. *)

(* Courses, enrolments and requests keep their types. *)
THEOREM LearningTypeCorrect == LearningSpec => []LearningTypeOK
  <1>1. LInv => LearningTypeOK
    BY DEF LInv
  <1> QED
    BY <1>1, LearningInductive, PTL

(* Neither edits of the course, nor practice after completion, nor any     *)
(* order of a learner's requests takes back a certificate or gives one     *)
(* without the work, or a second one.                                      *)
THEOREM CertificatesAreEarned == LearningSpec => []CompletionStands
  <1>1. LInv => CompletionStands
    BY DEF LInv, CompletionStands, Earned, Certified
  <1> QED
    BY <1>1, LearningInductive, PTL

-----------------------------------------------------------------------------
(* Files and documents: no request, whatever fails and whatever crosses,   *)
(* takes a file off the disk that a committed row names.                   *)
(*                                                                         *)
(* NamedFilesExist is not inductive: a request that fails deletes its file *)
(* by name, so nobody else may have it, neither a row, nor what another    *)
(* request read and is about to write into an archive.                     *)

(* The requests that hold a row as they read it. *)
OnARow == {"fulfil", "decline", "revise", "unshelve"}

WellFormed(r) ==
    /\ r.kind \in Kinds \cup {"free"} /\ r.file \in File \cup {None}
    /\ r.kind = "attach" => r.file # None
    /\ r.kind \in {"fulfil", "decline"} => r.row \in DocRequest /\ r.seen \in Asked
    /\ r.kind \in {"revise", "unshelve"} => r.row \in Doc /\ r.seen \in KBDocument

Named(f) ==
    \/ \E q \in DocRequest : asked[q].file = f
    \/ \E d \in Doc : shelf[d].file = f
    \/ f \in attached

Remembered(k, f) == upload[k].kind \in OnARow /\ upload[k].seen.file = f

(* What rows name, now or after a flush, is there and is nobody's upload.  *)
KeptFiles ==
    \A f \in File : Named(f) \/ (\E k \in Upload : Remembered(k, f)) =>
        f \in disk /\ \A k \in Upload : upload[k].file # f

(* An upload is on disk, under a name of its own. *)
HeldFiles ==
    \A k \in Upload : upload[k].file # None =>
        /\ upload[k].file \in disk
        /\ \A l \in Upload : l # k => upload[l].file # upload[k].file

BInv ==
    /\ LibraryTypeOK
    /\ DOMAIN upload = Upload /\ \A k \in Upload : WellFormed(upload[k])
    /\ KeptFiles /\ HeldFiles

-----------------------------------------------------------------------------
LEMMA OverlayOfAsked ==
    ASSUME NEW now \in Asked, NEW seen \in Asked, NEW new \in Asked
    PROVE  /\ Overlay(now, seen, new) \in Asked
           /\ Overlay(now, seen, new).file \in
                 {now.file} \cup (IF new.file # seen.file THEN {new.file} ELSE {})
  <1>1. DOMAIN now = {"status", "file", "reason"}
    BY DEF Asked
  <1> DEFINE f == Overlay(now, seen, new)
  <1>2. f = [status |-> f.status, file |-> f.file, reason |-> f.reason]
    BY <1>1 DEF Overlay
  <1>3. /\ f.status \in {now.status, new.status}
        /\ f.file = (IF new.file # seen.file THEN new.file ELSE now.file)
        /\ f.reason \in {now.reason, new.reason}
    BY <1>1 DEF Overlay
  <1>4. /\ f.status \in {"absent", "pending", "fulfilled", "declined"}
        /\ f.file \in File \cup {None} /\ f.reason \in BOOLEAN
    BY <1>3 DEF Asked
  <1>5. f \in Asked
    BY <1>2, <1>4 DEF Asked
  <1> QED
    BY <1>3, <1>5

LEMMA OverlayOfDocuments ==
    ASSUME NEW now \in KBDocument, NEW seen \in KBDocument, NEW new \in KBDocument
    PROVE  /\ Overlay(now, seen, new) \in KBDocument
           /\ Overlay(now, seen, new).file \in {now.file, new.file}
  <1>1. DOMAIN now = {"state", "file", "version", "previous"}
    BY DEF KBDocument
  <1> DEFINE f == Overlay(now, seen, new)
  <1>2. f = [state |-> f.state, file |-> f.file, version |-> f.version,
             previous |-> f.previous]
    BY <1>1 DEF Overlay
  <1>3. /\ f.state \in {now.state, new.state} /\ f.file \in {now.file, new.file}
        /\ f.version \in {now.version, new.version}
        /\ f.previous \in {now.previous, new.previous}
    BY <1>1 DEF Overlay
  <1>4. /\ f.state \in {"absent", "current", "archived", "deleted"}
        /\ f.file \in File \cup {None} /\ f.version \in Nat
        /\ f.previous \in Doc \cup {None}
    BY <1>3 DEF KBDocument
  <1>5. f \in KBDocument
    BY <1>2, <1>4 DEF KBDocument
  <1> QED
    BY <1>3, <1>5

LEMMA RevisedDocument ==
    ASSUME NEW seen \in KBDocument, NEW file \in File \cup {None}, NEW old \in Doc
    PROVE  LET new == [seen EXCEPT !.file = file, !.version = @ + 1,
                                   !.previous = old]
           IN  new \in KBDocument /\ new.file = file
  <1> DEFINE n == seen.version + 1
  <1>1. n \in Nat
    BY DEF KBDocument
  <1> HIDE DEF n
  <1>2. LET new == [seen EXCEPT !.file = file, !.version = n, !.previous = old]
        IN  new \in KBDocument /\ new.file = file
    BY <1>1 DEF KBDocument
  <1> QED
    BY <1>2 DEF n

LEMMA FreeIsWellFormed == WellFormed(Free) /\ Free.file = None /\ Free.kind \notin OnARow
  BY DEF WellFormed, Free, OnARow, Kinds

LEMMA LibraryInitBInv == LibraryInit => BInv
  <1> SUFFICES ASSUME LibraryInit PROVE BInv
    OBVIOUS
  <1>1. /\ disk = {} /\ attached = {} /\ clobbered = FALSE
        /\ asked = [q \in DocRequest |-> NotAsked]
        /\ shelf = [d \in Doc |-> NoDoc] /\ upload = [k \in Upload |-> Free]
    BY DEF LibraryInit
  <1>2. NotAsked \in Asked /\ NoDoc \in KBDocument
    BY DEF NotAsked, NoDoc, Asked, KBDocument
  <1>3. \A k \in Upload : WellFormed(upload[k])
    BY <1>1, FreeIsWellFormed
  <1>4. LibraryTypeOK
    BY <1>1, <1>2, <1>3 DEF LibraryTypeOK, WellFormed
  <1>5. \A f \in File : ~Named(f) /\ \A k \in Upload : ~Remembered(k, f)
    BY <1>1, FreeIsWellFormed, LibraryAssumption
    DEF Named, Remembered, NotAsked, NoDoc
  <1>6. KeptFiles /\ HeldFiles
    BY <1>1, <1>5, FreeIsWellFormed DEF KeptFiles, HeldFiles
  <1> QED
    BY <1>1, <1>3, <1>4, <1>6 DEF BInv

-----------------------------------------------------------------------------
(* A request begins with a file of a new name, and a row that names one    *)
(* that is kept.                                                           *)
LEMMA ServeBInv ==
    ASSUME BInv, NEW k \in Upload, NEW r, WellFormed(r), Serve(k, r),
           \A f \in File : r.kind \in OnARow /\ r.seen.file = f => Named(f)
    PROVE  BInv'
  <1>1. /\ Saved(r.file) /\ upload[k] = Free
        /\ upload' = [upload EXCEPT ![k] = r]
        /\ disk' = disk \cup ({r.file} \ {None})
        /\ UNCHANGED <<asked, shelf, attached, clobbered>>
    BY DEF Serve
  <1>2. /\ DOMAIN upload' = Upload
        /\ \A l \in Upload : upload'[l] = IF l = k THEN r ELSE upload[l]
    BY <1>1 DEF BInv
  <1>3. \A l \in Upload : WellFormed(upload'[l])
    BY <1>2 DEF BInv
  <1>4. LibraryTypeOK'
    BY <1>1, <1>3 DEF BInv, LibraryTypeOK, WellFormed
  <1>5. r.file # None => r.file \notin disk /\ \A l \in Upload : upload[l].file # r.file
    BY <1>1 DEF Saved
  <1>6. KeptFiles'
    <2> SUFFICES ASSUME NEW f \in File, Named(f)' \/ \E l \in Upload : Remembered(l, f)'
                 PROVE  f \in disk' /\ \A l \in Upload : upload'[l].file # f
      BY DEF KeptFiles
    <2>1. Named(f) \/ \E l \in Upload : Remembered(l, f)
      BY <1>1, <1>2 DEF Named, Remembered
    <2>2. f \in disk /\ \A l \in Upload : upload[l].file # f
      BY <2>1 DEF BInv, KeptFiles
    <2>3. r.file # f
      BY <1>5, <2>2, LibraryAssumption
    <2> QED
      BY <1>1, <1>2, <2>2, <2>3
  <1>7. HeldFiles'
    <2> SUFFICES ASSUME NEW l \in Upload, upload'[l].file # None
                 PROVE  /\ upload'[l].file \in disk'
                        /\ \A m \in Upload : m # l => upload'[m].file # upload'[l].file
      BY DEF HeldFiles
    <2>1. CASE l = k
      BY <1>1, <1>2, <1>5, <2>1
    <2>2. CASE l # k
      <3>1. /\ upload'[l] = upload[l] /\ upload[l].file \in disk
            /\ \A m \in Upload : m # l => upload[m].file # upload[l].file
        BY <1>2, <2>2 DEF BInv, HeldFiles
      <3>2. r.file # upload[l].file
        BY <1>2, <1>5, <2>2
      <3> QED
        BY <1>1, <1>2, <3>1, <3>2
    <2> QED
      BY <2>1, <2>2
  <1> QED
    BY <1>2, <1>3, <1>4, <1>6, <1>7 DEF BInv

LEMMA ReceiveBInv ==
    ASSUME BInv, NEW k \in Upload, Receive(k) PROVE BInv'
  <1>1. /\ asked \in [DocRequest -> Asked] /\ shelf \in [Doc -> KBDocument]
    BY DEF BInv, LibraryTypeOK
  <1>2. ASSUME NEW f \in File, BeginShelve(k, f) \/ BeginAttach(k, f) PROVE BInv'
    <2> DEFINE r(kind, seen, toKb) == [kind |-> kind, row |-> None, seen |-> seen,
                                       file |-> f, toKb |-> toKb]
    <2>1. /\ WellFormed(r("shelve", None, TRUE))
          /\ WellFormed(r("attach", attached, FALSE))
      BY LibraryAssumption DEF WellFormed, Kinds
    <2>2. Serve(k, r("shelve", None, TRUE)) \/ Serve(k, r("attach", attached, FALSE))
      BY <1>2 DEF BeginShelve, BeginAttach
    <2> QED
      BY <2>1, <2>2, ServeBInv DEF OnARow
  <1>3. ASSUME NEW f \in File, NEW d \in Doc, BeginRevise(k, d, f) PROVE BInv'
    <2> DEFINE r == [kind |-> "revise", row |-> d, seen |-> shelf[d], file |-> f,
                     toKb |-> FALSE]
    <2>1. WellFormed(r) /\ Serve(k, r)
      BY <1>1, <1>3 DEF WellFormed, Kinds, BeginRevise
    <2>2. \A g \in File : r.seen.file = g => Named(g)
      BY DEF Named
    <2> QED
      BY <2>1, <2>2, ServeBInv
  <1>4. ASSUME NEW f \in File, NEW q \in DocRequest, NEW toKb \in BOOLEAN,
               BeginFulfil(k, q, f, toKb)
        PROVE  BInv'
    <2> DEFINE r == [kind |-> "fulfil", row |-> q, seen |-> asked[q], file |-> f,
                     toKb |-> toKb]
    <2>1. WellFormed(r) /\ Serve(k, r)
      BY <1>1, <1>4 DEF WellFormed, Kinds, BeginFulfil
    <2>2. \A g \in File : r.seen.file = g => Named(g)
      BY DEF Named
    <2> QED
      BY <2>1, <2>2, ServeBInv
  <1>5. ASSUME NEW q \in DocRequest, BeginDecline(k, q) PROVE BInv'
    <2> DEFINE r == [kind |-> "decline", row |-> q, seen |-> asked[q],
                     file |-> None, toKb |-> FALSE]
    <2>1. WellFormed(r) /\ Serve(k, r)
      BY <1>1, <1>5 DEF WellFormed, Kinds, BeginDecline
    <2>2. \A g \in File : r.seen.file = g => Named(g)
      BY DEF Named
    <2> QED
      BY <2>1, <2>2, ServeBInv
  <1>6. ASSUME NEW d \in Doc, BeginUnshelve(k, d) PROVE BInv'
    <2> DEFINE r == [kind |-> "unshelve", row |-> d, seen |-> shelf[d],
                     file |-> None, toKb |-> FALSE]
    <2>1. WellFormed(r) /\ Serve(k, r)
      BY <1>1, <1>6 DEF WellFormed, Kinds, BeginUnshelve
    <2>2. \A g \in File : r.seen.file = g => Named(g)
      BY DEF Named
    <2> QED
      BY <2>1, <2>2, ServeBInv
  <1> QED
    BY <1>2, <1>3, <1>4, <1>5, <1>6 DEF Receive

-----------------------------------------------------------------------------
(* A request ends: its row names what was named, what it read, or what it  *)
(* brought.                                                                *)
LEMMA LeaveBInv ==
    ASSUME BInv, NEW k \in Upload, Leave(k), disk' = disk,
           asked' \in [DocRequest -> Asked], shelf' \in [Doc -> KBDocument],
           attached' \subseteq File, clobbered' \in BOOLEAN,
           \A f \in File : Named(f)' =>
               Named(f) \/ Remembered(k, f) \/ upload[k].file = f
    PROVE  BInv'
  <1>1. /\ DOMAIN upload' = Upload
        /\ \A l \in Upload : upload'[l] = IF l = k THEN Free ELSE upload[l]
    BY DEF BInv, Leave
  <1>2. \A l \in Upload : WellFormed(upload'[l])
    BY <1>1, FreeIsWellFormed DEF BInv
  <1>3. LibraryTypeOK'
    BY <1>2 DEF BInv, LibraryTypeOK, WellFormed
  <1>4. KeptFiles'
    <2> SUFFICES ASSUME NEW f \in File, Named(f)' \/ \E l \in Upload : Remembered(l, f)'
                 PROVE  f \in disk /\ \A l \in Upload : upload'[l].file # f
      BY DEF KeptFiles
    <2>1. Free.file # f
      BY FreeIsWellFormed, LibraryAssumption
    <2>2. CASE Named(f) \/ \E l \in Upload : Remembered(l, f)
      BY <1>1, <2>1, <2>2 DEF BInv, KeptFiles
    <2>3. CASE upload[k].file = f
      BY <1>1, <2>1, <2>3, LibraryAssumption DEF BInv, HeldFiles
    <2>4. (\E l \in Upload : Remembered(l, f)') => \E l \in Upload : Remembered(l, f)
      BY <1>1, FreeIsWellFormed DEF Remembered
    <2> QED
      BY <2>2, <2>3, <2>4
  <1>5. HeldFiles'
    BY <1>1, FreeIsWellFormed DEF BInv, HeldFiles
  <1> QED
    BY <1>1, <1>2, <1>3, <1>4, <1>5 DEF BInv

LEMMA FulfilBInv ==
    ASSUME BInv, NEW k \in Upload, CommitFulfil(k) PROVE BInv'
  <1> DEFINE r == upload[k]
             new == [r.seen EXCEPT !.status = "fulfilled", !.file = r.file]
             row == Overlay(asked[r.row], r.seen, new)
  <1>1. /\ r.kind = "fulfil" /\ asked' = [asked EXCEPT ![r.row] = row]
        /\ Leave(k) /\ UNCHANGED <<disk, attached>>
        /\ clobbered' = (clobbered \/ asked[r.row] # r.seen)
        /\ \/ \E d \in Doc : shelf' = [shelf EXCEPT ![d] = Shelved(r.file)]
           \/ shelf' = shelf
    BY DEF CommitFulfil, Over
  <1>2. /\ WellFormed(r) /\ asked \in [DocRequest -> Asked]
        /\ shelf \in [Doc -> KBDocument] /\ attached \subseteq File
        /\ clobbered \in BOOLEAN
    BY DEF BInv, LibraryTypeOK
  <1>3. r.row \in DocRequest /\ r.seen \in Asked /\ r.file \in File \cup {None}
    BY <1>1, <1>2 DEF WellFormed
  <1>4. new \in Asked /\ new.file = r.file
    BY <1>3 DEF Asked
  <1>5. row \in Asked /\ row.file \in {asked[r.row].file, r.file}
    <2> HIDE DEF new
    <2> QED
      BY <1>2, <1>3, <1>4, OverlayOfAsked
  <1>6. asked' \in [DocRequest -> Asked]
    BY <1>1, <1>2, <1>3, <1>5
  <1>7. Shelved(r.file) \in KBDocument /\ Shelved(r.file).file = r.file
    BY <1>3 DEF Shelved, KBDocument
  <1>8. shelf' \in [Doc -> KBDocument]
    BY <1>1, <1>2, <1>7
  <1>9. ASSUME NEW f \in File, Named(f)'
        PROVE  Named(f) \/ Remembered(k, f) \/ r.file = f
    <2>1. \A q \in DocRequest : asked'[q].file \in {asked[q].file, r.file}
      BY <1>1, <1>2, <1>3, <1>5
    <2>2. \A d \in Doc : shelf'[d].file \in {shelf[d].file, r.file}
      BY <1>1, <1>2, <1>7
    <2> QED
      BY <1>1, <1>9, <2>1, <2>2 DEF Named
  <1> QED
    BY <1>1, <1>2, <1>6, <1>8, <1>9, LeaveBInv

LEMMA DeclineBInv ==
    ASSUME BInv, NEW k \in Upload, CommitDecline(k) PROVE BInv'
  <1> DEFINE r == upload[k]
             new == [r.seen EXCEPT !.status = "declined", !.reason = TRUE]
             row == Overlay(asked[r.row], r.seen, new)
  <1>1. /\ r.kind = "decline" /\ asked' = [asked EXCEPT ![r.row] = row]
        /\ Leave(k) /\ UNCHANGED <<disk, shelf, attached>>
        /\ clobbered' = (clobbered \/ asked[r.row] # r.seen)
    BY DEF CommitDecline, Over
  <1>2. /\ WellFormed(r) /\ asked \in [DocRequest -> Asked]
        /\ shelf \in [Doc -> KBDocument] /\ attached \subseteq File
        /\ clobbered \in BOOLEAN
    BY DEF BInv, LibraryTypeOK
  <1>3. r.row \in DocRequest /\ r.seen \in Asked
    BY <1>1, <1>2 DEF WellFormed
  <1>4. new \in Asked /\ new.file = r.seen.file
    BY <1>3 DEF Asked
  <1>5. row \in Asked /\ row.file = asked[r.row].file
    <2> HIDE DEF new
    <2> QED
      BY <1>2, <1>3, <1>4, OverlayOfAsked
  <1>6. asked' \in [DocRequest -> Asked]
    BY <1>1, <1>2, <1>3, <1>5
  <1>7. \A f \in File : Named(f)' => Named(f)
    BY <1>1, <1>2, <1>3, <1>5 DEF Named
  <1> QED
    BY <1>1, <1>2, <1>6, <1>7, LeaveBInv

LEMMA ShelveBInv ==
    ASSUME BInv, NEW k \in Upload, CommitShelve(k) PROVE BInv'
  <1> DEFINE r == upload[k]
  <1>1. PICK d \in Doc : shelf' = [shelf EXCEPT ![d] = Shelved(r.file)]
    BY DEF CommitShelve
  <1>2. Leave(k) /\ UNCHANGED <<disk, asked, attached, clobbered>>
    BY DEF CommitShelve
  <1>3. /\ WellFormed(r) /\ asked \in [DocRequest -> Asked]
        /\ shelf \in [Doc -> KBDocument] /\ attached \subseteq File
        /\ clobbered \in BOOLEAN
    BY DEF BInv, LibraryTypeOK
  <1>4. Shelved(r.file) \in KBDocument /\ Shelved(r.file).file = r.file
    BY <1>3 DEF Shelved, KBDocument, WellFormed
  <1>5. shelf' \in [Doc -> KBDocument]
    BY <1>1, <1>3, <1>4
  <1>6. ASSUME NEW f \in File, Named(f)' PROVE Named(f) \/ r.file = f
    BY <1>1, <1>2, <1>3, <1>4, <1>6 DEF Named
  <1> QED
    BY <1>2, <1>3, <1>5, <1>6, LeaveBInv

(* The archive names the file that the revision read. *)
LEMMA ReviseBInv ==
    ASSUME BInv, NEW k \in Upload, CommitRevise(k) PROVE BInv'
  <1> DEFINE r == upload[k]
             new(old) == [r.seen EXCEPT !.file = r.file, !.version = @ + 1,
                                        !.previous = old]
             row(old) == Overlay(shelf[r.row], r.seen, new(old))
             archive == [r.seen EXCEPT !.state = "archived"]
  <1>1. /\ r.kind = "revise" /\ Leave(k) /\ UNCHANGED <<disk, asked, attached>>
        /\ clobbered' = (clobbered \/ shelf[r.row] # r.seen)
    BY DEF CommitRevise, Over
  <1>2. /\ WellFormed(r) /\ asked \in [DocRequest -> Asked]
        /\ shelf \in [Doc -> KBDocument] /\ attached \subseteq File
        /\ clobbered \in BOOLEAN
    BY DEF BInv, LibraryTypeOK
  <1>3. r.row \in Doc /\ r.seen \in KBDocument /\ r.file \in File \cup {None}
    BY <1>1, <1>2 DEF WellFormed
  <1>4. archive \in KBDocument /\ archive.file = r.seen.file
    BY <1>3 DEF KBDocument
  <1>5. PICK old \in Doc : /\ shelf[old] = NoDoc
                           /\ shelf' = [shelf EXCEPT
                                  ![old] = Snapshot(r.seen, r.file),
                                  ![r.row] = Overlay(shelf[r.row], r.seen, new(old))]
    BY Zenon DEF CommitRevise
  <1>6. new(old) \in KBDocument /\ new(old).file = r.file
    BY <1>3, RevisedDocument
  <1>7. /\ \A now \in KBDocument :
              /\ Overlay(now, r.seen, new(old)) \in KBDocument
              /\ Overlay(now, r.seen, new(old)).file \in {now.file, r.file}
    BY <1>3, <1>6, OverlayOfDocuments
  <1>8. DEFINE mid == [shelf EXCEPT ![old] = archive]
  <1>9. /\ mid \in [Doc -> KBDocument]
        /\ \A d \in Doc : mid[d].file \in {shelf[d].file, r.seen.file}
    BY <1>2, <1>4
  <1> HIDE DEF new
  <1>10. shelf' = [mid EXCEPT ![r.row] = Overlay(shelf[r.row], r.seen, new(old))]
    BY <1>5 DEF Snapshot
  <1> HIDE DEF mid
  <1>11. /\ shelf' \in [Doc -> KBDocument]
         /\ \A d \in Doc : shelf'[d].file \in {mid[d].file, shelf[d].file, r.file}
    BY <1>2, <1>3, <1>7, <1>9, <1>10
  <1>12. ASSUME NEW f \in File, Named(f)'
         PROVE  Named(f) \/ Remembered(k, f) \/ r.file = f
    BY <1>1, <1>9, <1>11, <1>12 DEF Named, Remembered, OnARow
  <1> QED
    BY <1>1, <1>2, <1>11, <1>12, LeaveBInv

LEMMA UnshelveBInv ==
    ASSUME BInv, NEW k \in Upload, CommitUnshelve(k) PROVE BInv'
  <1> DEFINE r == upload[k]
  <1>1. /\ r.kind = "unshelve"
        /\ shelf' = [shelf EXCEPT ![r.row] = [@ EXCEPT !.state = "deleted"]]
        /\ clobbered' = (clobbered \/ shelf[r.row] # r.seen)
        /\ Leave(k) /\ UNCHANGED <<disk, asked, attached>>
    BY DEF CommitUnshelve, Over
  <1>2. /\ WellFormed(r) /\ asked \in [DocRequest -> Asked]
        /\ shelf \in [Doc -> KBDocument] /\ attached \subseteq File
        /\ clobbered \in BOOLEAN
    BY DEF BInv, LibraryTypeOK
  <1>3. r.row \in Doc
    BY <1>1, <1>2 DEF WellFormed
  <1>4. ASSUME NEW row \in KBDocument
        PROVE  /\ [row EXCEPT !.state = "deleted"] \in KBDocument
               /\ [row EXCEPT !.state = "deleted"].file = row.file
    BY DEF KBDocument
  <1>5. /\ shelf' \in [Doc -> KBDocument]
        /\ \A d \in Doc : shelf'[d].file = shelf[d].file
    BY <1>1, <1>2, <1>3, <1>4
  <1>6. \A f \in File : Named(f)' => Named(f)
    BY <1>1, <1>5 DEF Named
  <1> QED
    BY <1>1, <1>2, <1>5, <1>6, LeaveBInv

LEMMA AttachBInv ==
    ASSUME BInv, NEW k \in Upload, CommitAttach(k) PROVE BInv'
  <1> DEFINE r == upload[k]
  <1>1. /\ r.kind = "attach" /\ attached' = attached \cup {r.file} /\ Leave(k)
        /\ clobbered' = (clobbered \/ attached # r.seen)
        /\ UNCHANGED <<disk, asked, shelf>>
    BY DEF CommitAttach, Over
  <1>2. /\ WellFormed(r) /\ asked \in [DocRequest -> Asked]
        /\ shelf \in [Doc -> KBDocument] /\ attached \subseteq File
        /\ clobbered \in BOOLEAN
    BY DEF BInv, LibraryTypeOK
  <1>3. r.file \in File
    BY <1>1, <1>2 DEF WellFormed
  <1>4. ASSUME NEW f \in File, Named(f)' PROVE Named(f) \/ r.file = f
    BY <1>1, <1>4 DEF Named
  <1> QED
    BY <1>1, <1>2, <1>3, <1>4, LeaveBInv

(* What is taken off the disk was the request's alone. *)
LEMMA RefuseBInv ==
    ASSUME BInv, NEW k \in Upload, Refuse(k) PROVE BInv'
  <1> DEFINE g == upload[k].file
  <1>1. /\ disk \ {g} \subseteq disk' /\ disk' \subseteq disk /\ Leave(k)
        /\ UNCHANGED <<asked, shelf, attached, clobbered>>
    BY DEF Refuse, Unlinked
  <1>2. /\ DOMAIN upload' = Upload
        /\ \A l \in Upload : upload'[l] = IF l = k THEN Free ELSE upload[l]
    BY <1>1 DEF BInv, Leave
  <1>3. \A l \in Upload : WellFormed(upload'[l])
    BY <1>2, FreeIsWellFormed DEF BInv
  <1>4. LibraryTypeOK'
    BY <1>1, <1>3 DEF BInv, LibraryTypeOK, WellFormed
  <1>5. KeptFiles'
    <2> SUFFICES ASSUME NEW f \in File, Named(f)' \/ \E l \in Upload : Remembered(l, f)'
                 PROVE  f \in disk' /\ \A l \in Upload : upload'[l].file # f
      BY DEF KeptFiles
    <2>1. Named(f) \/ \E l \in Upload : Remembered(l, f)
      BY <1>1, <1>2, FreeIsWellFormed DEF Named, Remembered
    <2>2. f \in disk /\ \A l \in Upload : upload[l].file # f
      BY <2>1 DEF BInv, KeptFiles
    <2>3. Free.file # f
      BY FreeIsWellFormed, LibraryAssumption
    <2> QED
      BY <1>1, <1>2, <2>2, <2>3
  <1>6. HeldFiles'
    BY <1>1, <1>2, FreeIsWellFormed DEF BInv, HeldFiles
  <1> QED
    BY <1>2, <1>3, <1>4, <1>5, <1>6 DEF BInv

LEMMA FinishBInv ==
    ASSUME BInv, NEW k \in Upload, Finish(k) PROVE BInv'
  <1>1. CASE DropUpload(k)
    <2>1. Leave(k) /\ UNCHANGED <<disk, asked, shelf, attached, clobbered>>
      BY <1>1 DEF DropUpload
    <2>2. \A f \in File : Named(f)' => Named(f)
      BY <2>1 DEF Named
    <2> QED
      BY <2>1, <2>2, LeaveBInv DEF BInv, LibraryTypeOK
  <1>2. CASE CommitAttach(k)
    BY <1>2, AttachBInv
  <1> QED
    BY <1>1, <1>2, FulfilBInv, DeclineBInv, ShelveBInv, ReviseBInv, UnshelveBInv,
       RefuseBInv
    DEF Finish

LEMMA LibraryNextBInv == BInv /\ [LibraryNext]_libraryVars => BInv'
  <1> SUFFICES ASSUME BInv, [LibraryNext]_libraryVars PROVE BInv'
    OBVIOUS
  <1>1. ASSUME NEW k \in Upload, Receive(k) \/ Finish(k) PROVE BInv'
    BY <1>1, ReceiveBInv, FinishBInv
  <1>2. ASSUME NEW q \in DocRequest, AskFor(q) PROVE BInv'
    <2>1. /\ asked' = [asked EXCEPT ![q] = [@ EXCEPT !.status = "pending"]]
          /\ UNCHANGED <<disk, shelf, attached, upload, clobbered>>
      BY <1>2 DEF AskFor
    <2>2. \A row \in Asked : /\ [row EXCEPT !.status = "pending"] \in Asked
                             /\ [row EXCEPT !.status = "pending"].file = row.file
      BY DEF Asked
    <2>3. asked \in [DocRequest -> Asked]
      BY DEF BInv, LibraryTypeOK
    <2>4. /\ asked' \in [DocRequest -> Asked]
          /\ \A p \in DocRequest : asked'[p].file = asked[p].file
      BY <2>1, <2>2, <2>3
    <2>5. \A f \in File : Named(f)' => Named(f)
      BY <2>1, <2>4 DEF Named
    <2> QED
      BY <2>1, <2>4, <2>5 DEF BInv, LibraryTypeOK, KeptFiles, HeldFiles, Remembered
  <1>3. ASSUME NEW f \in File, Detach(f) PROVE BInv'
    <2>1. /\ attached' = attached \ {f}
          /\ UNCHANGED <<disk, asked, shelf, upload, clobbered>>
      BY <1>3 DEF Detach
    <2>2. \A g \in File : Named(g)' => Named(g)
      BY <2>1 DEF Named
    <2> QED
      BY <2>1, <2>2 DEF BInv, LibraryTypeOK, KeptFiles, HeldFiles, Remembered
  <1>4. CASE UNCHANGED libraryVars
    BY <1>4 DEF libraryVars, BInv, LibraryTypeOK, KeptFiles, HeldFiles, Remembered,
                Named
  <1> QED
    BY <1>1, <1>2, <1>3, <1>4 DEF LibraryNext

(* Every request on files, documents and their rows, finished or failed,   *)
(* keeps the strengthening.                                                *)
THEOREM LibraryInductive == LibrarySpec => []BInv
  <1> QED
    BY LibraryInitBInv, LibraryNextBInv, PTL DEF LibrarySpec

-----------------------------------------------------------------------------
(* The theorems. *)

(* Files, requests and documents keep their types. *)
THEOREM LibraryTypeCorrect == LibrarySpec => []LibraryTypeOK
  <1>1. BInv => LibraryTypeOK
    BY DEF BInv
  <1> QED
    BY <1>1, LibraryInductive, PTL

(* What delete_upload takes off the disk is named by no row: whatever of   *)
(* fulfilments, revisions, deletions and attachments crosses, fails or     *)
(* dies, what a row names can be downloaded.                               *)
THEOREM FilesAreThere == LibrarySpec => []NamedFilesExist
  <1>1. BInv => NamedFilesExist
    <2> SUFFICES ASSUME BInv PROVE NamedFilesExist
      OBVIOUS
    <2>1. \A f \in File : Named(f) => f \in disk
      BY DEF BInv, KeptFiles
    <2>2. /\ \A q \in DocRequest : asked[q].file \in File \cup {None}
          /\ \A d \in Doc : shelf[d].file \in File \cup {None}
          /\ attached \subseteq File
      BY DEF BInv, LibraryTypeOK, Asked, KBDocument
    <2>3. /\ \A q \in DocRequest : asked[q].file \in disk \cup {None}
          /\ \A d \in Doc : shelf[d].file \in disk \cup {None}
          /\ attached \subseteq disk
      BY <2>1, <2>2 DEF Named
    <2>4. \A k \in Upload : upload[k].file \in disk \cup {None}
      BY DEF BInv, HeldFiles
    <2> QED
      BY <2>3, <2>4 DEF NamedFilesExist
  <1> QED
    BY <1>1, LibraryInductive, PTL

-----------------------------------------------------------------------------
(* What is kept.  A request was admitted to a row in the state that it     *)
(* needs, and has the file that it brings.                                 *)
Requested(r) ==
    /\ r.kind \in {"fulfil", "revise"} => r.file # None
    /\ r.kind = "decline" => r.seen.status = "pending"
    /\ r.kind = "revise" => r.seen.state = "current"

(* A document has a previous version exactly when it is not the first, in  *)
(* a row that is no longer current and has the number before and another   *)
(* file; a current one has a number.                                       *)
Chained(d) ==
    /\ shelf[d].previous # None <=> shelf[d].version > 1
    /\ shelf[d].state = "current" => shelf[d].version > 0
    /\ shelf[d].version > 1 =>
          /\ shelf[shelf[d].previous].state \in {"archived", "deleted"}
          /\ shelf[shelf[d].previous].version = shelf[d].version - 1
          /\ shelf[shelf[d].previous].file # shelf[d].file

Unshared ==
    \A d, e \in Doc :
        shelf[d].previous # None /\ shelf[d].previous = shelf[e].previous => d = e

OneAnswer(row) ==
    /\ row.status = "fulfilled" <=> row.file # None
    /\ row.status = "declined" <=> row.reason

FewAttached == IsFiniteSet(attached) /\ Cardinality(attached) <= MaxDocuments

Kept ==
    /\ (\A d \in Doc : Chained(d)) /\ Unshared
    /\ \A q \in DocRequest : OneAnswer(asked[q])
    /\ FewAttached

HInv ==
    /\ BInv /\ \A k \in Upload : Requested(upload[k])
    /\ clobbered \/ Kept

(* While nothing crosses, what a request writes is what it made.           *)
LEMMA OverlayUnchanged ==
    /\ \A seen, new \in Asked :
          /\ Overlay(seen, seen, new).status = new.status
          /\ Overlay(seen, seen, new).file = new.file
          /\ Overlay(seen, seen, new).reason = new.reason
    /\ \A seen, new \in KBDocument :
          /\ Overlay(seen, seen, new).state = new.state
          /\ Overlay(seen, seen, new).file = new.file
          /\ Overlay(seen, seen, new).version = new.version
          /\ Overlay(seen, seen, new).previous = new.previous
  BY DEF Overlay, Asked, KBDocument

LEMMA LibraryInitHInv == LibraryInit => HInv
  <1> SUFFICES ASSUME LibraryInit PROVE HInv
    OBVIOUS
  <1>1. Cardinality(attached) = 0 /\ IsFiniteSet(attached)
    BY FS_EmptySet DEF LibraryInit
  <1>2. FewAttached
    BY <1>1, LibraryAssumption DEF FewAttached
  <1>3. (\A d \in Doc : Chained(d)) /\ Unshared
    BY DEF LibraryInit, NoDoc, Chained, Unshared
  <1>4. \A q \in DocRequest : OneAnswer(asked[q])
    BY DEF LibraryInit, NotAsked, OneAnswer
  <1>5. \A k \in Upload : Requested(upload[k])
    BY DEF LibraryInit, Free, Requested
  <1> QED
    BY <1>2, <1>3, <1>4, <1>5, LibraryInitBInv DEF HInv, Kept

LEMMA RequestedStep ==
    ASSUME BInv, \A k \in Upload : Requested(upload[k]), [LibraryNext]_libraryVars
    PROVE  \A k \in Upload : Requested(upload'[k])
  <1>1. DOMAIN upload = Upload /\ Requested(Free)
    BY DEF BInv, Free, Requested
  <1>2. ASSUME NEW k \in Upload, NEW r, Serve(k, r), Requested(r)
        PROVE  \A l \in Upload : Requested(upload'[l])
    BY <1>1, <1>2 DEF Serve
  <1>3. ASSUME NEW k \in Upload, Receive(k)
        PROVE  \A l \in Upload : Requested(upload'[l])
    <2>1. \A f \in File : f # None
      BY LibraryAssumption
    <2>2. ASSUME NEW f \in File, BeginShelve(k, f)
          PROVE  \A l \in Upload : Requested(upload'[l])
      BY <1>2, <2>2 DEF BeginShelve, Requested
    <2>3. ASSUME NEW f \in File, BeginAttach(k, f)
          PROVE  \A l \in Upload : Requested(upload'[l])
      BY <1>2, <2>3 DEF BeginAttach, Requested
    <2>4. ASSUME NEW f \in File, NEW d \in Doc, BeginRevise(k, d, f)
          PROVE  \A l \in Upload : Requested(upload'[l])
      BY <1>2, <2>1, <2>4 DEF BeginRevise, Requested
    <2>5. ASSUME NEW f \in File, NEW q \in DocRequest, NEW toKb \in BOOLEAN,
                 BeginFulfil(k, q, f, toKb)
          PROVE  \A l \in Upload : Requested(upload'[l])
      BY <1>2, <2>1, <2>5 DEF BeginFulfil, Requested
    <2>6. ASSUME NEW q \in DocRequest, BeginDecline(k, q)
          PROVE  \A l \in Upload : Requested(upload'[l])
      BY <1>2, <2>6 DEF BeginDecline, Requested
    <2>7. ASSUME NEW d \in Doc, BeginUnshelve(k, d)
          PROVE  \A l \in Upload : Requested(upload'[l])
      BY <1>2, <2>7 DEF BeginUnshelve, Requested
    <2> QED
      BY <1>3, <2>2, <2>3, <2>4, <2>5, <2>6, <2>7 DEF Receive
  <1>4. ASSUME NEW k \in Upload, Leave(k)
        PROVE  \A l \in Upload : Requested(upload'[l])
    BY <1>1, <1>4 DEF Leave
  <1>5. ASSUME NEW k \in Upload, Finish(k) PROVE Leave(k)
    BY <1>5 DEF Finish, CommitFulfil, CommitDecline, CommitShelve, CommitRevise,
               CommitUnshelve, CommitAttach, Refuse, DropUpload
  <1>6. CASE UNCHANGED upload
    BY <1>6
  <1>7. (\E q \in DocRequest : AskFor(q)) \/ (\E f \in File : Detach(f))
           \/ UNCHANGED libraryVars => UNCHANGED upload
    BY DEF AskFor, Detach, libraryVars
  <1> QED
    BY <1>3, <1>4, <1>5, <1>6, <1>7 DEF LibraryNext

(* A new first version is nobody's previous one, because that row was      *)
(* absent.                                                                 *)
LEMMA ShelvedKept ==
    ASSUME NEW d \in Doc, NEW f, shelf[d] = NoDoc, shelf \in [Doc -> KBDocument],
           shelf' = [shelf EXCEPT ![d] = Shelved(f)],
           \A e \in Doc : Chained(e), Unshared
    PROVE  (\A e \in Doc : Chained(e)') /\ Unshared'
  <1>1. /\ shelf'[d] = Shelved(f)
        /\ \A e \in Doc \ {d} : shelf'[e] = shelf[e]
    OBVIOUS
  <1>2. \A e \in Doc : shelf[e].version > 1 =>
           shelf[e].previous \in Doc /\ shelf[e].previous # d
    BY DEF Chained, KBDocument, NoDoc
  <1>3. /\ shelf'[d].version = 1 /\ shelf'[d].previous = None
    BY <1>1 DEF Shelved
  <1>4. ASSUME NEW e \in Doc PROVE Chained(e)'
    BY <1>1, <1>2, <1>3 DEF Chained
  <1>5. Unshared'
    BY <1>1, <1>3 DEF Unshared
  <1> QED
    BY <1>4, <1>5

LEMMA FulfilKept ==
    ASSUME HInv, NEW k \in Upload, CommitFulfil(k), ~clobbered' PROVE Kept'
  <1> DEFINE r == upload[k]
             new == [r.seen EXCEPT !.status = "fulfilled", !.file = r.file]
  <1>1. /\ r.kind = "fulfil" /\ r.seen.status = "pending" /\ UNCHANGED attached
        /\ asked' = [asked EXCEPT ![r.row] = Overlay(asked[r.row], r.seen, new)]
        /\ \/ \E d \in Doc : /\ shelf[d] = NoDoc
                              /\ shelf' = [shelf EXCEPT ![d] = Shelved(r.file)]
           \/ shelf' = shelf
        /\ clobbered' = (clobbered \/ asked[r.row] # r.seen)
    BY DEF CommitFulfil, Over
  <1>2. /\ Kept /\ asked[r.row] = r.seen
    BY <1>1 DEF HInv
  <1>3. /\ asked \in [DocRequest -> Asked] /\ shelf \in [Doc -> KBDocument]
        /\ WellFormed(r) /\ r.file # None
    BY <1>1 DEF HInv, BInv, LibraryTypeOK, Requested
  <1>4. r.row \in DocRequest /\ r.seen \in Asked /\ r.file \in File
    BY <1>1, <1>3 DEF WellFormed
  <1>5. /\ new \in Asked /\ new.status = "fulfilled" /\ new.file = r.file
        /\ new.reason = r.seen.reason
    BY <1>4 DEF Asked
  <1> HIDE DEF new, r
  <1>6. r.seen.reason = FALSE
    BY <1>1, <1>2, <1>4 DEF Kept, OneAnswer, Asked
  <1>7. OneAnswer(Overlay(asked[r.row], r.seen, new))
    BY <1>2, <1>3, <1>4, <1>5, <1>6, OverlayUnchanged DEF OneAnswer
  <1>8. \A q \in DocRequest : OneAnswer(asked'[q])
    BY <1>1, <1>2, <1>3, <1>4, <1>7 DEF Kept
  <1>9. (\A d \in Doc : Chained(d)') /\ Unshared'
    BY <1>1, <1>2, <1>3, ShelvedKept DEF Kept, Chained, Unshared
  <1> QED
    BY <1>1, <1>2, <1>8, <1>9 DEF Kept, FewAttached

LEMMA DeclineKept ==
    ASSUME HInv, NEW k \in Upload, CommitDecline(k), ~clobbered' PROVE Kept'
  <1> DEFINE r == upload[k]
             new == [r.seen EXCEPT !.status = "declined", !.reason = TRUE]
  <1>1. /\ r.kind = "decline" /\ UNCHANGED <<shelf, attached>>
        /\ asked' = [asked EXCEPT ![r.row] = Overlay(asked[r.row], r.seen, new)]
        /\ clobbered' = (clobbered \/ asked[r.row] # r.seen)
    BY DEF CommitDecline, Over
  <1>2. Kept /\ asked[r.row] = r.seen
    BY <1>1 DEF HInv
  <1>3. /\ asked \in [DocRequest -> Asked] /\ WellFormed(r)
        /\ r.seen.status = "pending"
    BY <1>1 DEF HInv, BInv, LibraryTypeOK, Requested
  <1>4. r.row \in DocRequest /\ r.seen \in Asked
    BY <1>1, <1>3 DEF WellFormed
  <1>5. /\ new \in Asked /\ new.status = "declined" /\ new.file = r.seen.file
        /\ new.reason = TRUE
    BY <1>4 DEF Asked
  <1> HIDE DEF new, r
  <1>6. r.seen.file = None
    BY <1>2, <1>3, <1>4 DEF Kept, OneAnswer
  <1>7. OneAnswer(Overlay(asked[r.row], r.seen, new))
    BY <1>2, <1>4, <1>5, <1>6, OverlayUnchanged DEF OneAnswer
  <1>8. \A q \in DocRequest : OneAnswer(asked'[q])
    BY <1>1, <1>2, <1>3, <1>4, <1>7 DEF Kept
  <1> QED
    BY <1>1, <1>2, <1>8 DEF Kept, FewAttached, Chained, Unshared

LEMMA ShelveKept ==
    ASSUME HInv, NEW k \in Upload, CommitShelve(k), ~clobbered' PROVE Kept'
  <1>1. PICK d \in Doc : /\ shelf[d] = NoDoc
                         /\ shelf' = [shelf EXCEPT ![d] = Shelved(upload[k].file)]
    BY DEF CommitShelve
  <1>2. UNCHANGED <<asked, attached, clobbered>> /\ Kept
    BY DEF CommitShelve, HInv
  <1>3. shelf \in [Doc -> KBDocument]
    BY DEF HInv, BInv, LibraryTypeOK
  <1>4. (\A e \in Doc : Chained(e)') /\ Unshared'
    BY <1>1, <1>2, <1>3, ShelvedKept DEF Kept
  <1> QED
    BY <1>2, <1>4 DEF Kept, FewAttached

(* The row of a revised document takes a new file and the next number, and *)
(* what it was goes into a row that was absent: that is the only row whose *)
(* previous version is the one it had, and nobody else's is the archive.   *)
LEMMA ReviseKept ==
    ASSUME HInv, NEW k \in Upload, CommitRevise(k), ~clobbered' PROVE Kept'
  <1> DEFINE r == upload[k]
             new(o) == [r.seen EXCEPT !.file = r.file, !.version = @ + 1,
                                      !.previous = o]
             archive == [r.seen EXCEPT !.state = "archived"]
  <1>1. /\ r.kind = "revise" /\ UNCHANGED <<asked, attached>>
        /\ clobbered' = (clobbered \/ shelf[r.row] # r.seen)
    BY DEF CommitRevise, Over
  <1>2. Kept /\ shelf[r.row] = r.seen
    BY <1>1 DEF HInv
  <1>3. /\ shelf \in [Doc -> KBDocument] /\ WellFormed(r)
        /\ r.seen.state = "current" /\ r.file # None
    BY <1>1 DEF HInv, BInv, LibraryTypeOK, Requested
  <1>4. r.row \in Doc /\ r.seen \in KBDocument /\ r.file \in File
    BY <1>1, <1>3 DEF WellFormed
  <1>5. PICK old \in Doc : /\ shelf[old] = NoDoc
                           /\ shelf' = [shelf EXCEPT
                                  ![old] = Snapshot(r.seen, r.file),
                                  ![r.row] = Overlay(shelf[r.row], r.seen, new(old))]
    BY Zenon DEF CommitRevise
  <1>6. r.seen.file # r.file
    BY <1>2, <1>4 DEF HInv, BInv, KeptFiles, Named
  <1>7. /\ new(old) \in KBDocument /\ new(old).file = r.file
        /\ new(old).state = "current" /\ new(old).previous = old
        /\ new(old).version = r.seen.version + 1
    <2>1. new(old) \in KBDocument /\ new(old).file = r.file
      BY <1>4, RevisedDocument
    <2>2. new(old).state = r.seen.state /\ new(old).previous = old
      BY <1>4 DEF KBDocument
    <2>3. new(old).version = r.seen.version + 1
      BY <1>4 DEF KBDocument
    <2> QED
      BY <1>3, <2>1, <2>2, <2>3
  <1>8. /\ archive.state = "archived" /\ archive.file = r.seen.file
        /\ archive.version = r.seen.version /\ archive.previous = r.seen.previous
    BY <1>4 DEF KBDocument
  <1>9. old # r.row /\ r.seen.version \in Nat
    BY <1>2, <1>3, <1>4, <1>5 DEF NoDoc, KBDocument
  <1> DEFINE row == Overlay(shelf[r.row], r.seen, new(old))
  <1>10. /\ row.file = r.file /\ row.state = "current" /\ row.previous = old
         /\ row.version = r.seen.version + 1
    <2> HIDE DEF new
    <2> QED
      BY <1>2, <1>4, <1>7, OverlayUnchanged
  <1>11. /\ shelf'[r.row] = row /\ shelf'[old] = archive
         /\ \A d \in Doc \ {old, r.row} : shelf'[d] = shelf[d]
    BY <1>3, <1>4, <1>5, <1>9 DEF Snapshot
  <1> HIDE DEF new, archive, row, r
  <1>12. /\ \A d \in Doc : shelf[d].previous \in Doc \cup {None}
         /\ None \notin Doc /\ old # None
    BY <1>3, LibraryAssumption DEF KBDocument
  <1>13. \A d \in Doc : shelf[d].previous # None =>
            /\ shelf[d].previous \in Doc \ {old, r.row}
            /\ shelf[d].version > 1
    BY <1>2, <1>3, <1>5, <1>12 DEF Kept, Chained, NoDoc
  <1>14. r.seen.version > 0 /\ (r.seen.previous # None <=> r.seen.version > 1)
    BY <1>2, <1>3, <1>4 DEF Kept, Chained
  <1>15. ASSUME NEW d \in Doc, d = r.row PROVE Chained(d)'
    BY <1>6, <1>8, <1>9, <1>10, <1>11, <1>12, <1>14, <1>15 DEF Chained
  <1>16. Chained(old)'
    <2>1. r.seen.version > 1 =>
             /\ shelf[r.seen.previous].state \in {"archived", "deleted"}
             /\ shelf[r.seen.previous].version = r.seen.version - 1
             /\ shelf[r.seen.previous].file # r.seen.file
      BY <1>2, <1>4 DEF Kept, Chained
    <2>2. r.seen.version > 1 => shelf'[r.seen.previous] = shelf[r.seen.previous]
      BY <1>2, <1>4, <1>11, <1>13, <1>14
    <2> QED
      BY <1>8, <1>11, <1>14, <2>1, <2>2 DEF Chained
  <1>17. ASSUME NEW d \in Doc \ {old, r.row} PROVE Chained(d)'
    <2>1. Chained(d) /\ shelf'[d] = shelf[d]
      BY <1>2, <1>11 DEF Kept
    <2>2. shelf[d].version > 1 => shelf'[shelf[d].previous] = shelf[shelf[d].previous]
      BY <1>11, <1>13, <2>1 DEF Chained
    <2> QED
      BY <2>1, <2>2 DEF Chained
  <1>18. Unshared'
    <2> SUFFICES ASSUME NEW d \in Doc, NEW e \in Doc, shelf'[d].previous # None,
                        shelf'[d].previous = shelf'[e].previous
                 PROVE  d = e
      BY DEF Unshared
    <2>1. ASSUME NEW x \in Doc, shelf'[x].previous = old PROVE x = r.row
      BY <1>2, <1>8, <1>11, <1>12, <1>13, <2>1, <1>4
    <2>2. ASSUME NEW x \in Doc, x # r.row
          PROVE  shelf'[x].previous = shelf[IF x = old THEN r.row ELSE x].previous
      BY <1>2, <1>8, <1>11, <2>2
    <2>3. CASE d = r.row \/ e = r.row
      BY <1>10, <1>11, <2>1, <2>3
    <2>4. CASE d # r.row /\ e # r.row
      BY <1>2, <1>4, <2>2, <2>4 DEF Kept, Unshared
    <2> QED
      BY <2>3, <2>4
  <1> QED
    BY <1>1, <1>2, <1>15, <1>16, <1>17, <1>18 DEF Kept, FewAttached

LEMMA UnshelveKept ==
    ASSUME HInv, NEW k \in Upload, CommitUnshelve(k), ~clobbered' PROVE Kept'
  <1> DEFINE r == upload[k]
  <1>1. /\ r.kind = "unshelve" /\ UNCHANGED <<asked, attached>>
        /\ shelf' = [shelf EXCEPT ![r.row] = [@ EXCEPT !.state = "deleted"]]
        /\ clobbered' = (clobbered \/ shelf[r.row] # r.seen)
    BY DEF CommitUnshelve, Over
  <1>2. Kept
    BY <1>1 DEF HInv
  <1>3. shelf \in [Doc -> KBDocument] /\ r.row \in Doc
    BY <1>1 DEF HInv, BInv, LibraryTypeOK, WellFormed
  <1>4. \A row \in KBDocument :
           /\ [row EXCEPT !.state = "deleted"].state = "deleted"
           /\ [row EXCEPT !.state = "deleted"].file = row.file
           /\ [row EXCEPT !.state = "deleted"].version = row.version
           /\ [row EXCEPT !.state = "deleted"].previous = row.previous
    BY DEF KBDocument
  <1> HIDE DEF r
  <1>5. \A d \in Doc :
           /\ shelf'[d].file = shelf[d].file /\ shelf'[d].version = shelf[d].version
           /\ shelf'[d].previous = shelf[d].previous
           /\ shelf'[d].state \in {shelf[d].state, "deleted"}
    BY <1>1, <1>3, <1>4
  <1>6. \A d \in Doc : shelf[d].previous # None => shelf[d].previous \in Doc
    BY <1>3 DEF KBDocument
  <1>7. ASSUME NEW d \in Doc PROVE Chained(d)'
    BY <1>2, <1>5, <1>6 DEF Kept, Chained
  <1>8. Unshared'
    BY <1>2, <1>5 DEF Kept, Unshared
  <1> QED
    BY <1>1, <1>2, <1>7, <1>8 DEF Kept, FewAttached

LEMMA AttachKept ==
    ASSUME HInv, NEW k \in Upload, CommitAttach(k), ~clobbered' PROVE Kept'
  <1> DEFINE r == upload[k]
  <1>1. /\ Cardinality(r.seen) < MaxDocuments /\ attached' = attached \cup {r.file}
        /\ clobbered' = (clobbered \/ attached # r.seen)
        /\ UNCHANGED <<asked, shelf>>
    BY DEF CommitAttach, Over
  <1>2. Kept /\ attached = r.seen
    BY <1>1 DEF HInv
  <1>3. IsFiniteSet(attached) /\ Cardinality(attached) \in Nat
    BY <1>2, FS_CardinalityType DEF Kept, FewAttached
  <1>4. /\ IsFiniteSet(attached') /\ Cardinality(attached') <= Cardinality(attached) + 1
    BY <1>1, <1>3, FS_AddElement
  <1>5. Cardinality(attached') \in Nat
    BY <1>4, FS_CardinalityType
  <1>6. FewAttached'
    BY <1>1, <1>2, <1>3, <1>4, <1>5, LibraryAssumption DEF FewAttached
  <1> QED
    BY <1>1, <1>2, <1>6 DEF Kept, Chained, Unshared

LEMMA DetachKept ==
    ASSUME Kept, NEW f \in File, Detach(f) PROVE Kept'
  <1>1. attached' = attached \ {f} /\ UNCHANGED <<asked, shelf>>
    BY DEF Detach
  <1>2. IsFiniteSet(attached) /\ Cardinality(attached) \in Nat
    BY FS_CardinalityType DEF Kept, FewAttached
  <1>3. attached' \in SUBSET attached
    BY <1>1
  <1>4. IsFiniteSet(attached') /\ Cardinality(attached') <= Cardinality(attached)
    BY <1>2, <1>3, FS_Subset
  <1>5. Cardinality(attached') \in Nat
    BY <1>4, FS_CardinalityType
  <1>6. FewAttached'
    BY <1>2, <1>4, <1>5, LibraryAssumption DEF Kept, FewAttached
  <1> QED
    BY <1>1, <1>6 DEF Kept, Chained, Unshared

LEMMA AskForKept ==
    ASSUME HInv, Kept, NEW q \in DocRequest, AskFor(q) PROVE Kept'
  <1>1. /\ asked[q].status = "absent" /\ UNCHANGED <<shelf, attached>>
        /\ asked' = [asked EXCEPT ![q] = [@ EXCEPT !.status = "pending"]]
    BY DEF AskFor
  <1>2. asked \in [DocRequest -> Asked]
    BY DEF HInv, BInv, LibraryTypeOK
  <1>3. OneAnswer(asked[q])
    BY DEF Kept
  <1>4. OneAnswer([asked[q] EXCEPT !.status = "pending"])
    BY <1>1, <1>2, <1>3 DEF OneAnswer, Asked
  <1>5. \A p \in DocRequest : OneAnswer(asked'[p])
    BY <1>1, <1>2, <1>4 DEF Kept
  <1> QED
    BY <1>1, <1>5 DEF Kept, FewAttached, Chained, Unshared

LEMMA LibraryNextHInv == HInv /\ [LibraryNext]_libraryVars => HInv'
  <1> SUFFICES ASSUME HInv, [LibraryNext]_libraryVars PROVE HInv'
    OBVIOUS
  <1>1. BInv' /\ \A k \in Upload : Requested(upload'[k])
    BY LibraryNextBInv, RequestedStep DEF HInv
  <1>2. ASSUME UNCHANGED <<asked, shelf, attached, clobbered>> PROVE clobbered' \/ Kept'
    BY <1>2 DEF HInv, Kept, Chained, Unshared, FewAttached
  <1>3. ASSUME NEW k \in Upload, Receive(k) PROVE clobbered' \/ Kept'
    <2>1. UNCHANGED <<asked, shelf, attached, clobbered>>
      BY <1>3 DEF Receive, BeginShelve, BeginAttach, BeginRevise, BeginFulfil,
                  BeginDecline, BeginUnshelve, Serve
    <2> QED
      BY <1>2, <2>1
  <1>4. ASSUME NEW k \in Upload, Finish(k) PROVE clobbered' \/ Kept'
    <2>1. CASE Refuse(k) \/ DropUpload(k)
      BY <1>2, <2>1 DEF Refuse, DropUpload
    <2> QED
      BY <1>4, <2>1, FulfilKept, DeclineKept, ShelveKept, ReviseKept, UnshelveKept,
         AttachKept
      DEF Finish
  <1>5. ASSUME NEW q \in DocRequest, AskFor(q) PROVE clobbered' \/ Kept'
    BY <1>5, AskForKept DEF HInv, AskFor
  <1>6. ASSUME NEW f \in File, Detach(f) PROVE clobbered' \/ Kept'
    BY <1>6, DetachKept DEF HInv, Detach
  <1>7. ASSUME UNCHANGED libraryVars PROVE clobbered' \/ Kept'
    BY <1>2, <1>7 DEF libraryVars
  <1>8. clobbered' \/ Kept'
    BY <1>3, <1>4, <1>5, <1>6, <1>7 DEF LibraryNext
  <1> QED
    BY <1>1, <1>8 DEF HInv

(* No version of a document is lost, no request is answered twice and no   *)
(* attachment is one too many, for any number of documents, files and      *)
(* requests being served, as long as no request writes over rows that have *)
(* changed since it read them.                                             *)
THEOREM HistoryIsKept == LibrarySpec => []HistoryKept
  <1>1. HInv => HistoryKept
    BY DEF HInv, Kept, Chained, Unshared, OneAnswer, FewAttached, HistoryKept
  <1> QED
    BY <1>1, LibraryInitHInv, LibraryNextHInv, PTL DEF LibrarySpec
=============================================================================
