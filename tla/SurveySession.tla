---------------------------- MODULE SurveySession ----------------------------
(***************************************************************************)
(* One survey in front of one respondent: the state machine of             *)
(* @sankofa/pulse (state.ts) as its renderer drives it (renderer.ts), the  *)
(* partial that is posted after every change, the final submission, and    *)
(* the dismissal after which the host shows the survey again and it        *)
(* resumes from the partial (client.ts, plugin.ts).                        *)
(*                                                                         *)
(* The renderer draws one question at a time. What it draws is a field of  *)
(* its own (valueRef), seeded from the recorded answer and recorded again  *)
(* at every input. A file upload and a payment answer later, to the field  *)
(* of the drawing that started them, which may be gone by then: `live`     *)
(* says that it is still the one on the screen. Nothing is awaited before  *)
(* the next click: the buttons work while an upload, a partial or even the *)
(* submission is in flight.                                                *)
(*                                                                         *)
(* The names of the specification begin with "survey", because what is     *)
(* proved of Pulse is proved of this machine and PulseShow in one module.  *)
(***************************************************************************)
EXTENDS SurveyLogic

CONSTANTS Bundles,       \* the bundles: [questions |-> <<..>>, rules |-> <<..>>]
          MaxShowings,   \* bound: how often the survey is shown
          MaxClicks,     \* bound: inputs and clicks in all
          MaxInFlight    \* bound: partials in flight, and likewise uploads

ASSUME SurveyBoundsAssumption ==
  MaxShowings \in Nat \ {0} /\ {MaxClicks, MaxInFlight} \subseteq Nat

(* A bundle has a question. Questions are told apart by their ids, the      *)
(* options of a question by their keys (byId, state.ts:62; options.find).   *)
ASSUME BundlesAssumption ==
  \A b \in Bundles :
    /\ b.questions \in Seq(ToSet(b.questions)) /\ b.questions # <<>>
    /\ b.rules \in Seq(ToSet(b.rules))
    /\ \A i, j \in DOMAIN b.questions : b.questions[i].id = b.questions[j].id => i = j
    /\ \A q \in ToSet(b.questions) :
         /\ q.order \in Int
         /\ q.options \in Seq(ToSet(q.options)) /\ IsInjective(q.options)

VARIABLES
  survey,      \* the bundle on show
  showing,     \* which renderer is the current one, 1..MaxShowings
  visited,     \* its stack of visited questions
  done,        \* it reached the end
  answers,     \* answers[g]: what renderer g has recorded
  screen,      \* "question", "thanks", or "gone" once dismissed
  field,       \* valueRef of the question on the screen
  error,       \* the message drawn under the field
  payable,     \* the Pay button on the screen is enabled
  jobs,        \* uploads and payments in flight
  submits,     \* submissions in flight
  saves,       \* partials in flight, in the order they were posted
  partial,     \* the partial the server holds
  responses,   \* the responses the server has accepted
  clicks,      \* inputs and clicks so far
  ghost        \* history, read by properties only

surveyVars == <<survey, showing, visited, done, answers, screen, field, error, payable,
          jobs, submits, saves, partial, responses, clicks, ghost>>
server == <<partial, responses>>

Order == Sorted(survey.questions)
Question(id) == CHOOSE q \in ToSet(survey.questions) : q.id = id
QuestionIds == {q.id : q \in ToSet(survey.questions)}
NoPartial == [at |-> "none"]
Waiting == \E s \in submits : s.showing = showing

ClickedWhileWaiting == IF Waiting THEN ghost.impatient \cup {showing} ELSE ghost.impatient

-----------------------------------------------------------------------------
(* Recording an answer posts the partial; undefined deletes the answer.    *)

Recorded(ans, id, v) ==
  IF v = Undefined THEN [x \in DOMAIN ans \ {id} |-> ans[x]] ELSE Put(ans, id, v)

(* Mutant: the input is recorded but no partial is posted. *)
RecordUnsaved(g, id, v) ==
  /\ answers' = [answers EXCEPT ![g] = Recorded(answers[g], id, v)]
  /\ UNCHANGED saves

Record(g, id, v) ==
  LET ans == Recorded(answers[g], id, v)
  IN  /\ answers' = [answers EXCEPT ![g] = ans]
      /\ saves' = Append(saves, [showing |-> g, at |-> id, answers |-> ans])

(* Mutant: the last question is drawn although the survey is done. *)
RenderUndone(path, end, ans, message) ==
  LET q == Question(Last(path))
  IN  /\ screen' = "question" /\ field' = Seeded(q, Answer(ans, q.id))
      /\ error' = message /\ payable' = FALSE

(* render(): the thanks screen once done, else the last visited question;  *)
(* whatever was drawn before, and the handlers it had, are detached.       *)
Detached(js) == {[j EXCEPT !.live = FALSE] : j \in js}

Render(path, end, ans, message) ==
  LET q == Question(Last(path))
  IN  /\ screen' = IF end THEN "thanks" ELSE "question"
      /\ field' = IF end THEN Undefined ELSE Seeded(q, Answer(ans, q.id))
      /\ error' = (message /\ ~end)
      /\ payable' = (~end /\ q.kind = "payment")

(* advance(): the index of the next question, or none at the end.          *)
NextQuestion(id, ans) ==
  LET target == ResolveNext(survey.rules, id, ans)
      index == CHOOSE i \in DOMAIN Order : Order[i].id = id
  IN  IF target # FallThrough THEN ({target} \cap QuestionIds) \ {EndOfSurvey}
      ELSE {Order[i].id : i \in {index + 1} \cap DOMAIN Order}

Opened(g, held) ==
  LET ans == IF held = NoPartial THEN <<>> ELSE held.answers
      path == IF held # NoPartial /\ held.at \in QuestionIds THEN <<held.at>> ELSE <<Order[1].id>>
  IN  /\ visited' = path
      /\ answers' = [answers EXCEPT ![g] = ans]
      /\ done' = FALSE
      /\ jobs' = Detached(jobs)
      /\ Render(path, FALSE, ans, FALSE)

SurveyInit ==
  /\ survey \in Bundles
  /\ showing = 1
  /\ visited = <<Order[1].id>>
  /\ done = FALSE
  /\ answers = [g \in 1 .. MaxShowings |-> <<>>]
  /\ screen = "question"
  /\ field = Seeded(Order[1], Undefined)
  /\ error = FALSE
  /\ payable = (Order[1].kind = "payment")
  /\ jobs = {} /\ submits = {} /\ saves = <<>>
  /\ partial = NoPartial
  /\ responses = {}
  /\ clicks = 0
  /\ ghost = [unseen |-> FALSE, impatient |-> {}, cleared |-> {}, late |-> FALSE]

-----------------------------------------------------------------------------
(* The respondent. A click is possible while its button is on the screen.  *)

Current == Last(visited)
Click == /\ screen = "question"
         /\ clicks < MaxClicks
         /\ clicks' = clicks + 1
Room == Len(saves) < MaxInFlight /\ Cardinality(jobs) < MaxInFlight

Input ==
  /\ Click /\ Room
  /\ \E v \in Inputs(Question(Current), field) \ {field} :
       /\ field' = v
       /\ Record(showing, Current, v)
  /\ ghost' = [ghost EXCEPT !.unseen = FALSE]
  /\ UNCHANGED <<survey, showing, visited, done, screen, error, payable, jobs, submits, server>>

(* The file input stays enabled during an upload; the Pay button does not. *)
StartJob(id) == jobs' = jobs \cup {[showing |-> showing, at |-> id, live |-> TRUE, n |-> clicks]}
PickFile ==
  /\ Click /\ Room
  /\ Question(Current).kind = "file"
  /\ StartJob(Current)
  /\ UNCHANGED <<survey, showing, visited, done, answers, screen, field, error, payable,
                 submits, saves, server, ghost>>

Pay ==
  /\ Click /\ Room
  /\ payable
  /\ payable' = FALSE
  /\ StartJob(Current)
  /\ UNCHANGED <<survey, showing, visited, done, answers, screen, field, error,
                 submits, saves, server, ghost>>

(* Next with a required question empty: the error is drawn, the drawing is *)
(* a new one.                                                              *)
Gate ==
  /\ Click
  /\ Question(Current).required /\ IsEmpty(field)
  /\ Render(visited, done, answers[showing], TRUE)
  /\ jobs' = Detached(jobs)
  /\ ghost' = [ghost EXCEPT !.unseen = FALSE, !.impatient = ClickedWhileWaiting]
  /\ UNCHANGED <<survey, showing, visited, done, answers, submits, saves, server>>

(* Mutant: the gate looks at undefined only. *)
PassableUndefined == ~(Question(Current).required /\ field = Undefined)

Passable == ~(Question(Current).required /\ IsEmpty(field))

(* Next: the field is recorded and saved, then branching decides. At the   *)
(* end the submission starts and the question stays on the screen; when    *)
(* the end was reached before, advance() says so at once and the answers   *)
(* are submitted again.                                                    *)
Advance ==
  /\ Click /\ Room
  /\ Passable
  /\ Record(showing, Current, field)
  /\ LET ans == answers'[showing]
         next == IF done THEN {} ELSE NextQuestion(Current, ans)
     IN  IF next = {}
         THEN /\ done' = TRUE
              /\ submits' = submits \cup {[showing |-> showing, path |-> visited,
                                           answers |-> ans, n |-> clicks]}
              /\ error' = error
              /\ UNCHANGED <<visited, screen, field, payable, jobs>>
              /\ ghost' = [ghost EXCEPT !.impatient = ClickedWhileWaiting]
         ELSE /\ \E id \in next :
                   /\ visited' = Append(visited, id)
                   /\ Render(Append(visited, id), FALSE, ans, FALSE)
              /\ jobs' = Detached(jobs)
              /\ ghost' = [ghost EXCEPT !.unseen = FALSE, !.impatient = ClickedWhileWaiting]
              /\ UNCHANGED <<done, submits>>
  /\ UNCHANGED <<survey, showing, server>>

(* Mutant: the question stepped back to is not drawn. *)
BackUndrawn ==
  /\ Click
  /\ Len(visited) > 1
  /\ done' = FALSE
  /\ visited' = Front(visited)
  /\ ghost' = [ghost EXCEPT !.impatient = ClickedWhileWaiting]
  /\ UNCHANGED <<survey, showing, answers, screen, field, error, payable, jobs,
                 submits, saves, server>>

(* Back, enabled when the question was drawn on a stack of two or more.    *)
(* back() takes the end back before it pops.                               *)
Back ==
  /\ Click
  /\ Len(visited) > 1
  /\ done' = FALSE
  /\ visited' = Front(visited)
  /\ Render(Front(visited), FALSE, answers[showing], FALSE)
  /\ jobs' = Detached(jobs)
  /\ ghost' = [ghost EXCEPT !.unseen = FALSE, !.impatient = ClickedWhileWaiting]
  /\ UNCHANGED <<survey, showing, answers, submits, saves, server>>

Close ==
  /\ screen # "gone"
  /\ screen' = "gone"
  /\ jobs' = Detached(jobs)
  /\ UNCHANGED <<survey, showing, visited, done, answers, field, error, payable,
                 submits, saves, server, clicks, ghost>>

(* The host shows the survey again: a new renderer over the server's       *)
(* partial, whose question it jumps to.                                    *)
Reopen ==
  /\ screen = "gone"
  /\ showing < MaxShowings
  /\ showing' = showing + 1
  /\ Opened(showing', partial)
  /\ ghost' = [ghost EXCEPT !.unseen = FALSE]
  /\ UNCHANGED <<survey, submits, saves, server, clicks>>

-----------------------------------------------------------------------------
(* What answers later.                                                     *)

(* An upload or a payment ends. A live one fills the field; a detached one *)
(* is recorded all the same, and a failed upload deletes the answer.       *)
Ended(j, v) ==
  /\ Len(saves) < MaxInFlight
  /\ Record(j.showing, j.at, v)
  /\ field' = IF j.live THEN v ELSE field
  /\ jobs' = jobs \ {j}
  /\ ghost' = [ghost EXCEPT
       !.unseen = @ \/ (~j.live /\ j.showing = showing /\ screen = "question" /\ j.at = Current),
       !.cleared = IF v = Undefined /\ ~j.live THEN @ \cup {<<j.showing, j.at>>} ELSE @,
       !.late = @ \/ j.showing # showing]
  /\ UNCHANGED <<survey, showing, visited, done, screen, error, submits, server, clicks>>

JobSucceeds == \E j \in jobs : Ended(j, Map("job" :> j.n)) /\ UNCHANGED payable
UploadFails ==
  \E j \in jobs : Question(j.at).kind = "file" /\ Ended(j, Undefined) /\ UNCHANGED payable
PaymentFails ==
  \E j \in jobs :
    /\ Question(j.at).kind = "payment"
    /\ jobs' = jobs \ {j}
    /\ payable' = (payable \/ j.live)
    /\ UNCHANGED <<survey, showing, visited, done, answers, screen, field, error,
                   submits, saves, server, clicks, ghost>>

(* The submission settles; the renderer draws again, unless it was         *)
(* dismissed. After a failure currentError is set, but done stays set too. *)
Settled(s, message) ==
  /\ submits' = submits \ {s}
  /\ IF s.showing = showing /\ screen # "gone"
     THEN /\ Render(visited, done, answers[showing], message)
          /\ jobs' = Detached(jobs)
          /\ ghost' = [ghost EXCEPT !.unseen = FALSE]
     ELSE UNCHANGED <<screen, field, error, payable, jobs, ghost>>
  /\ UNCHANGED <<survey, showing, visited, done, answers, saves, clicks>>

(* The server holds the response; it may drop the partial or keep it.      *)
Accepted(s) ==
  /\ responses' = responses \cup {s}
  /\ partial' \in {partial, NoPartial}

SubmitSucceeds == \E s \in submits : Accepted(s) /\ Settled(s, error)
SubmitFails == \E s \in submits : UNCHANGED server /\ Settled(s, TRUE)
AnswerLost == \E s \in submits : Accepted(s) /\ Settled(s, TRUE)

(* Partials are independent requests: any of them may be the next to       *)
(* arrive, and the last to arrive is the one the server keeps.             *)
SaveArrives ==
  /\ \E i \in DOMAIN saves :
       /\ partial' = saves[i]
       /\ saves' = RemoveAt(saves, i)
       /\ ghost' = [ghost EXCEPT !.late = @ \/ i > 1 \/ saves[i].showing # showing]
  /\ UNCHANGED <<survey, showing, visited, done, answers, screen, field, error, payable,
                 jobs, submits, responses, clicks>>

SaveLost ==
  /\ saves # <<>>
  /\ saves' = Tail(saves)
  /\ ghost' = [ghost EXCEPT !.late = TRUE]
  /\ UNCHANGED <<survey, showing, visited, done, answers, screen, field, error, payable,
                 jobs, submits, server, clicks>>

SurveyNext ==
  \/ Input \/ PickFile \/ Pay \/ Gate \/ Advance \/ Back \/ Close \/ Reopen
  \/ JobSucceeds \/ UploadFails \/ PaymentFails
  \/ SubmitSucceeds \/ SubmitFails \/ AnswerLost \/ SaveArrives \/ SaveLost

SurveySpec == SurveyInit /\ [][SurveyNext]_surveyVars

-----------------------------------------------------------------------------
(* Properties.                                                             *)

(* What the respondent sees in the field is what is recorded for the       *)
(* question on the screen, up to the seed of its kind; the exception is an *)
(* upload or a payment that answered after its drawing was gone.           *)
SeenIsRecorded ==
  screen = "question" /\ ~ghost.unseen =>
    field = Seeded(Question(Current), Answer(answers[showing], Current))

(* A survey whose rules never lead back. *)
Forward ==
  \A i, j \in DOMAIN Order : \A k \in DOMAIN survey.rules :
    LET r == survey.rules[k]
    IN  r.from = Order[i].id /\ r.action = "skip_to" /\ r.to = Order[j].id => i < j

(* The required-question gate: every submission holds an answer to every   *)
(* required question on the path, however often the respondent went back   *)
(* and cleared a field; only an upload that fails after its question was   *)
(* left takes one away. A ranking names every option once, and the best    *)
(* option is never the worst.                                              *)
SubmissionsValid ==
  Forward => \A s \in submits \cup responses :
    /\ \A id \in ToSet(s.path) :
         Question(id).required =>
           ~IsEmpty(Answer(s.answers, id)) \/ <<s.showing, id>> \in ghost.cleared
    /\ \A id \in DOMAIN s.answers :
         LET q == Question(id) v == s.answers[id]
         IN  /\ q.kind = "ranking" => ToSet(v.list) = Keys(q) /\ IsInjective(v.list)
             /\ q.kind = "maxdiff" /\ {"best", "worst"} \subseteq DOMAIN v.map =>
                  v.map["best"] # v.map["worst"]

(* One showing produces more than one response only for a respondent who   *)
(* clicked while a submission was in flight.                               *)
DuplicatesExplained ==
  \A r, s \in submits \cup responses :
    r.showing = s.showing => r = s \/ r.showing \in ghost.impatient

(* Once nothing is in flight, the partial is the last thing the respondent *)
(* did, so a reload loses nothing: unless a partial was lost or overtaken, *)
(* or an earlier renderer wrote after a later one was opened.              *)
DraftSaved ==
  saves = <<>> /\ ~ghost.late /\ responses = {} /\ DOMAIN answers[showing] # {} =>
    partial # NoPartial /\ partial.answers = answers[showing]

(* client.ts: an error has "a shape the renderer can show to the user":    *)
(* the thanks screen is for a response the server holds.                   *)
ThanksMeansSubmitted ==
  screen = "thanks" => \E r \in submits \cup responses : r.showing = showing
=============================================================================
