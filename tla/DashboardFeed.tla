---------------------------- MODULE DashboardFeed ----------------------------
(***************************************************************************)
(* The dashboard's picture of the payments: the list it fetches once, the  *)
(* updates published through Redis and sent on as server-sent events, the  *)
(* one PIN prompt it keeps, and the two that answer the prompt, the PIN    *)
(* modal and auto-approve.                                                 *)
(*                                                                         *)
(* A payment is PENDING, PROCESSING or DONE (SUCCESS or FAILED).  Who      *)
(* changes its row publishes what it then reads, and goes on when that is  *)
(* published.  Redis keeps nothing for a dashboard that is not connected.  *)
(* React renders after one or more of the state updates that ask for it.   *)
(***************************************************************************)
EXTENDS Naturals, FiniteSets, SequencesExt

CONSTANTS Payments, NoPayment,
          Slots,      \* jobs the transaction workers run at a time
          MaxStream,  \* messages on their way at a time
          MaxPosts,   \* requests of the PIN modal under way at a time
          MaxToggles, \* how often auto-approve is switched
          Faults,     \* the kinds of fault the environment may inject
          MaxFaults   \* and how many in one behaviour

ASSUME FeedAssumption ==
  /\ NoPayment \notin Payments
  /\ Slots \in Nat \ {0}
  /\ {MaxStream, MaxPosts, MaxToggles} \subseteq Nat
  /\ Faults \subseteq {"publish", "link", "query", "network", "retry"}
  /\ MaxFaults \in Nat

VARIABLES
  row,       \* the payment's status in the database
  owed,      \* how often its status is still to be published
  stream,    \* messages on their way to the dashboard
  link,      \* whether its EventSource is connected
  misled,    \* history: the payments whose last update was lost
  fetch,     \* where the GET of the list is
  answer,    \* the list it was answered with
  list,      \* the transactions shown
  overwritten, \* history: updates of them that the fetched list undid
  pending,   \* pendingPinTx
  auto,      \* autoApprove
  dirty,     \* whether pendingPinTx or autoApprove changed since the last render
  shown,     \* the payment the PIN modal on the screen names
  pin,       \* the payment it named when the PIN in it was typed
  autoPosts, \* the payments auto-approve's requests are for
  sent,      \* history: the payments a PIN or a cancellation was sent for
  overtaken, \* history: those whose prompt another took away before that
  posts,     \* the modal's requests
  toggles, faults

vars == <<row, owed, stream, link, misled, fetch, answer, list, overwritten,
          pending, auto, dirty, shown, pin, autoPosts, sent, overtaken, posts, toggles, faults>>
source == <<row, owed>>
wire == <<stream, link, misled>>
feed == <<fetch, answer, list, overwritten>>
prompt == <<pending, auto, dirty, overtaken, toggles>>
modal == <<shown, pin, posts>>
approvals == <<autoPosts, sent>>

Status == {"none", "PENDING", "PROCESSING", "DONE"}

\* The dashboard is gone once a render has thrown.
Mounted == fetch # "blank"
Lists == [Payments -> Status]
Unknown == [p \in Payments |-> "none"]
Posts == [kind : {"pin", "cancel"}, of : Payments, answer : {"none", "ok", "refused", "closed"},
          live : BOOLEAN]

Init ==
  /\ row = Unknown
  /\ owed = [p \in Payments |-> 0]
  /\ stream = <<>>
  /\ link = FALSE
  /\ misled = {}
  /\ fetch = "sent"
  /\ answer = Unknown
  /\ list = Unknown
  /\ overwritten = {}
  /\ pending = NoPayment
  /\ auto = TRUE
  /\ dirty = FALSE
  /\ shown = NoPayment
  /\ pin = NoPayment
  /\ autoPosts = {}
  /\ sent = {}
  /\ overtaken = {}
  /\ posts = {}
  /\ toggles = 0
  /\ faults = 0

Fault(kind) ==
  /\ kind \in Faults
  /\ faults < MaxFaults
  /\ faults' = faults + 1

-----------------------------------------------------------------------------
(***************************************************************************)
(* The API and the transaction workers, as far as they publish             *)
(***************************************************************************)

Becomes(p, status, times) ==
  /\ owed[p] = 0
  /\ row' = [row EXCEPT ![p] = status]
  /\ owed' = [owed EXCEPT ![p] = times]
  /\ UNCHANGED <<wire, feed, prompt, modal, approvals, faults>>

\* insertTransactionOutbox
Insert(p) == row[p] = "none" /\ Becomes(p, "PENDING", 1)

\* The payments whose jobs are being executed.
InWork == {p \in Payments : row[p] = "PROCESSING" \/ (row[p] = "DONE" /\ owed[p] > 0)}

\* processTransaction, phase 1
Process(p) ==
  /\ row[p] = "PENDING" /\ Cardinality(InWork) < Slots
  /\ Becomes(p, "PROCESSING", 1)

\* A PIN, a cancellation or the timer decides; the processor publishes once more.
Settle(p) == row[p] = "PROCESSING" /\ Becomes(p, "DONE", 2)

\* Phase 1 fails; only the processor publishes.
Reject(p) ==
  /\ row[p] = "PENDING" /\ Cardinality(InWork) < Slots
  /\ Becomes(p, "DONE", 1)

\* A job that is run again ignores a payment it finds in flight or settled, but
\* announces it (a settled one more than once; the repetition changes nothing).
Retry(p) ==
  /\ Fault("retry")
  /\ row[p] \in {"PROCESSING", "DONE"} /\ owed[p] = 0
  /\ row[p] = "DONE" => Cardinality(InWork) < Slots
  /\ owed' = [owed EXCEPT ![p] = 1]
  /\ UNCHANGED <<row, wire, feed, prompt, modal, approvals>>

\* publish, Redis and streamTransactionsController.
Publish(p) ==
  /\ owed[p] > 0
  /\ owed' = [owed EXCEPT ![p] = @ - 1]
  /\ IF link THEN /\ Len(stream) < MaxStream
                  /\ stream' = Append(stream, [of |-> p, status |-> row[p]])
                  /\ misled' = misled \ {p}
             ELSE misled' = misled \cup {p} /\ UNCHANGED stream
  /\ UNCHANGED link
  /\ UNCHANGED <<row, feed, prompt, modal, approvals, faults>>

\* The webhook worker announces a payment again after each attempt to deliver its
\* webhook; nobody depends on that, so one that is lost misleads nobody.
LogAttempt(p) ==
  /\ row[p] = "DONE" /\ owed[p] = 0
  /\ link /\ Len(stream) < MaxStream
  /\ stream' = Append(stream, [of |-> p, status |-> row[p]])
  /\ misled' = misled \ {p}
  /\ UNCHANGED link
  /\ UNCHANGED <<source, feed, prompt, modal, approvals, faults>>

\* The worker logs the error and goes on.
PublishFails(p) ==
  /\ Fault("publish")
  /\ owed[p] > 0
  /\ owed' = [owed EXCEPT ![p] = @ - 1]
  /\ misled' = misled \cup {p}
  /\ UNCHANGED <<row, stream, link, feed, prompt, modal, approvals>>

\* EventSource connects, and connects again, by itself.
Connect ==
  /\ ~link /\ Mounted
  /\ link' = TRUE
  /\ UNCHANGED <<source, stream, misled, feed, prompt, modal, approvals, faults>>

\* What was on its way is lost.
Disconnect ==
  /\ Fault("link")
  /\ link
  /\ link' = FALSE
  /\ stream' = <<>>
  /\ misled' = misled \cup {stream[i].of : i \in DOMAIN stream}
  /\ UNCHANGED <<source, feed, prompt, modal, approvals>>

-----------------------------------------------------------------------------
(***************************************************************************)
(* useDashboardTransactions                                                *)
(***************************************************************************)

\* getTransactionsController: the rows of one moment, or an error as JSON.
AnswerFetch ==
  /\ fetch = "sent"
  /\ \/ fetch' = "answered" /\ answer' = row /\ UNCHANGED faults
     \/ fetch' = "error" /\ UNCHANGED answer /\ Fault("query")
     \/ fetch' = "done" /\ UNCHANGED answer /\ Fault("network")
  /\ UNCHANGED <<source, wire, list, overwritten, prompt, modal, approvals>>

\* The answer replaces the list, whatever updates that has had.
ApplyFetch ==
  /\ fetch = "answered"
  /\ fetch' = "done"
  /\ list' = answer
  /\ answer' = Unknown
  /\ overwritten' = {p \in Payments : list[p] \notin {"none", answer[p]}}
  /\ UNCHANGED <<source, wire, prompt, modal, approvals, faults>>

\* An error object has no filter(): useDashboardDerivedMetrics throws, React
\* takes the dashboard away, and its EventSource is closed.
ApplyError ==
  /\ fetch = "error"
  /\ fetch' = "blank"
  /\ stream' = <<>>
  /\ link' = FALSE
  /\ shown' = NoPayment
  /\ pin' = NoPayment
  /\ pending' = NoPayment
  /\ dirty' = FALSE
  /\ UNCHANGED <<source, misled, answer, list, overwritten, auto, overtaken, toggles,
                 approvals, posts, faults>>

\* The one whose prompt goes unanswered if its place is taken or cleared now.
Unanswered == {pending} \ (sent \cup {NoPayment})

\* mutant: the update itself
PromptWhole(p) ==
  /\ pending' = [of |-> p, status |-> "PROCESSING"]
  /\ dirty' = TRUE
  /\ overtaken' = (overtaken \cup Unanswered) \ {p}

\* setPendingPinTx(update of p): even the same payment is a new object.
Prompt(p) ==
  /\ pending' = p
  /\ dirty' = TRUE
  /\ overtaken' = (overtaken \cup Unanswered) \ {p}

\* setPendingPinTx(null), whoever is pending.
ClosePrompt ==
  /\ pending' = NoPayment
  /\ dirty' = (dirty \/ pending # NoPayment)

\* mutants: a prompt stays until it is answered; updates of unknown payments are dropped
OnMessageKeeping ==
  LET m == Head(stream) IN
  /\ Mounted /\ stream # <<>>
  /\ stream' = Tail(stream)
  /\ list' = [list EXCEPT ![m.of] = m.status]
  /\ overwritten' = overwritten \ {m.of}
  /\ IF m.status = "PROCESSING" THEN Prompt(m.of) ELSE UNCHANGED <<pending, dirty, overtaken>>
  /\ UNCHANGED <<source, link, misled, fetch, answer, auto, toggles, modal, approvals,
                 faults>>

OnMessageKnownOnly ==
  LET m == Head(stream) IN
  /\ Mounted /\ stream # <<>>
  /\ stream' = Tail(stream)
  /\ list' = [list EXCEPT ![m.of] = IF @ = "none" THEN @ ELSE m.status]
  /\ overwritten' = overwritten \ {m.of}
  /\ IF m.status = "PROCESSING" THEN Prompt(m.of)
     ELSE /\ IF pending = m.of THEN ClosePrompt ELSE UNCHANGED <<pending, dirty>>
          /\ UNCHANGED overtaken
  /\ UNCHANGED <<source, link, misled, fetch, answer, auto, toggles, modal, approvals,
                 faults>>

\* eventSource.onmessage
OnMessage ==
  LET m == Head(stream) IN
  /\ Mounted /\ stream # <<>>
  /\ stream' = Tail(stream)
  /\ list' = [list EXCEPT ![m.of] = m.status]
  /\ overwritten' = overwritten \ {m.of}
  /\ IF m.status = "PROCESSING" THEN Prompt(m.of)
     ELSE /\ IF pending = m.of THEN ClosePrompt ELSE UNCHANGED <<pending, dirty>>
          /\ UNCHANGED overtaken
  /\ UNCHANGED <<source, link, misled, fetch, answer, auto, toggles, modal, approvals,
                 faults>>

-----------------------------------------------------------------------------
(***************************************************************************)
(* Rendering, auto-approve and the PIN modal                               *)
(***************************************************************************)

Toggle ==
  /\ Mounted /\ toggles < MaxToggles
  /\ toggles' = toggles + 1
  /\ auto' = ~auto
  /\ dirty' = TRUE
  /\ UNCHANGED <<source, wire, feed, pending, overtaken, modal, approvals, faults>>

\* The modal's state goes; its requests go on.
Unmount ==
  /\ pin' = NoPayment
  /\ posts' = {[x EXCEPT !.live = FALSE] : x \in {y \in posts : y.answer # "closed"}}

\* mutant: the effect depends on autoApprove alone
RenderForgetful ==
  /\ Mounted /\ dirty
  /\ dirty' = FALSE
  /\ shown' = IF auto THEN NoPayment ELSE pending
  /\ IF NoPayment \in {shown, shown'}
       THEN Unmount
       ELSE UNCHANGED <<pin, posts>>
  /\ UNCHANGED <<source, wire, feed, pending, auto, overtaken, toggles, approvals, faults>>

\* The modal is one component whatever payment it names: only closing it takes
\* away what was typed.  The effect of useAutoApprovePin runs after the render.
Render ==
  /\ Mounted /\ dirty
  /\ dirty' = FALSE
  /\ shown' = IF auto THEN NoPayment ELSE pending
  /\ IF NoPayment \in {shown, shown'}
       THEN Unmount
       ELSE UNCHANGED <<pin, posts>>
  /\ LET posted == IF auto THEN {pending} \ {NoPayment} ELSE {} IN
       /\ autoPosts' = autoPosts \cup posted
       /\ sent' = sent \cup posted
  /\ UNCHANGED <<source, wire, feed, pending, auto, overtaken, toggles, faults>>

\* verifyPin: any answer, also a refusal, closes the prompt of the moment.
AutoAnswered(p) ==
  /\ p \in autoPosts /\ Mounted
  /\ autoPosts' = autoPosts \ {p}
  /\ \/ ClosePrompt /\ overtaken' = overtaken \cup Unanswered /\ UNCHANGED faults
     \/ UNCHANGED <<pending, dirty, overtaken>> /\ Fault("network")
  /\ UNCHANGED <<source, wire, feed, auto, toggles, sent, modal>>

Submitting == \E x \in posts : x.live

TypePin ==
  /\ shown # NoPayment /\ pin = NoPayment /\ ~Submitting
  /\ pin' = shown
  /\ UNCHANGED <<source, wire, feed, prompt, shown, posts, approvals, faults>>

ErasePin ==
  /\ pin # NoPayment /\ ~Submitting
  /\ pin' = NoPayment
  /\ UNCHANGED <<source, wire, feed, prompt, shown, posts, approvals, faults>>

Post(kind) ==
  /\ Cardinality(posts) < MaxPosts
  /\ posts' = posts \cup {[kind |-> kind, of |-> shown, answer |-> "none", live |-> TRUE]}
  /\ sent' = sent \cup {shown}
  /\ UNCHANGED <<source, wire, feed, prompt, shown, pin, autoPosts, faults>>

SubmitPin == pin # NoPayment /\ ~Submitting /\ Post("pin")
Cancel == shown # NoPayment /\ ~Submitting /\ Post("cancel")

\* verifyPin and cancelTransaction; a network error is a refusal to the modal.
Handle(x) ==
  LET answers(a) == posts' = (posts \ {x}) \cup {[x EXCEPT !.answer = a]}
      accepted == x.kind = "cancel" \/ row[x.of] = "PROCESSING" IN
  /\ x.answer = "none"
  /\ \/ answers(IF accepted THEN "ok" ELSE "refused") /\ UNCHANGED faults
     \/ answers("refused") /\ Fault("network")
  /\ UNCHANGED <<source, wire, feed, prompt, shown, pin, approvals>>

\* handleSubmit and handleCancel after the await.  A cancellation leaves the
\* buttons disabled: it expects the modal to close.
Answered(x) ==
  /\ x.answer \in {"ok", "refused"} /\ Mounted
  /\ IF x.answer = "ok"
       THEN ClosePrompt /\ overtaken' = overtaken \cup Unanswered
       ELSE UNCHANGED <<pending, dirty, overtaken>>
  /\ pin' = IF x.live /\ x.kind = "pin" /\ x.answer = "refused" THEN NoPayment ELSE pin
  /\ posts' = (posts \ {x}) \cup
       (IF x.live /\ x.kind = "cancel" /\ x.answer = "ok"
          THEN {[x EXCEPT !.answer = "closed"]} ELSE {})
  /\ UNCHANGED <<source, wire, feed, auto, toggles, shown, approvals, faults>>

-----------------------------------------------------------------------------
Source(p) == Insert(p) \/ Process(p) \/ Settle(p) \/ Reject(p) \/ Publish(p) \/ LogAttempt(p)

Browser == Connect \/ ApplyFetch \/ ApplyError \/ OnMessage

Next ==
  \/ \E p \in Payments :
       Source(p) \/ Retry(p) \/ PublishFails(p) \/ AutoAnswered(p)
  \/ Browser \/ Render \/ AnswerFetch \/ Disconnect
  \/ Toggle \/ TypePin \/ ErasePin \/ SubmitPin \/ Cancel
  \/ \E x \in posts : Handle(x) \/ Answered(x)

Spec == Init /\ [][Next]_vars

-----------------------------------------------------------------------------
(***************************************************************************)
(* Properties                                                              *)
(***************************************************************************)

\* What the variables hold.
TypeOK ==
  /\ row \in Lists /\ answer \in Lists /\ list \in Lists
  /\ owed \in [Payments -> 0..2]
  /\ stream \in Seq([of : Payments, status : Status])
  /\ {link, auto, dirty} \subseteq BOOLEAN
  /\ {misled, overwritten} \subseteq SUBSET Payments
  /\ fetch \in {"sent", "answered", "error", "done", "blank"}
  /\ {pending, shown, pin} \subseteq Payments \cup {NoPayment}
  /\ {autoPosts, sent, overtaken} \subseteq SUBSET Payments
  /\ posts \subseteq Posts
  /\ toggles \in 0..MaxToggles
  /\ faults \in 0..MaxFaults

\* A newer word on p is still to come.
UnderWay(p) ==
  owed[p] > 0 \/ \E i \in DOMAIN stream : stream[i].of = p

\* The list disagrees with the database only while an update is under way,
\* until the fetched list arrives, or when an update was lost or undone by the fetched list that arrived after it.
ListTruthful ==
  Mounted /\ fetch = "done" =>
    \A p \in Payments :
      list[p] # row[p] => UnderWay(p) \/ p \in misled \/ p \in overwritten

\* The prompt is for a payment that is waiting for its PIN, or goes by itself:
\* nobody is left looking at the prompt of a settled payment unless an update
\* was lost.
PromptTruthful ==
  /\ pending # NoPayment =>
       row[pending] = "PROCESSING" \/ UnderWay(pending) \/ pending \in misled
  /\ shown # NoPayment /\ shown # pending => dirty

\* With auto-approve on, no payment waits for its timeout for nothing: once the
\* dashboard knows of it and has rendered, its PIN was sent, unless another
\* payment took its place in the one slot for prompts, or another's answer
\* cleared it, before the effect had run.
AutoAnswers ==
  Mounted /\ auto /\ ~dirty =>
    \A p \in Payments :
      row[p] = "PROCESSING" => UnderWay(p) \/ p \in misled \cup sent \cup overtaken

\* "Every transaction that reaches PROCESSING is automatically approved with the
\* correct PIN", also when two of them wait at a time.
PromptsApproved ==
  Mounted /\ auto /\ ~dirty =>
    \A p \in Payments :
      row[p] = "PROCESSING" => UnderWay(p) \/ p \in misled \cup sent

\* "Enter M-PESA PIN to authorize payment of KES ...": a PIN goes to the payment
\* the modal named when it was typed.
PinAuthorizesItsPayment ==
  [][\A x \in posts' \ posts : x.kind = "pin" /\ x.answer = "none" => x.of = pin]_vars
=============================================================================
