--------------------------- MODULE DashboardProofs ---------------------------
(***************************************************************************)
(* The list and the PIN prompt follow the database, for any number of      *)
(* payments, workers and messages, whatever updates are lost and whenever  *)
(* the fetched list arrives.                                               *)
(***************************************************************************)
EXTENDS DashboardFeed, TLAPS

\* The last message about a payment says what its row says, unless another is owed
\* or was lost after it.
StreamFresh ==
  \A i \in DOMAIN stream :
    LET p == stream[i].of IN
      \/ \E j \in DOMAIN stream : j > i /\ stream[j].of = p
      \/ owed[p] > 0 \/ p \in misled
      \/ stream[i].status = row[p]

\* ListTruthful from the start: before the fetched list arrives as well as after it.
ListFollows ==
  Mounted => \A p \in Payments :
    list[p] # row[p] => UnderWay(p) \/ p \in misled \/ p \in overwritten

\* The fetched list undoes nothing before it arrives, and knows no payment that
\* the database does not know.
FetchIsOld ==
  /\ fetch # "done" => overwritten = {}
  /\ fetch = "answered" => \A p \in Payments : row[p] = "none" => answer[p] = "none"

\* A PIN that is typed is in a modal on the screen.
PinIsShown == pin # NoPayment => shown # NoPayment

\* A payment that waits for its PIN is the one prompted for, but for those whose
\* PIN was sent, whose prompt was taken away, or who are still to be heard of.
PromptsKept ==
  Mounted => \A p \in Payments :
    row[p] = "PROCESSING" =>
      UnderWay(p) \/ p \in misled \cup sent \cup overtaken \/ p = pending

\* With auto-approve on, whoever is prompted for when a render is done has its PIN
\* sent by the effect.
PromptSent == auto /\ ~dirty /\ pending # NoPayment => pending \in sent

IInv ==
  /\ TypeOK
  /\ StreamFresh
  /\ ListFollows
  /\ FetchIsOld
  /\ PinIsShown
  /\ PromptTruthful
  /\ PromptsKept
  /\ PromptSent

Message == [of : Payments, status : Status]

-----------------------------------------------------------------------------
(***************************************************************************)
(* What the database and the wire do to a reader                           *)
(***************************************************************************)

\* A message on its way is about a payment.
LEMMA Messages ==
  ASSUME TypeOK
  PROVE  /\ stream \in Seq(Message)
         /\ \A i \in DOMAIN stream : stream[i].of \in Payments
<1>1. stream \in Seq(Message)
  BY DEF TypeOK, Message
<1>2. \A i \in DOMAIN stream : stream[i] \in Message
  BY <1>1
<1> QED BY <1>1, <1>2 DEF Message

\* A message that is published is behind those on their way.
LEMMA Appended ==
  ASSUME stream \in Seq(Message), NEW m \in Message, stream' = Append(stream, m)
  PROVE  /\ stream' \in Seq(Message)
         /\ DOMAIN stream = 1..Len(stream) /\ Len(stream) \in Nat
         /\ DOMAIN stream' = 1..(Len(stream) + 1)
         /\ stream'[Len(stream) + 1] = m
         /\ \A i \in DOMAIN stream : stream'[i] = stream[i]
OBVIOUS

\* Those on their way move up when the first arrives.
LEMMA MovedUp ==
  ASSUME stream \in Seq(Message), stream # <<>>, stream' = Tail(stream)
  PROVE  /\ stream' \in Seq(Message)
         /\ 1 \in DOMAIN stream /\ Head(stream) = stream[1] /\ stream[1] \in Message
         /\ DOMAIN stream \subseteq Nat \ {0}
         /\ \A i \in DOMAIN stream' : i \in Nat /\ i + 1 \in DOMAIN stream
                                      /\ stream'[i] = stream[i + 1]
         /\ \A i \in DOMAIN stream : i = 1 \/ (i - 1 \in DOMAIN stream'
                                               /\ stream'[i - 1] = stream[i])
OBVIOUS

\* What a reader depends on: no payment vanishes from the database, a word that is
\* to come, or was lost, stays so, and every change of a row is announced.
Announced ==
  \A q \in Payments :
    /\ row'[q] = "none" => row[q] = "none"
    /\ UnderWay(q) \/ q \in misled => UnderWay(q)' \/ q \in misled'
    /\ row'[q] = row[q] \/ UnderWay(q)'

\* A committed row owes its publications.
LEMMA BecomesStep ==
  ASSUME TypeOK, StreamFresh, NEW p \in Payments, NEW status \in Status \ {"none"},
         NEW times \in 1..2, Becomes(p, status, times)
  PROVE  TypeOK' /\ StreamFresh' /\ Announced
<1>1. /\ row' = [row EXCEPT ![p] = status] /\ owed' = [owed EXCEPT ![p] = times]
      /\ UNCHANGED <<wire, feed, prompt, modal, approvals, faults>>
  BY DEF Becomes
<1>2. /\ row' \in Lists /\ owed' \in [Payments -> 0..2]
      /\ row'[p] = status /\ owed'[p] > 0
      /\ \A q \in Payments \ {p} : row'[q] = row[q] /\ owed'[q] = owed[q]
  BY <1>1 DEF TypeOK, Lists
<1>3. TypeOK'
  BY <1>1, <1>2 DEF TypeOK, wire, feed, prompt, modal, approvals
<1>4. UNCHANGED <<stream, misled>>
  BY <1>1 DEF wire
<1>5. \A i \in DOMAIN stream : stream[i].of \in Payments
  BY Messages
<1>6. StreamFresh'
  BY <1>2, <1>4, <1>5 DEF StreamFresh
<1>7. Announced
  BY <1>2, <1>4 DEF Announced, UnderWay
<1> QED BY <1>3, <1>6, <1>7

\* A message that gets on its way says what the row says.
LEMMA SendStep ==
  ASSUME TypeOK, StreamFresh, NEW p \in Payments,
         stream' = Append(stream, [of |-> p, status |-> row[p]]), misled' = misled \ {p},
         owed' \in [Payments -> 0..2], \A q \in Payments \ {p} : owed'[q] = owed[q],
         UNCHANGED <<row, link, feed, prompt, modal, approvals, faults>>
  PROVE  TypeOK' /\ StreamFresh' /\ Announced
<1> DEFINE m == [of |-> p, status |-> row[p]]
<1>1. m \in Message /\ stream \in Seq(Message) /\ stream' = Append(stream, m)
      /\ m.of = p /\ m.status = row[p]
  BY DEF TypeOK, Message, Lists
<1> HIDE DEF m
<1>2. /\ stream' \in Seq(Message)
      /\ DOMAIN stream = 1..Len(stream) /\ Len(stream) \in Nat
      /\ DOMAIN stream' = 1..(Len(stream) + 1)
      /\ stream'[Len(stream) + 1] = m
      /\ \A i \in DOMAIN stream : stream'[i] = stream[i]
  BY <1>1, Appended
<1>3. TypeOK'
  BY <1>2 DEF TypeOK, Message, feed, prompt, modal, approvals
<1>4. ASSUME NEW i \in DOMAIN stream'
      PROVE  \/ \E j \in DOMAIN stream' : j > i /\ stream'[j].of = stream'[i].of
             \/ owed'[stream'[i].of] > 0 \/ stream'[i].of \in misled'
             \/ stream'[i].status = row'[stream'[i].of]
  <2>1. CASE i = Len(stream) + 1
    BY <1>1, <1>2, <2>1
  <2>2. CASE i # Len(stream) + 1 /\ stream[i].of = p
    <3>1. i \in 1..Len(stream) /\ stream'[i] = stream[i]
      BY <1>2, <2>2
    <3>2. /\ Len(stream) + 1 \in DOMAIN stream' /\ Len(stream) + 1 > i
          /\ stream'[Len(stream) + 1].of = p
      BY <1>1, <1>2, <3>1
    <3> QED BY <2>2, <3>1, <3>2
  <2>3. CASE i # Len(stream) + 1 /\ stream[i].of # p
    <3>1. i \in DOMAIN stream /\ stream'[i] = stream[i] /\ stream[i].of \in Payments
      BY <1>2, <2>3, Messages
    <3>2. CASE \E j \in DOMAIN stream : j > i /\ stream[j].of = stream[i].of
      BY <1>2, <3>1, <3>2
    <3>3. CASE ~\E j \in DOMAIN stream : j > i /\ stream[j].of = stream[i].of
      BY <2>3, <3>1, <3>3 DEF StreamFresh
    <3> QED BY <3>2, <3>3
  <2> QED BY <2>1, <2>2, <2>3
<1>5. StreamFresh'
  BY <1>4 DEF StreamFresh
<1>6. UnderWay(p)'
  BY <1>1, <1>2 DEF UnderWay
<1>7. Announced
  BY <1>2, <1>6 DEF Announced, UnderWay
<1> QED BY <1>3, <1>5, <1>7

\* A publication reaches the dashboard's connection, or is lost for want of one.
LEMMA PublishStep ==
  ASSUME TypeOK, StreamFresh, NEW p \in Payments, Publish(p)
  PROVE  TypeOK' /\ StreamFresh' /\ Announced
<1>1. /\ owed[p] > 0 /\ owed' = [owed EXCEPT ![p] = @ - 1]
      /\ UNCHANGED <<row, link, feed, prompt, modal, approvals, faults>>
  BY DEF Publish
<1>2. /\ owed' \in [Payments -> 0..2]
      /\ \A q \in Payments \ {p} : owed'[q] = owed[q]
  BY <1>1 DEF TypeOK
<1>3. \A i \in DOMAIN stream : stream[i].of \in Payments
  BY Messages
<1>4. CASE link
  <2>1. stream' = Append(stream, [of |-> p, status |-> row[p]]) /\ misled' = misled \ {p}
    BY <1>4 DEF Publish
  <2> QED BY <1>1, <1>2, <2>1, SendStep
<1>5. CASE ~link
  <2>1. misled' = misled \cup {p} /\ stream' = stream
    BY <1>5 DEF Publish
  <2>2. TypeOK'
    BY <1>1, <1>2, <2>1 DEF TypeOK, feed, prompt, modal, approvals
  <2>3. StreamFresh'
    BY <1>1, <1>3, <2>1 DEF StreamFresh
  <2>4. Announced
    BY <1>1, <1>2, <2>1 DEF Announced, UnderWay
  <2> QED BY <2>2, <2>3, <2>4
<1> QED BY <1>4, <1>5

\* Every step of the database, the API, the workers and the connection.
SourceStep ==
  \/ \E p \in Payments : Source(p) \/ Retry(p) \/ PublishFails(p)
  \/ Connect \/ Disconnect

\* The database's side of the stream, step by step.
LEMMA SourceAnnounces ==
  ASSUME TypeOK, StreamFresh, SourceStep
  PROVE  /\ TypeOK' /\ StreamFresh' /\ Announced
         /\ UNCHANGED <<feed, prompt, modal, approvals>>
<1>1. UNCHANGED <<feed, prompt, modal, approvals>>
  BY DEF SourceStep, Source, Insert, Process, Settle, Reject, Becomes, Retry, Publish,
         LogAttempt, PublishFails, Connect, Disconnect
<1>2. ASSUME NEW p \in Payments, Insert(p) \/ Process(p) \/ Settle(p) \/ Reject(p)
      PROVE  TypeOK' /\ StreamFresh' /\ Announced
  BY <1>2, BecomesStep DEF Insert, Process, Settle, Reject, Status
<1>3. ASSUME NEW p \in Payments, Publish(p)
      PROVE  TypeOK' /\ StreamFresh' /\ Announced
  BY <1>3, PublishStep
<1>9. ASSUME NEW p \in Payments, LogAttempt(p)
      PROVE  TypeOK' /\ StreamFresh' /\ Announced
  <2>1. /\ stream' = Append(stream, [of |-> p, status |-> row[p]]) /\ misled' = misled \ {p}
        /\ UNCHANGED <<row, owed, link, faults>>
    BY <1>9 DEF LogAttempt, source
  <2> QED BY <1>1, <2>1, SendStep DEF TypeOK
<1>4. \A i \in DOMAIN stream : stream[i].of \in Payments
  BY Messages
<1>5. ASSUME NEW p \in Payments, Retry(p)
      PROVE  TypeOK' /\ StreamFresh' /\ Announced
  <2>1. /\ owed' = [owed EXCEPT ![p] = 1] /\ faults' \in 0..MaxFaults
        /\ UNCHANGED <<row, wire>>
    BY <1>5, FeedAssumption DEF Retry, Fault, TypeOK
  <2>2. TypeOK'
    BY <1>1, <2>1 DEF TypeOK, wire, feed, prompt, modal, approvals
  <2>3. StreamFresh'
    BY <1>4, <2>1 DEF StreamFresh, TypeOK, wire
  <2>4. Announced
    BY <2>1 DEF Announced, UnderWay, TypeOK, wire
  <2> QED BY <2>2, <2>3, <2>4
<1>6. ASSUME NEW p \in Payments, PublishFails(p)
      PROVE  TypeOK' /\ StreamFresh' /\ Announced
  <2>1. /\ owed' = [owed EXCEPT ![p] = @ - 1] /\ owed[p] > 0 /\ faults' \in 0..MaxFaults
        /\ misled' = misled \cup {p} /\ UNCHANGED <<row, stream, link>>
    BY <1>6, FeedAssumption DEF PublishFails, Fault, TypeOK
  <2>2. TypeOK'
    BY <1>1, <2>1 DEF TypeOK, feed, prompt, modal, approvals
  <2>3. StreamFresh'
    BY <1>4, <2>1 DEF StreamFresh, TypeOK
  <2>4. Announced
    BY <2>1 DEF Announced, UnderWay, TypeOK
  <2> QED BY <2>2, <2>3, <2>4
<1>7. CASE Connect
  <2>1. link' = TRUE /\ UNCHANGED <<row, owed, stream, misled, faults>>
    BY <1>7 DEF Connect, source
  <2>2. TypeOK'
    BY <1>1, <2>1 DEF TypeOK, feed, prompt, modal, approvals
  <2> QED BY <1>1, <2>1, <2>2 DEF StreamFresh, Announced, UnderWay
<1>8. CASE Disconnect
  <2>1. /\ link' = FALSE /\ stream' = <<>> /\ faults' \in 0..MaxFaults
        /\ misled' = misled \cup {stream[i].of : i \in DOMAIN stream}
        /\ UNCHANGED <<row, owed>>
    BY <1>8, FeedAssumption DEF Disconnect, Fault, TypeOK, source
  <2>2. misled' \in SUBSET Payments
    BY <1>4, <2>1 DEF TypeOK
  <2>3. stream' \in Seq([of : Payments, status : Status])
    BY <2>1
  <2>4. TypeOK'
    BY <1>1, <2>1, <2>2, <2>3 DEF TypeOK, feed, prompt, modal, approvals
  <2>5. StreamFresh'
    BY <2>1 DEF StreamFresh
  <2>6. Announced
    BY <2>1 DEF Announced, UnderWay
  <2> QED BY <1>1, <2>4, <2>5, <2>6
<1> QED BY <1>1, <1>2, <1>3, <1>5, <1>6, <1>7, <1>8, <1>9 DEF SourceStep, Source

\* Such a step leaves the dashboard as true as it was.
LEMMA SourceInv ==
  ASSUME IInv, SourceStep
  PROVE  IInv'
<1>1. TypeOK' /\ StreamFresh' /\ Announced /\ UNCHANGED <<feed, prompt, modal, approvals>>
  BY SourceAnnounces DEF IInv
<1>2. ListFollows'
  BY <1>1 DEF IInv, ListFollows, Announced, Mounted, feed
<1>3. FetchIsOld'
  BY <1>1 DEF IInv, FetchIsOld, Announced, feed
<1>4. PromptTruthful'
  BY <1>1, FeedAssumption DEF IInv, TypeOK, PromptTruthful, Announced, prompt, modal
<1>5. PinIsShown' /\ PromptSent'
  BY <1>1 DEF IInv, PinIsShown, PromptSent, prompt, modal, approvals
<1>6. PromptsKept'
  BY <1>1 DEF IInv, PromptsKept, Announced, Mounted, feed, prompt, approvals
<1> QED BY <1>1, <1>2, <1>3, <1>4, <1>5, <1>6 DEF IInv

-----------------------------------------------------------------------------
(***************************************************************************)
(* The list                                                                *)
(***************************************************************************)

\* The last message about a payment brings the list, and the prompt, up to date.
LEMMA MessageInv ==
  ASSUME IInv, OnMessage
  PROVE  IInv'
<1>0. PICK m : m = Head(stream)
  OBVIOUS
<1>1. /\ Mounted /\ stream # <<>> /\ stream' = Tail(stream)
      /\ list' = [list EXCEPT ![m.of] = m.status]
      /\ overwritten' = overwritten \ {m.of}
      /\ IF m.status = "PROCESSING" THEN Prompt(m.of)
         ELSE /\ IF pending = m.of THEN ClosePrompt ELSE UNCHANGED <<pending, dirty>>
              /\ UNCHANGED overtaken
      /\ UNCHANGED <<row, owed, link, misled, fetch, answer, auto, toggles, shown, pin, posts,
                     autoPosts, sent, faults>>
  BY <1>0 DEF OnMessage, source, modal, approvals
<1>2. TypeOK /\ StreamFresh /\ ListFollows /\ FetchIsOld /\ PinIsShown /\ PromptTruthful
      /\ PromptsKept /\ PromptSent /\ NoPayment \notin Payments
  BY FeedAssumption DEF IInv
<1>3. stream \in Seq(Message)
  BY <1>2, Messages
<1>4. /\ stream' \in Seq(Message)
      /\ 1 \in DOMAIN stream /\ m = stream[1] /\ m \in Message
      /\ DOMAIN stream \subseteq Nat \ {0}
      /\ \A i \in DOMAIN stream' : i \in Nat /\ i + 1 \in DOMAIN stream
                                   /\ stream'[i] = stream[i + 1]
      /\ \A i \in DOMAIN stream : i = 1 \/ (i - 1 \in DOMAIN stream'
                                            /\ stream'[i - 1] = stream[i])
  BY <1>0, <1>1, <1>3, MovedUp
<1>5. m.of \in Payments /\ m.status \in Status
  BY <1>4 DEF Message
<1>6. \A q \in Payments : UnderWay(q) => UnderWay(q)' \/ q = m.of
  <2> SUFFICES ASSUME NEW q \in Payments, UnderWay(q), q # m.of
               PROVE  UnderWay(q)'
    OBVIOUS
  <2>1. CASE owed[q] > 0
    BY <1>1, <2>1 DEF UnderWay
  <2>2. CASE \E i \in DOMAIN stream : stream[i].of = q
    <3>1. PICK i \in DOMAIN stream : stream[i].of = q
      BY <2>2
    <3>2. i # 1
      BY <1>4, <3>1
    <3>3. i - 1 \in DOMAIN stream' /\ stream'[i - 1].of = q
      BY <1>4, <3>1, <3>2
    <3> QED BY <3>3 DEF UnderWay
  <2> QED BY <2>1, <2>2 DEF UnderWay
<1>7. UnderWay(m.of)' \/ m.of \in misled \/ m.status = row[m.of]
  <2>1. CASE \E j \in DOMAIN stream : j > 1 /\ stream[j].of = m.of
    BY <1>4, <2>1 DEF UnderWay
  <2>2. CASE ~\E j \in DOMAIN stream : j > 1 /\ stream[j].of = m.of
    BY <1>1, <1>2, <1>4, <2>2 DEF StreamFresh, UnderWay
  <2> QED BY <2>1, <2>2
<1>8. StreamFresh'
  <2> SUFFICES ASSUME NEW i \in DOMAIN stream'
               PROVE  \/ \E j \in DOMAIN stream' : j > i /\ stream'[j].of = stream'[i].of
                      \/ owed[stream'[i].of] > 0 \/ stream'[i].of \in misled
                      \/ stream'[i].status = row[stream'[i].of]
    BY <1>1 DEF StreamFresh
  <2>1. i \in Nat /\ i + 1 \in DOMAIN stream /\ stream'[i] = stream[i + 1]
    BY <1>4
  <2>2. ASSUME NEW j \in DOMAIN stream, j > i + 1, stream[j].of = stream'[i].of
        PROVE  \E k \in DOMAIN stream' : k > i /\ stream'[k].of = stream'[i].of
    <3>1. j \in Nat /\ j # 1 /\ j - 1 > i
      BY <1>4, <2>1, <2>2
    <3>2. j - 1 \in DOMAIN stream' /\ stream'[j - 1] = stream[j]
      BY <1>4, <3>1
    <3> QED BY <2>2, <3>1, <3>2
  <2> QED BY <1>2, <2>1, <2>2 DEF StreamFresh
<1>9. ListFollows'
  <2> SUFFICES ASSUME NEW p \in Payments, list'[p] # row[p]
               PROVE  UnderWay(p)' \/ p \in misled \/ p \in overwritten'
    BY <1>1 DEF ListFollows
  <2>1. CASE p = m.of
    BY <1>1, <1>2, <1>7, <2>1 DEF TypeOK, Lists
  <2>2. CASE p # m.of
    BY <1>1, <1>2, <1>6, <2>2 DEF TypeOK, Lists, ListFollows
  <2> QED BY <2>1, <2>2
<1>10. FetchIsOld' /\ PinIsShown'
  BY <1>1, <1>2 DEF FetchIsOld, PinIsShown
<1>11. PromptTruthful' /\ PromptSent'
  <2>1. CASE m.status = "PROCESSING"
    BY <1>1, <1>2, <1>5, <1>7, <2>1 DEF Prompt, PromptTruthful, PromptSent
  <2>2. CASE m.status # "PROCESSING" /\ pending = m.of
    BY <1>1, <1>2, <1>5, <2>2 DEF ClosePrompt, PromptTruthful, PromptSent
  <2>3. CASE m.status # "PROCESSING" /\ pending # m.of
    BY <1>1, <1>2, <1>6, <2>3 DEF TypeOK, PromptTruthful, PromptSent
  <2> QED BY <2>1, <2>2, <2>3
<1>12. TypeOK'
  <2>1. /\ dirty' \in BOOLEAN /\ pending' \in Payments \cup {NoPayment}
        /\ overtaken' \in SUBSET Payments
    BY <1>1, <1>2, <1>5 DEF TypeOK, Prompt, ClosePrompt, Unanswered
  <2>2. stream' \in Seq([of : Payments, status : Status])
    BY <1>4 DEF Message
  <2>3. list' \in Lists /\ overwritten' \in SUBSET Payments
    BY <1>1, <1>2, <1>5 DEF TypeOK, Lists
  <2> QED BY <1>1, <1>2, <2>1, <2>2, <2>3 DEF TypeOK
<1>13. PromptsKept'
  <2> SUFFICES ASSUME NEW p \in Payments, row[p] = "PROCESSING", ~UnderWay(p)', p \notin misled,
                      p \notin sent, p \notin overtaken'
               PROVE  p = pending'
    BY <1>1 DEF PromptsKept
  <2>1. CASE p = m.of
    <3>1. m.status = "PROCESSING"
      BY <1>7, <2>1
    <3> QED BY <1>1, <2>1, <3>1 DEF Prompt
  <2>2. CASE p # m.of
    <3>1. p \notin overtaken
      BY <1>1, <2>2 DEF Prompt
    <3>2. p = pending
      BY <1>1, <1>2, <1>6, <2>2, <3>1 DEF PromptsKept
    <3>3. m.status # "PROCESSING"
      BY <1>1, <1>2, <2>2, <3>2 DEF Prompt, Unanswered
    <3> QED BY <1>1, <2>2, <3>2, <3>3
  <2> QED BY <2>1, <2>2
<1> QED BY <1>8, <1>9, <1>10, <1>11, <1>12, <1>13 DEF IInv

\* A payment whose update the fetched list undoes is one whose list entry was newer.
LEMMA FetchInv ==
  ASSUME IInv, AnswerFetch \/ ApplyFetch \/ ApplyError
  PROVE  IInv'
<1>1. TypeOK /\ StreamFresh /\ ListFollows /\ FetchIsOld /\ PinIsShown /\ PromptTruthful
      /\ PromptsKept /\ PromptSent /\ NoPayment \notin Payments
  BY FeedAssumption DEF IInv
<1>2. CASE AnswerFetch
  <2>1. /\ fetch = "sent" /\ fetch' \in {"answered", "error", "done"}
        /\ IF fetch' = "answered" THEN answer' = row ELSE answer' = answer
        /\ faults' \in 0..MaxFaults
        /\ UNCHANGED <<row, owed, stream, link, misled, list, overwritten, pending, auto,
                       dirty, overtaken, toggles, shown, pin, posts, autoPosts, sent>>
    BY <1>1, <1>2, FeedAssumption
       DEF AnswerFetch, Fault, TypeOK, source, wire, prompt, modal, approvals
  <2>2. TypeOK'
    BY <1>1, <2>1 DEF TypeOK
  <2>3. StreamFresh' /\ ListFollows'
    BY <1>1, <2>1 DEF StreamFresh, ListFollows, Mounted, UnderWay
  <2>4. FetchIsOld' /\ PinIsShown' /\ PromptSent'
    BY <1>1, <2>1 DEF FetchIsOld, PinIsShown, PromptSent
  <2>5. PromptTruthful' /\ PromptsKept'
    BY <1>1, <2>1 DEF PromptTruthful, PromptsKept, Mounted, UnderWay
  <2> QED BY <2>2, <2>3, <2>4, <2>5 DEF IInv
<1>3. CASE ApplyFetch
  <2>1. /\ fetch = "answered" /\ fetch' = "done" /\ list' = answer /\ answer' = Unknown
        /\ overwritten' = {p \in Payments : list[p] \notin {"none", answer[p]}}
        /\ UNCHANGED <<row, owed, stream, link, misled, pending, auto, dirty, overtaken,
                       toggles, shown, pin, posts, autoPosts, sent, faults>>
    BY <1>3 DEF ApplyFetch, source, wire, prompt, modal, approvals
  <2>2. TypeOK'
    <3>1. Unknown \in Lists
      BY DEF Unknown, Lists, Status
    <3>2. overwritten' \in SUBSET Payments
      BY <2>1
    <3> QED BY <1>1, <2>1, <3>1, <3>2 DEF TypeOK
  <2>3. ListFollows'
    <3> SUFFICES ASSUME NEW p \in Payments, answer[p] # row[p]
                 PROVE  UnderWay(p) \/ p \in misled \/ p \in overwritten'
      BY <2>1 DEF ListFollows, UnderWay
    <3>1. CASE list[p] # row[p]
      BY <1>1, <2>1, <3>1 DEF ListFollows, FetchIsOld, Mounted
    <3>2. CASE list[p] = row[p]
      BY <1>1, <2>1, <3>2 DEF FetchIsOld
    <3> QED BY <3>1, <3>2
  <2>4. StreamFresh' /\ FetchIsOld' /\ PinIsShown' /\ PromptSent'
    BY <1>1, <2>1 DEF StreamFresh, FetchIsOld, PinIsShown, PromptSent
  <2>5. PromptTruthful' /\ PromptsKept'
    BY <1>1, <2>1 DEF PromptTruthful, PromptsKept, Mounted, UnderWay
  <2> QED BY <2>2, <2>3, <2>4, <2>5 DEF IInv
<1>4. CASE ApplyError
  <2>1. /\ fetch = "error" /\ fetch' = "blank" /\ stream' = <<>> /\ link' = FALSE
        /\ shown' = NoPayment /\ pin' = NoPayment /\ pending' = NoPayment /\ dirty' = FALSE
        /\ UNCHANGED <<row, owed, misled, answer, list, overwritten, auto, overtaken, toggles,
                       autoPosts, sent, posts, faults>>
    BY <1>4 DEF ApplyError, source, approvals
  <2>2. stream' \in Seq([of : Payments, status : Status])
    BY <2>1
  <2>3. TypeOK'
    BY <1>1, <2>1, <2>2 DEF TypeOK
  <2>4. StreamFresh' /\ ListFollows' /\ FetchIsOld'
    BY <1>1, <2>1 DEF StreamFresh, ListFollows, FetchIsOld, Mounted
  <2>5. PinIsShown' /\ PromptTruthful' /\ PromptsKept' /\ PromptSent'
    BY <2>1 DEF PinIsShown, PromptTruthful, PromptsKept, PromptSent, Mounted
  <2> QED BY <2>3, <2>4, <2>5 DEF IInv
<1> QED BY <1>2, <1>3, <1>4

-----------------------------------------------------------------------------
(***************************************************************************)
(* The prompt                                                              *)
(***************************************************************************)

\* Whoever answers the prompt leaves the list and the wire alone, and remembers
\* whom it answered and whose prompt it took away.
LEMMA ReaderInv ==
  ASSUME IInv, UNCHANGED <<source, wire, feed>>, TypeOK',
         PinIsShown', PromptSent', pending' \in {pending, NoPayment},
         sent \subseteq sent', overtaken \subseteq overtaken',
         pending \in {pending', NoPayment} \cup sent' \cup overtaken',
         shown' # NoPayment /\ shown' # pending' => dirty'
  PROVE  IInv'
<1>1. UNCHANGED <<row, owed, stream, link, misled, fetch, answer, list, overwritten>>
  BY DEF source, wire, feed
<1>2. StreamFresh' /\ ListFollows' /\ FetchIsOld'
  BY <1>1 DEF IInv, StreamFresh, ListFollows, FetchIsOld, Mounted, UnderWay
<1>3. PromptTruthful'
  BY <1>1 DEF IInv, PromptTruthful, UnderWay
<1>4. PromptsKept'
  <2> SUFFICES ASSUME NEW p \in Payments, row[p] = "PROCESSING", Mounted,
                      ~UnderWay(p), p \notin misled, p \notin sent', p \notin overtaken'
               PROVE  p = pending'
    BY <1>1 DEF PromptsKept, Mounted, UnderWay
  <2>1. p = pending
    BY DEF IInv, PromptsKept
  <2> QED BY <2>1, FeedAssumption
<1> QED BY <1>2, <1>3, <1>4 DEF IInv

\* setPendingPinTx(null) asks for a render if there is a prompt to take away.
LEMMA Closed ==
  ASSUME IInv, ClosePrompt, overtaken' = overtaken \cup Unanswered, UNCHANGED shown,
         sent \subseteq sent'
  PROVE  /\ pending' = NoPayment /\ dirty' \in BOOLEAN
         /\ overtaken \subseteq overtaken' /\ overtaken' \in SUBSET Payments
         /\ pending \in {NoPayment} \cup sent' \cup overtaken'
         /\ shown' # NoPayment /\ shown' # pending' => dirty'
<1>1. pending' = NoPayment /\ dirty' = (dirty \/ pending # NoPayment)
  BY DEF ClosePrompt
<1>2. dirty' \in BOOLEAN
  BY <1>1
<1>3. overtaken' \in SUBSET Payments /\ pending \in {NoPayment} \cup sent' \cup overtaken'
  BY DEF IInv, TypeOK, Unanswered
<1> QED BY <1>1, <1>2, <1>3 DEF IInv, PromptTruthful

\* The steps that answer the prompt or draw it.
LEMMA PromptInv ==
  ASSUME IInv, Toggle \/ Render \/ \E p \in Payments : AutoAnswered(p)
  PROVE  IInv'
<1>1. TypeOK /\ PinIsShown /\ PromptTruthful /\ PromptSent /\ NoPayment \notin Payments
  BY FeedAssumption DEF IInv
<1>2. CASE Toggle
  <2>1. /\ toggles' \in 0..MaxToggles /\ auto' = ~auto /\ dirty' = TRUE
        /\ UNCHANGED <<source, wire, feed, pending, overtaken, modal, approvals, faults>>
    BY <1>1, <1>2, FeedAssumption DEF Toggle, TypeOK
  <2>2. auto' \in BOOLEAN
    BY <2>1
  <2>3. TypeOK'
    BY <1>1, <2>1, <2>2 DEF TypeOK, source, wire, feed, modal, approvals
  <2>4. PinIsShown' /\ PromptSent'
    BY <1>1, <2>1 DEF PinIsShown, PromptSent, modal
  <2> QED BY <2>1, <2>3, <2>4, ReaderInv DEF approvals
<1>3. CASE Render
  <2>1. /\ dirty' = FALSE /\ shown' = IF auto THEN NoPayment ELSE pending
        /\ autoPosts' = autoPosts \cup (IF auto THEN {pending} \ {NoPayment} ELSE {})
        /\ sent' = sent \cup (IF auto THEN {pending} \ {NoPayment} ELSE {})
        /\ IF NoPayment \in {shown, shown'} THEN Unmount ELSE UNCHANGED <<pin, posts>>
        /\ UNCHANGED <<source, wire, feed, pending, auto, overtaken, toggles, faults>>
    BY <1>3 DEF Render
  <2>2. pin' \in Payments \cup {NoPayment} /\ PinIsShown'
    BY <1>1, <2>1 DEF Unmount, PinIsShown, TypeOK
  <2>3. posts' \subseteq Posts
    <3>1. \A x \in Posts : [x EXCEPT !.live = FALSE] \in Posts
      BY DEF Posts
    <3> QED BY <1>1, <2>1, <3>1 DEF Unmount, TypeOK
  <2>4. {autoPosts', sent'} \subseteq SUBSET Payments /\ shown' \in Payments \cup {NoPayment}
    BY <1>1, <2>1 DEF TypeOK
  <2>5. TypeOK'
    BY <1>1, <2>1, <2>2, <2>3, <2>4 DEF TypeOK, source, wire, feed
  <2>6. PromptSent'
    BY <2>1 DEF PromptSent
  <2>7. shown' # NoPayment => shown' = pending'
    BY <2>1
  <2> QED BY <2>1, <2>2, <2>5, <2>6, <2>7, ReaderInv
<1>4. ASSUME NEW p \in Payments, AutoAnswered(p)
      PROVE  IInv'
  <2>1. /\ autoPosts' = autoPosts \ {p}
        /\ UNCHANGED <<source, wire, feed, auto, toggles, sent, modal>>
    BY <1>4 DEF AutoAnswered
  <2>2. CASE ClosePrompt /\ overtaken' = overtaken \cup Unanswered /\ UNCHANGED faults
    <3>1. /\ pending' = NoPayment /\ dirty' \in BOOLEAN
          /\ overtaken \subseteq overtaken' /\ overtaken' \in SUBSET Payments
          /\ pending \in {NoPayment} \cup sent' \cup overtaken'
          /\ shown' # NoPayment /\ shown' # pending' => dirty'
      BY <2>1, <2>2, Closed DEF modal
    <3>2. TypeOK'
      BY <1>1, <2>1, <2>2, <3>1 DEF TypeOK, source, wire, feed, modal
    <3>3. PinIsShown' /\ PromptSent'
      BY <1>1, <2>1, <3>1 DEF PinIsShown, PromptSent, modal
    <3> QED BY <2>1, <3>1, <3>2, <3>3, ReaderInv
  <2>3. CASE UNCHANGED <<pending, dirty, overtaken>> /\ Fault("network")
    <3>1. faults' \in 0..MaxFaults
      BY <1>1, <2>3, FeedAssumption DEF Fault, TypeOK
    <3>2. TypeOK'
      BY <1>1, <2>1, <2>3, <3>1 DEF TypeOK, source, wire, feed, modal
    <3>3. PinIsShown' /\ PromptSent'
      BY <1>1, <2>1, <2>3 DEF PinIsShown, PromptSent, modal
    <3>4. shown' # NoPayment /\ shown' # pending' => dirty'
      BY <1>1, <2>1, <2>3 DEF PromptTruthful, modal
    <3> QED BY <2>1, <2>3, <3>2, <3>3, <3>4, ReaderInv
  <2> QED BY <1>4, <2>2, <2>3 DEF AutoAnswered
<1> QED BY <1>2, <1>3, <1>4

\* The steps of the PIN modal's user and of its requests.
LEMMA ModalInv ==
  ASSUME IInv,
         \/ TypePin \/ ErasePin \/ SubmitPin \/ Cancel
         \/ \E x \in posts : Handle(x) \/ Answered(x)
  PROVE  IInv'
<1>1. TypeOK /\ PinIsShown /\ PromptTruthful /\ PromptSent /\ NoPayment \notin Payments
      /\ posts \subseteq Posts
  BY FeedAssumption DEF IInv, TypeOK
<1>2. ASSUME UNCHANGED <<source, wire, feed, prompt, shown, autoPosts>>,
             sent \subseteq sent', sent' \in SUBSET Payments,
             faults' \in 0..MaxFaults, posts' \subseteq Posts,
             pin' \in Payments \cup {NoPayment}, pin' # NoPayment => shown # NoPayment
      PROVE  IInv'
  <2>1. TypeOK'
    BY <1>1, <1>2 DEF TypeOK, source, wire, feed, prompt
  <2>2. PinIsShown' /\ PromptSent' /\ UNCHANGED <<pending, overtaken>>
    BY <1>1, <1>2 DEF PinIsShown, PromptSent, prompt
  <2>3. shown' # NoPayment /\ shown' # pending' => dirty'
    BY <1>1, <1>2 DEF PromptTruthful, prompt
  <2> QED BY <1>2, <2>1, <2>2, <2>3, ReaderInv
<1>3. CASE TypePin \/ ErasePin
  <2>1. /\ UNCHANGED <<source, wire, feed, prompt, shown, posts, approvals, faults>>
        /\ pin' \in {shown, NoPayment} /\ (pin' # NoPayment => shown # NoPayment)
    BY <1>3 DEF TypePin, ErasePin
  <2>2. /\ faults' \in 0..MaxFaults /\ pin' \in Payments \cup {NoPayment}
        /\ UNCHANGED <<autoPosts, sent>> /\ sent \in SUBSET Payments
    BY <1>1, <2>1 DEF TypeOK, approvals
  <2> QED BY <1>1, <1>2, <2>1, <2>2
<1>4. CASE SubmitPin \/ Cancel
  <2>1. PICK kind \in {"pin", "cancel"} : Post(kind) /\ shown # NoPayment
    BY <1>1, <1>4 DEF SubmitPin, Cancel, PinIsShown
  <2>2. [kind |-> kind, of |-> shown, answer |-> "none", live |-> TRUE] \in Posts
    BY <1>1, <2>1 DEF Posts, TypeOK
  <2>3. posts' \subseteq Posts
    BY <1>1, <2>1, <2>2 DEF Post
  <2>4. /\ UNCHANGED <<source, wire, feed, prompt, shown, pin, autoPosts>>
        /\ faults' \in 0..MaxFaults
        /\ sent \subseteq sent' /\ sent' \in SUBSET Payments
    BY <1>1, <2>1 DEF Post, TypeOK
  <2> QED BY <1>1, <1>2, <2>3, <2>4 DEF TypeOK, PinIsShown
<1>5. ASSUME NEW x \in posts, Handle(x)
      PROVE  IInv'
  <2>1. /\ UNCHANGED <<source, wire, feed, prompt, shown, pin, autoPosts, sent>>
        /\ faults' \in 0..MaxFaults
    BY <1>1, <1>5, FeedAssumption DEF Handle, Fault, TypeOK, approvals
  <2>2. \A a \in {"ok", "refused"} : [x EXCEPT !.answer = a] \in Posts
    BY <1>1 DEF Posts
  <2>3. posts' \subseteq Posts
    BY <1>1, <1>5, <2>2 DEF Handle
  <2> QED BY <1>1, <1>2, <2>1, <2>3 DEF TypeOK, PinIsShown
<1>6. ASSUME NEW x \in posts, Answered(x)
      PROVE  IInv'
  <2>1. /\ UNCHANGED <<source, wire, feed, auto, toggles, shown, approvals, faults>>
        /\ pin' \in {pin, NoPayment}
    BY <1>6 DEF Answered
  <2>2. posts' \subseteq Posts
    <3>1. [x EXCEPT !.answer = "closed"] \in Posts
      BY <1>1 DEF Posts
    <3> QED BY <1>1, <1>6, <3>1 DEF Answered
  <2>3. /\ pending' \in {pending, NoPayment} /\ dirty' \in BOOLEAN
        /\ shown' # NoPayment /\ shown' # pending' => dirty'
        /\ pending' # NoPayment => pending' = pending /\ dirty' = dirty
        /\ overtaken \subseteq overtaken' /\ overtaken' \in SUBSET Payments
        /\ pending \in {pending', NoPayment} \cup sent' \cup overtaken'
    <3>1. CASE x.answer = "ok"
      BY <1>6, <2>1, <3>1, Closed DEF Answered, approvals
    <3>2. CASE x.answer # "ok"
      BY <1>1, <1>6, <2>1, <3>2 DEF Answered, PromptTruthful, TypeOK
    <3> QED BY <3>1, <3>2
  <2>4. pending' \in Payments \cup {NoPayment} /\ pin' \in Payments \cup {NoPayment}
    BY <1>1, <2>1, <2>3 DEF TypeOK
  <2>5. TypeOK'
    BY <1>1, <2>1, <2>2, <2>3, <2>4 DEF TypeOK, source, wire, feed, approvals
  <2>6. PinIsShown' /\ PromptSent'
    BY <1>1, <2>1, <2>3 DEF PinIsShown, PromptSent, approvals
  <2> QED BY <2>1, <2>3, <2>5, <2>6, ReaderInv DEF approvals
<1> QED BY <1>3, <1>4, <1>5, <1>6

-----------------------------------------------------------------------------
(***************************************************************************)
(* Theorems                                                                *)
(***************************************************************************)

\* It all holds before the dashboard is opened.
LEMMA InitStep ==
  ASSUME Init
  PROVE  IInv
<1>1. Unknown \in Lists /\ <<>> \in Seq([of : Payments, status : Status])
  BY DEF Unknown, Lists, Status
<1>2. {link, auto, dirty} \subseteq BOOLEAN
  BY DEF Init
<1>3. TypeOK
  BY <1>1, <1>2, FeedAssumption DEF Init, TypeOK
<1>4. StreamFresh /\ ListFollows /\ FetchIsOld
  BY DEF Init, StreamFresh, ListFollows, FetchIsOld
<1>5. PinIsShown /\ PromptTruthful /\ PromptsKept /\ PromptSent
  BY DEF Init, PinIsShown, PromptTruthful, PromptsKept, PromptSent, Unknown
<1> QED BY <1>3, <1>4, <1>5 DEF IInv

\* The inductive invariant: the last message about a payment is true, and what it
\* does not correct in the list or the prompt is accounted for.
THEOREM FeedInvariance == Spec => []IInv
<1>1. Init => IInv
  BY InitStep
<1>2. ASSUME IInv, [Next]_vars
      PROVE  IInv'
  <2>1. CASE UNCHANGED vars
    <3>1. UNCHANGED <<source, wire, feed, prompt, modal, approvals, faults>>
      BY <2>1 DEF vars, source, wire, feed, prompt, modal, approvals
    <3>2. TypeOK' /\ PinIsShown' /\ PromptSent'
      BY <1>1, <1>2, <3>1 DEF IInv, TypeOK, PinIsShown, PromptSent, source, wire, feed,
                              prompt, modal, approvals
    <3>3. shown' # NoPayment /\ shown' # pending' => dirty'
      BY <1>2, <3>1 DEF IInv, PromptTruthful, prompt, modal
    <3> QED BY <1>2, <3>1, <3>2, <3>3, ReaderInv DEF prompt, approvals
  <2>2. CASE SourceStep
    BY <1>2, <2>2, SourceInv
  <2>3. CASE OnMessage
    BY <1>2, <2>3, MessageInv
  <2>4. CASE AnswerFetch \/ ApplyFetch \/ ApplyError
    BY <1>2, <2>4, FetchInv
  <2>5. CASE Toggle \/ Render \/ \E p \in Payments : AutoAnswered(p)
    BY <1>2, <2>5, PromptInv
  <2>6. CASE \/ TypePin \/ ErasePin \/ SubmitPin \/ Cancel
             \/ \E x \in posts : Handle(x) \/ Answered(x)
    BY <1>2, <2>6, ModalInv
  <2> QED BY <1>2, <2>1, <2>2, <2>3, <2>4, <2>5, <2>6 DEF Next, Browser, SourceStep
<1>3. IInv /\ [Next]_vars => IInv'
  BY <1>2
<1> QED BY <1>1, <1>3, PTL DEF Spec

\* The hooks' state is what they expect of it.
THEOREM FeedTypes == Spec => []TypeOK
<1>1. IInv => TypeOK
  BY DEF IInv
<1> QED BY <1>1, FeedInvariance, PTL

\* useDashboardTransactions shows what the database holds, but for updates under
\* way, lost, or undone by the fetched list.
THEOREM ListFollowsDatabase == Spec => []ListTruthful
<1>1. IInv => ListTruthful
  BY DEF IInv, ListFollows, ListTruthful
<1> QED BY <1>1, FeedInvariance, PTL

\* The PIN prompt is for a payment that waits for its PIN, unless the update that
\* takes the prompt away is under way or was lost.
THEOREM PromptFollowsDatabase == Spec => []PromptTruthful
<1>1. IInv => PromptTruthful
  BY DEF IInv
<1> QED BY <1>1, FeedInvariance, PTL

\* With auto-approve on, the PIN of every payment that waits for one, and that the
\* dashboard heard of, was sent, unless its prompt was overtaken before.
THEOREM WaitingAnswered == Spec => []AutoAnswers
<1>1. IInv => AutoAnswers
  BY FeedAssumption DEF IInv, PromptsKept, PromptSent, AutoAnswers
<1> QED BY <1>1, FeedInvariance, PTL
=============================================================================
