-------------------------- MODULE OtaMessageProofs --------------------------
(***************************************************************************)
(* Proofs about the messages between the parts: of hawkbit and the server  *)
(* (OtaHawkbit), on the bus (OtaLink), and what a message carries          *)
(* (OtaWire).                                                              *)
(***************************************************************************)
EXTENDS OtaHawkbit, OtaLink, OtaWire, SequenceTheorems, FiniteSetTheorems,
        WellFoundedInduction, TLAPS

-----------------------------------------------------------------------------
(* The dialogue with hawkbit, for any ids, documents, faults and changes   *)
(* of mind: the server is told only of what hawkbit wanted during the      *)
(* poll.  What is read in a poll is what hawkbit wants at that moment, and *)
(* so belongs to `offered' (ReadWanted); what is posted later is what was  *)
(* read.                                                                   *)

MethodNames == {"MTHD_SKIP", "MTHD_ATTEMPT", "MTHD_FORCED"}

Upgrade ==
  [ id : Id, download : MethodNames, deploy : MethodNames, maintenance : BOOLEAN,
    web_url : LinkName \cup {""} ]

Event ==
  [event : {"REQ_IDLE"}] \cup [event : {"REQ_CANCEL"}, id : Id]
    \cup [event : {"REQ_UPGRADE"}, upgrade : Upgrade]

\* The types that TypeOK does not name.
Typed ==
  /\ TypeOK
  /\ inbox \in Seq(Event)
  /\ server \in [ state : {"idle", "busy", "cancelling", "confirming"},
                  upgrade : Upgrade \cup {NoUpgrade}, cancelId : Id \cup {NoId} ]
  /\ linked \in [kind : {"none", "deployment", "cancel"}, id : Id \cup {NoId}]
  /\ cancel => action # NoDocument

\* What hawkbit wants belongs to what it wanted during the poll, and so does what the
\* poll has read.
ReadWanted ==
  /\ at # "free" => <<action, cancel>> \in offered
  /\ at = "read" =>
       /\ linked.kind # "none"
       /\ body \in Documents
       /\ <<body, linked.kind = "cancel">> \in offered

DialogueInv == Typed /\ ReadWanted

-----------------------------------------------------------------------------
(* The conversion. *)

\* An upgrade says what its document says.
LEMMA TransformDescribes ==
  ASSUME NEW doc \in Document
  PROVE  /\ TransformUpgrade(doc) \in Upgrade
         /\ TransformUpgrade(doc).id = doc.id
         /\ Describes(doc, TransformUpgrade(doc))
<1>1. \A w \in Word : /\ MethodOf(w) \in MethodNames
                      /\ (MethodOf(w) = "MTHD_FORCED") = (w = "forced")
                      /\ (MethodOf(w) = "MTHD_SKIP") = (w \notin {"attempt", "forced"})
  BY DEF Word, MethodOf, MethodNames
<1>2. \A l \in SUBSET LinkName :
        /\ WebAddress(l) \in LinkName \cup {""}
        /\ IF l = {} THEN WebAddress(l) = "" ELSE WebAddress(l) \in l
  BY DEF LinkName, WebAddress
<1>3. /\ doc.id \in Id /\ doc.download \in Word /\ doc.update \in Word
      /\ doc.window \in BOOLEAN /\ doc.links \in SUBSET LinkName
  BY DEF Document
<1>4. TransformUpgrade(doc) \in Upgrade
  BY <1>1, <1>2, <1>3 DEF TransformUpgrade, Upgrade
<1>5. Describes(doc, TransformUpgrade(doc))
  BY <1>1, <1>2, <1>3 DEF TransformUpgrade, Describes
<1>6. QED
  BY <1>4, <1>5 DEF TransformUpgrade

\* A document is never taken for none.
LEMMA DocumentsAreSome == \A d \in Documents : d.id \in Id /\ d # NoDocument
  BY HawkbitAssumption DEF Document, NoDocument

\* What the server hands on when it has handled or concluded something is a server.
LEMMA ServerTypes ==
  ASSUME NEW s \in [ state : {"idle", "busy", "cancelling", "confirming"},
                     upgrade : Upgrade \cup {NoUpgrade}, cancelId : Id \cup {NoId} ]
  PROVE  /\ Concluded(s) \in [ state : {"idle", "busy", "cancelling", "confirming"},
                     upgrade : Upgrade \cup {NoUpgrade}, cancelId : Id \cup {NoId} ]
         /\ Concluded(s).state \in {"idle", "confirming"}
  BY DEF Concluded, Resting

LEMMA InitDialogueInv == HawkbitInit => DialogueInv
<1>1. SUFFICES ASSUME HawkbitInit PROVE DialogueInv
  OBVIOUS
<1>2. TypeOK
  <2>1. 0 \in 0 .. MaxOffers /\ 0 \in 0 .. MaxFaults
    BY HawkbitAssumption
  <2>2. QED
    BY <1>1, <2>1 DEF HawkbitInit, TypeOK, Resting
<1>3. inbox \in Seq(Event)
  BY <1>1, EmptySeq DEF HawkbitInit
<1>4. /\ server \in [ state : {"idle", "busy", "cancelling", "confirming"},
                      upgrade : Upgrade \cup {NoUpgrade}, cancelId : Id \cup {NoId} ]
      /\ linked \in [kind : {"none", "deployment", "cancel"}, id : Id \cup {NoId}]
      /\ cancel => action # NoDocument
  BY <1>1 DEF HawkbitInit, Resting, NoLink
<1>5. ReadWanted
  BY <1>1 DEF HawkbitInit, ReadWanted
<1>6. QED
  BY <1>2, <1>3, <1>4, <1>5 DEF DialogueInv, Typed

-----------------------------------------------------------------------------
(* The steps of a poll. *)

\* Every step of a poll leads to a request that fits the link, or ends it.
LEMMA FollowTypes ==
  ASSUME NEW l \in [kind : {"none", "deployment", "cancel"}, id : Id \cup {NoId}],
         Follow(l)
  PROVE  /\ linked' = l /\ body' = body
         /\ at' \in {"free", "deployment", "cancel"}
         /\ at' \in {"deployment", "cancel"} => linked'.kind = at'
  BY DEF Follow

LEMMA LinksTypes ==
  ASSUME Typed
  PROVE  /\ Links \in [kind : {"none", "deployment", "cancel"}, id : Id \cup {NoId}]
         /\ Links.kind = "cancel" => cancel
         /\ Links.kind = "deployment" => ~cancel
         /\ Links.kind # "none" => action \in Documents /\ Links.id = action.id
         /\ NoLink \in [kind : {"none", "deployment", "cancel"}, id : Id \cup {NoId}]
  BY DocumentsAreSome DEF Typed, TypeOK, Links, NoLink

LEMMA PollKeeps ==
  ASSUME DialogueInv, PollStep
  PROVE  DialogueInv'
<1>1. Typed /\ TypeOK /\ ReadWanted
  BY DEF DialogueInv, Typed
<1>2. CASE PollBegins
  BY <1>1, <1>2, LinksTypes
  DEF PollBegins, DialogueInv, Typed, TypeOK, ReadWanted, backendVars, masterVars, limitVars
<1>3. CASE AnswerBase
  <2>1. /\ action' = action /\ cancel' = cancel /\ asks' = asks /\ server' = server
        /\ offered' = offered /\ offers' = offers
        /\ faults' \in 0 .. MaxFaults
    BY <1>1, <1>3, HawkbitAssumption DEF AnswerBase, backendVars, TypeOK, Fault
  <2>2. inbox' \in Seq(Event)
    BY <1>1, <1>3, AppendProperties DEF AnswerBase, Post, Typed, Event
  <2>3. /\ linked' \in [kind : {"none", "deployment", "cancel"}, id : Id \cup {NoId}]
        /\ at' \in {"free", "put", "deployment", "cancel"}
        /\ at' \in {"deployment", "cancel"} => linked'.kind = at'
    BY <1>1, <1>3, LinksTypes, FollowTypes DEF AnswerBase
  <2>4. at # "free"
    BY <1>3 DEF AnswerBase
  <2>5. QED
    BY <1>1, <2>1, <2>2, <2>3, <2>4 DEF DialogueInv, Typed, TypeOK, ReadWanted
<1>4. CASE PutAttributes
  <2>1. /\ action' = action /\ cancel' = cancel /\ server' = server
        /\ inbox' = inbox /\ offered' = offered /\ offers' = offers
        /\ faults' \in 0 .. MaxFaults
    BY <1>1, <1>4, HawkbitAssumption DEF PutAttributes, masterVars, TypeOK, Fault
  <2> asks' \in BOOLEAN
    BY <1>1, <1>4, Zenon DEF PutAttributes, TypeOK
  <2>2. /\ linked' \in [kind : {"none", "deployment", "cancel"}, id : Id \cup {NoId}]
        /\ at' \in {"free", "deployment", "cancel"}
        /\ at' \in {"deployment", "cancel"} => linked'.kind = at'
    BY <1>1, <1>4, LinksTypes, FollowTypes DEF PutAttributes, Typed
  <2>3. at # "free"
    BY <1>4 DEF PutAttributes
  <2>4. QED
    BY <1>1, <2>1, <2>2, <2>3 DEF DialogueInv, Typed, TypeOK, ReadWanted
<1>5. CASE GetLinked
  <2>1. /\ action' = action /\ cancel' = cancel /\ asks' = asks /\ server' = server
        /\ inbox' = inbox /\ offered' = offered /\ offers' = offers
        /\ faults' \in 0 .. MaxFaults
    BY <1>1, <1>5, HawkbitAssumption
    DEF GetLinked, backendVars, masterVars, TypeOK, Fault
  <2>2. at # "free" /\ linked.kind \in {"deployment", "cancel"}
    BY <1>1, <1>5 DEF GetLinked, TypeOK
  <2>3. CASE Links = linked /\ at' = "read" /\ body' = action /\ linked' = linked
    <3>1. action \in Documents /\ linked.id = action.id /\ (linked.kind = "cancel") = cancel
      BY <1>1, <2>2, <2>3, LinksTypes DEF TypeOK
    <3>2. <<body', linked'.kind = "cancel">> \in offered
      BY <1>1, <2>2, <2>3, <3>1 DEF ReadWanted
    <3>3. QED
      BY <1>1, <2>1, <2>2, <2>3, <3>1, <3>2 DEF DialogueInv, Typed, TypeOK, ReadWanted
  <2>4. CASE Follow(NoLink)
    <3>1. /\ linked' \in [kind : {"none", "deployment", "cancel"}, id : Id \cup {NoId}]
          /\ at' \in {"free", "deployment", "cancel"}
          /\ at' \in {"deployment", "cancel"} => linked'.kind = at'
      BY <1>1, <2>4, LinksTypes, FollowTypes
    <3>2. QED
      BY <1>1, <2>1, <2>2, <3>1 DEF DialogueInv, Typed, TypeOK, ReadWanted
  <2>5. QED
    BY <1>5, <2>3, <2>4 DEF GetLinked
<1>6. CASE PostRead
  <2>1. /\ action' = action /\ cancel' = cancel /\ asks' = asks /\ server' = server
        /\ offered' = offered /\ offers' = offers /\ faults' = faults
    BY <1>6 DEF PostRead, backendVars, limitVars
  <2>2. at = "read" /\ body \in Documents /\ body.id = linked.id /\ body \in Document
    BY <1>1, <1>6, HawkbitAssumption DEF PostRead, ReadWanted, TypeOK
  <2>3. inbox' \in Seq(Event)
    <3>1. /\ [event |-> "REQ_CANCEL", id |-> linked.id] \in Event
          /\ [event |-> "REQ_UPGRADE", upgrade |-> TransformUpgrade(body)] \in Event
      BY <2>2, TransformDescribes, DocumentsAreSome DEF Event
    <3>2. inbox' = inbox \/ \E e \in Event : inbox' = Append(inbox, e)
      BY <1>6, <3>1 DEF PostRead, Post
    <3>3. QED
      BY <1>1, <3>2, AppendProperties DEF Typed
  <2>4. /\ linked' \in [kind : {"none", "deployment", "cancel"}, id : Id \cup {NoId}]
        /\ at' \in {"free", "deployment", "cancel"}
        /\ at' \in {"deployment", "cancel"} => linked'.kind = at'
    BY <1>1, <1>6, LinksTypes, FollowTypes DEF PostRead
  <2>5. QED
    BY <1>1, <2>1, <2>2, <2>3, <2>4 DEF DialogueInv, Typed, TypeOK, ReadWanted
<1>7. QED
  BY <1>2, <1>3, <1>4, <1>5, <1>6 DEF PollStep

-----------------------------------------------------------------------------
(* The other steps: they leave the poll where it is, or end it. *)

LEMMA HandleEventKeeps ==
  ASSUME DialogueInv, HandleEvent
  PROVE  DialogueInv'
<1>1. Typed /\ TypeOK /\ ReadWanted
  BY DEF DialogueInv, Typed
<1>2. UNCHANGED <<action, cancel, asks, at, linked, body, offered, offers, faults>>
  BY DEF HandleEvent, Beside, backendVars, pollVars, limitVars
<1>3. inbox \in Seq(Event) /\ inbox # <<>> /\ inbox' = Tail(inbox)
  BY <1>1 DEF HandleEvent, ReqIdle, ReqUpgrade, ReqCancel, Handles, Typed
<1>4. Head(inbox) \in Event /\ inbox' \in Seq(Event)
  BY <1>3, HeadTailProperties
<1>5. /\ server' \in [ state : {"idle", "busy", "cancelling", "confirming"},
                       upgrade : Upgrade \cup {NoUpgrade}, cancelId : Id \cup {NoId} ]
      /\ server'.state = "busy" => server'.upgrade.id \in Id
      /\ server'.state = "cancelling" => server'.cancelId \in Id
  <2>1. CASE ReqIdle
    BY <1>1, <2>1 DEF ReqIdle, Resting, Typed, TypeOK
  <2>2. CASE ReqUpgrade
    <3>1. Head(inbox).upgrade \in Upgrade /\ Head(inbox).upgrade.id \in Id
      BY <1>4, <2>2 DEF ReqUpgrade, Handles, Event, Upgrade
    <3>2. QED
      BY <1>1, <2>2, <3>1 DEF ReqUpgrade, Typed, TypeOK
  <2>3. CASE ReqCancel
    <3>1. Head(inbox).id \in Id
      BY <1>4, <2>3 DEF ReqCancel, Handles, Event
    <3> DEFINE s == [server EXCEPT !.cancelId = Head(inbox).id]
    <3>2. /\ s \in [ state : {"idle", "busy", "cancelling", "confirming"},
                     upgrade : Upgrade \cup {NoUpgrade}, cancelId : Id \cup {NoId} ]
          /\ s.cancelId \in Id
      BY <1>1, <3>1 DEF Typed
    <3>3. server' = [s EXCEPT !.state = "cancelling"] \/ server' = Concluded(s)
      BY <2>3 DEF ReqCancel
    <3> HIDE DEF s
    <3>4. QED
      BY <3>2, <3>3, ServerTypes
  <2>4. QED
    BY <2>1, <2>2, <2>3 DEF HandleEvent
<1>6. QED
  BY <1>1, <1>2, <1>4, <1>5 DEF DialogueInv, Typed, TypeOK, ReadWanted

LEMMA ServerKeeps ==
  ASSUME DialogueInv, Conclude \/ Confirm
  PROVE  DialogueInv'
<1>1. Typed /\ TypeOK /\ ReadWanted
  BY DEF DialogueInv, Typed
<1>2. UNCHANGED <<action, cancel, asks, at, linked, body, offered, offers, faults, inbox>>
  BY DEF Conclude, Closes, Confirm, Confirms, Beside, backendVars, pollVars, limitVars
<1>3. /\ server' \in [ state : {"idle", "busy", "cancelling", "confirming"},
                       upgrade : Upgrade \cup {NoUpgrade}, cancelId : Id \cup {NoId} ]
      /\ server'.state \in {"idle", "confirming"}
  BY <1>1, ServerTypes DEF Conclude, Closes, Confirm, Confirms, Resting, Typed
<1>4. QED
  BY <1>1, <1>2, <1>3 DEF DialogueInv, Typed, TypeOK, ReadWanted

LEMMA RestKeeps ==
  ASSUME DialogueInv, Feedback \/ MasterRestart \/ Backend
  PROVE  DialogueInv'
<1>1. Typed /\ TypeOK /\ ReadWanted
  BY DEF DialogueInv, Typed
<1>2. CASE Feedback
  <2>1. /\ UNCHANGED <<at, linked, body, inbox, server, offered, offers>>
        /\ at = "free" /\ faults' \in 0 .. MaxFaults
    BY <1>1, <1>2, HawkbitAssumption
    DEF Feedback, pollVars, masterVars, TypeOK, Fault
  <2>2. /\ action' \in Documents \cup {NoDocument} /\ {cancel', asks'} \subseteq BOOLEAN
        /\ cancel' => action' # NoDocument
    <3>1. CASE UNCHANGED backendVars
      BY <1>1, <3>1 DEF backendVars, Typed, TypeOK
    <3>2. CASE Received(Head(requests))
      BY <1>1, <3>2, Zenon DEF Received, Typed, TypeOK
    <3>3. QED
      BY <1>2, <3>1, <3>2 DEF Feedback
  <2>3. QED
    BY <1>1, <2>1, <2>2 DEF DialogueInv, Typed, TypeOK, ReadWanted
<1>3. CASE MasterRestart
  <2>1. /\ UNCHANGED <<action, cancel, asks, offered, offers>> /\ faults' \in 0 .. MaxFaults
    BY <1>1, <1>3, HawkbitAssumption DEF MasterRestart, Fault, backendVars, TypeOK
  <2>2. /\ at' = "free" /\ linked' = NoLink
        /\ inbox' = <<>> /\ server' = Resting(NoId)
    BY <1>3 DEF MasterRestart
  <2>3. QED
    BY <1>1, <2>1, <2>2, LinksTypes, EmptySeq
    DEF DialogueInv, Typed, TypeOK, ReadWanted, Resting
<1>4. CASE Backend
  <2>1. /\ UNCHANGED <<at, linked, body, requests, inbox, server, faults>>
        /\ offers' \in 0 .. MaxOffers
        /\ offered' = offered \cup {<<action', cancel'>>}
    BY <1>1, <1>4, HawkbitAssumption DEF Backend, pollVars, masterVars, TypeOK
  <2>2. /\ action' \in Documents \cup {NoDocument} /\ {cancel', asks'} \subseteq BOOLEAN
        /\ cancel' => action' # NoDocument
    <3>1. /\ action \in Documents \cup {NoDocument} /\ cancel \in BOOLEAN /\ asks \in BOOLEAN
          /\ cancel => action # NoDocument
      BY <1>1 DEF Typed, TypeOK
    <3>2. CASE \E d \in Documents : action' = d /\ cancel' = FALSE /\ asks' = asks
      BY <3>1, <3>2
    <3>3. CASE action # NoDocument /\ cancel' = TRUE /\ UNCHANGED <<action, asks>>
      BY <3>1, <3>3
    <3>4. CASE action' = NoDocument /\ cancel' = FALSE /\ asks' = asks
      BY <3>1, <3>4
    <3>5. CASE asks' = TRUE /\ UNCHANGED <<action, cancel>>
      BY <3>1, <3>5, Zenon
    <3>6. QED
      BY <1>4, <3>2, <3>3, <3>4, <3>5 DEF Backend
  <2>3. QED
    BY <1>1, <2>1, <2>2 DEF DialogueInv, Typed, TypeOK, ReadWanted
<1>5. QED
  BY <1>2, <1>3, <1>4

LEMMA DialogueInvariance == HawkbitSpec => []DialogueInv
<1>1. DialogueInv /\ UNCHANGED hawkbitVars => DialogueInv'
  BY DEF DialogueInv, Typed, TypeOK, ReadWanted, hawkbitVars, backendVars, pollVars, masterVars,
         limitVars
<1>2. DialogueInv /\ [HawkbitNext]_hawkbitVars => DialogueInv'
  BY <1>1, PollKeeps, HandleEventKeeps, ServerKeeps, RestKeeps DEF HawkbitNext
<1>3. QED
  BY <1>2, InitDialogueInv, PTL DEF HawkbitSpec

-----------------------------------------------------------------------------
(* The theorems. *)

\* The poll follows the link it was given, reads the document of that action, and the
\* server works at, or cancels, an action that has an id.
THEOREM TypeCorrect == HawkbitSpec => []TypeOK
  BY DialogueInvariance, PTL DEF DialogueInv, Typed

\* A step posts one event more than it takes, if any.
LEMMA Posted ==
  ASSUME DialogueInv, HawkbitNext, at = "read", Len(inbox') > Len(inbox)
  PROVE  \E e \in Event :
           /\ inbox' = Append(inbox, e)
           /\ \/ linked.kind = "cancel" /\ e = [event |-> "REQ_CANCEL", id |-> linked.id]
              \/ /\ linked.kind = "deployment"
                 /\ e = [event |-> "REQ_UPGRADE", upgrade |-> TransformUpgrade(body)]
<1>1. Typed /\ TypeOK /\ ReadWanted /\ inbox \in Seq(Event) /\ Len(inbox) \in Nat
  BY LenProperties DEF DialogueInv, Typed
<1>2. ~ (PollBegins \/ AnswerBase \/ PutAttributes \/ GetLinked \/ Feedback)
  BY DEF PollBegins, AnswerBase, PutAttributes, GetLinked, Feedback
<1>3. ~ (Conclude \/ Confirm \/ Backend)
  BY <1>1 DEF Conclude, Closes, Confirm, Confirms, Backend, masterVars
<1>4. ~ HandleEvent
  <2>1. SUFFICES ASSUME HandleEvent PROVE FALSE
    OBVIOUS
  <2>2. inbox # <<>> /\ inbox' = Tail(inbox)
    BY <2>1 DEF HandleEvent, ReqIdle, ReqUpgrade, ReqCancel, Handles
  <2>3. Len(inbox') = Len(inbox) - 1
    BY <1>1, <2>2, HeadTailProperties
  <2>4. QED
    BY <1>1, <2>3
<1>5. ~ MasterRestart
  BY <1>1, EmptySeq DEF MasterRestart
<1>6. PostRead
  BY <1>2, <1>3, <1>4, <1>5 DEF HawkbitNext, PollStep
<1>7. /\ body \in Documents /\ body \in Document /\ body.id = linked.id /\ body.id \in Id
      /\ linked.kind \in {"deployment", "cancel"}
  BY <1>1, HawkbitAssumption, DocumentsAreSome DEF ReadWanted, TypeOK, Typed
<1>8. TransformUpgrade(body) \in Upgrade
  BY <1>7, TransformDescribes
<1>9. CASE linked.kind = "cancel"
  BY <1>1, <1>6, <1>7, <1>9 DEF PostRead, Post, Event
<1>10. CASE linked.kind = "deployment"
  BY <1>1, <1>6, <1>8, <1>10 DEF PostRead, Post, Event
<1>11. QED
  BY <1>7, <1>9, <1>10

\* An upgrade that the server is told of is one that hawkbit has described so during
\* the poll, and a cancellation one that it wanted during the poll, whatever hawkbit and
\* the server have done between the requests.
THEOREM PostedWanted == HawkbitSpec => PostedIsWanted
<1>1. ASSUME DialogueInv, HawkbitNext, at = "read", Len(inbox') > Len(inbox)
      PROVE  LET e == inbox'[Len(inbox')]
             IN \E w \in offered :
                  /\ w[1] # NoDocument
                  /\ (e.event = "REQ_UPGRADE" => Describes(w[1], e.upgrade))
                  /\ (e.event = "REQ_CANCEL" => w[2] /\ w[1].id = e.id)
  <2>1. PICK e \in Event :
          /\ inbox' = Append(inbox, e)
          /\ \/ linked.kind = "cancel" /\ e = [event |-> "REQ_CANCEL", id |-> linked.id]
             \/ /\ linked.kind = "deployment"
                /\ e = [event |-> "REQ_UPGRADE", upgrade |-> TransformUpgrade(body)]
    BY <1>1, Posted
  <2>2. inbox'[Len(inbox')] = e
    BY <1>1, <2>1, AppendProperties DEF DialogueInv, Typed
  <2> DEFINE w == <<body, linked.kind = "cancel">>
  <2>3. w \in offered /\ body \in Documents /\ body \in Document /\ body.id = linked.id
    BY <1>1, HawkbitAssumption DEF DialogueInv, ReadWanted, Typed, TypeOK
  <2>4. w[1] = body /\ w[2] = (linked.kind = "cancel")
    OBVIOUS
  <2>5. Describes(body, TransformUpgrade(body)) /\ body # NoDocument
    BY <2>3, TransformDescribes, DocumentsAreSome
  <2> HIDE DEF w
  <2>6. CASE linked.kind = "cancel" /\ e = [event |-> "REQ_CANCEL", id |-> linked.id]
    <3>1. e.event = "REQ_CANCEL" /\ e.id = body.id
      BY <2>3, <2>6
    <3>2. QED
      BY <2>2, <2>3, <2>4, <2>5, <2>6, <3>1
  <2>7. CASE e = [event |-> "REQ_UPGRADE", upgrade |-> TransformUpgrade(body)]
    <3>1. e.event = "REQ_UPGRADE" /\ e.upgrade = TransformUpgrade(body)
      BY <2>7
    <3>2. QED
      BY <2>2, <2>3, <2>4, <2>5, <3>1
  <2>8. QED
    BY <2>1, <2>6, <2>7
<1>2. DialogueInv /\ [HawkbitNext]_hawkbitVars => [at = "read" /\ Len(inbox') > Len(inbox) =>
       LET e == inbox'[Len(inbox')]
       IN \E w \in offered :
            /\ w[1] # NoDocument
            /\ (e.event = "REQ_UPGRADE" => Describes(w[1], e.upgrade))
            /\ (e.event = "REQ_CANCEL" => w[2] /\ w[1].id = e.id)]_hawkbitVars
  BY <1>1
<1>3. QED
  BY <1>2, DialogueInvariance, PTL DEF PostedIsWanted, HawkbitSpec

-----------------------------------------------------------------------------
(* The order on the bus, for any clients, transports, depths of queues,    *)
(* breaks and restarts.  A message of a kind that is further behind on its *)
(* way to a client is not older: what the client has heard, what has       *)
(* passed its check, what waits in its queue from the front to the back,   *)
(* and what the server has sent (LinkInv).                                 *)

Message == [kind : Kind, number : Nat, content : Nat, old : BOOLEAN]
Count == [Kind -> Nat]

\* A queue in which the messages of a kind ascend, from `floor' to `ceiling'.
Ascends(queue, floor, ceiling) ==
  /\ queue \in Seq(Message)
  /\ \A i \in 1 .. Len(queue) :
       /\ floor[queue[i].kind] <= queue[i].content
       /\ queue[i].content <= ceiling[queue[i].kind]
  /\ \A i, j \in 1 .. Len(queue) :
       i < j /\ queue[i].kind = queue[j].kind => queue[i].content <= queue[j].content

\* What client c has taken of each kind, or is about to take.
Floor(c, floor) ==
  /\ floor \in Count
  /\ \A k \in Kind : heard[c][k] <= floor[k]
  /\ \A m \in checked[c] : m.content <= floor[m.kind] /\ heard[c][m.kind] <= m.content

LinkTyped ==
  /\ sent \in Count /\ last \in Count /\ number \in Count
  /\ heard \in [Client -> Count]
  /\ checked \in [Client -> SUBSET Message]
  /\ wire \in [Client -> Seq(Message)]

\* What client c holds ascends, and at most one message is between the check and the
\* taking.
Held(c) ==
  /\ \A m, n \in checked[c] : m = n
  /\ \E floor \in Count :
       /\ Floor(c, floor) /\ Ascends(wire[c], floor, sent)
       /\ \A k \in Kind : floor[k] <= sent[k]

LinkInv ==
  /\ LinkTyped
  /\ \A k \in Kind : last[k] \in {0, sent[k]}
  /\ \A c \in Client : Held(c)

\* A queue is as well with a higher ceiling.
LEMMA AscendsHigher ==
  ASSUME NEW queue, NEW floor \in Count, NEW ceiling \in Count, NEW higher \in Count,
         Ascends(queue, floor, ceiling), \A k \in Kind : ceiling[k] <= higher[k]
  PROVE  Ascends(queue, floor, higher)
  <1>1. \A i \in 1 .. Len(queue) : queue[i] \in Message
    BY ElementOfSeq DEF Ascends
  <1>2. \A m \in Message, n \in Nat : m.content <= ceiling[m.kind] => m.content <= higher[m.kind]
    BY DEF Message, Count
  <1> QED
    BY <1>1, <1>2 DEF Ascends

\* A queue without one of its messages.
LEMMA RemoveAtFacts ==
  ASSUME NEW S, NEW queue \in Seq(S), NEW p \in 1 .. Len(queue)
  PROVE  /\ RemoveAt(queue, p) \in Seq(S)
         /\ Len(RemoveAt(queue, p)) = Len(queue) - 1
         /\ \A i \in 1 .. Len(queue) - 1 :
              RemoveAt(queue, p)[i] = IF i < p THEN queue[i] ELSE queue[i + 1]
  <1> DEFINE front == SubSeq(queue, 1, p - 1)
             back == SubSeq(queue, p + 1, Len(queue))
  <1>1. Len(queue) \in Nat /\ p \in Int /\ \A i \in 1 .. Len(queue) : queue[i] \in S
    BY LenProperties, ElementOfSeq
  <1>2. /\ front \in Seq(S) /\ Len(front) = p - 1
        /\ \A i \in 1 .. p - 1 : front[i] = queue[i]
    <2>1. \A i \in 1 .. p - 1 : queue[i] \in S
      BY <1>1
    <2> QED
      BY <1>1, <2>1, SubSeqProperties
  <1>3. /\ back \in Seq(S) /\ Len(back) = Len(queue) - p
        /\ \A i \in 1 .. Len(queue) - p : back[i] = queue[p + i]
    <2>1. \A i \in p + 1 .. Len(queue) : queue[i] \in S
      BY <1>1
    <2>2. /\ back \in Seq(S)
          /\ Len(back) = IF p + 1 <= Len(queue) THEN Len(queue) - (p + 1) + 1 ELSE 0
          /\ \A i \in 1 .. Len(queue) - (p + 1) + 1 : back[i] = queue[p + 1 + i - 1]
      BY <1>1, <2>1, SubSeqProperties
    <2> HIDE DEF back
    <2> QED
      BY <1>1, <2>2
  <1>4. RemoveAt(queue, p) = front \o back
    BY DEF RemoveAt
  <1> HIDE DEF front, back
  <1>5. /\ front \o back \in Seq(S) /\ Len(front \o back) = Len(front) + Len(back)
        /\ \A i \in 1 .. Len(front) + Len(back) :
             (front \o back)[i] = IF i <= Len(front) THEN front[i] ELSE back[i - Len(front)]
    BY <1>2, <1>3, ConcatProperties
  <1>6. ASSUME NEW i \in 1 .. Len(queue) - 1
        PROVE  (front \o back)[i] = IF i < p THEN queue[i] ELSE queue[i + 1]
    <2>1. CASE i < p
      BY <1>1, <1>2, <1>3, <1>5, <2>1
    <2>2. CASE ~(i < p)
      <3>1. i - Len(front) \in 1 .. Len(queue) - p /\ p + (i - Len(front)) = i + 1
            /\ ~(i <= Len(front)) /\ i \in 1 .. Len(front) + Len(back)
        BY <1>1, <1>2, <1>3, <2>2
      <3> QED
        BY <1>3, <1>5, <2>2, <3>1
    <2> QED
      BY <2>1, <2>2
  <1> QED
    BY <1>1, <1>2, <1>3, <1>4, <1>5, <1>6

\* It ascends as well.
LEMMA AscendsWithout ==
  ASSUME NEW queue, NEW floor, NEW ceiling, Ascends(queue, floor, ceiling),
         NEW p \in 1 .. Len(queue)
  PROVE  Ascends(RemoveAt(queue, p), floor, ceiling)
  <1>1. queue \in Seq(Message) /\ Len(queue) \in Nat
    BY LenProperties DEF Ascends
  <1> DEFINE rest == RemoveAt(queue, p)
             At(i) == IF i < p THEN i ELSE i + 1
  <1>2. /\ rest \in Seq(Message) /\ Len(rest) = Len(queue) - 1
        /\ \A i \in 1 .. Len(queue) - 1 : rest[i] = IF i < p THEN queue[i] ELSE queue[i + 1]
    BY <1>1, RemoveAtFacts
  <1> HIDE DEF rest
  <1>3. \A i \in 1 .. Len(rest) : At(i) \in 1 .. Len(queue) /\ rest[i] = queue[At(i)]
    BY <1>1, <1>2
  <1>4. \A i, j \in 1 .. Len(rest) : i < j => At(i) < At(j)
    BY <1>1, <1>2
  <1> HIDE DEF At
  <1>5. Ascends(rest, floor, ceiling)
    BY <1>2, <1>3, <1>4 DEF Ascends
  <1> QED
    BY <1>5 DEF rest

\* With one more behind, that is as high as the ceiling.
LEMMA AscendsMore ==
  ASSUME NEW queue, NEW floor \in Count, NEW ceiling \in Count,
         Ascends(queue, floor, ceiling), \A k \in Kind : floor[k] <= ceiling[k],
         NEW m \in Message, m.content = ceiling[m.kind]
  PROVE  Ascends(Append(queue, m), floor, ceiling)
  <1>1. queue \in Seq(Message) /\ Len(queue) \in Nat
    BY LenProperties DEF Ascends
  <1> DEFINE longer == Append(queue, m)
  <1>2. /\ longer \in Seq(Message) /\ Len(longer) = Len(queue) + 1
        /\ \A i \in 1 .. Len(queue) : longer[i] = queue[i]
        /\ longer[Len(queue) + 1] = m
    BY <1>1, AppendProperties
  <1> HIDE DEF longer
  <1>3. \A i \in 1 .. Len(longer) :
          \/ i \in 1 .. Len(queue) /\ longer[i] = queue[i]
          \/ i = Len(queue) + 1 /\ longer[i] = m
    BY <1>1, <1>2
  <1>4. floor[m.kind] <= m.content /\ m.content <= ceiling[m.kind] /\ m.content \in Nat
    BY DEF Message, Count
  <1>5. \A i \in 1 .. Len(longer) :
          /\ floor[longer[i].kind] <= longer[i].content
          /\ longer[i].content <= ceiling[longer[i].kind]
    BY <1>3, <1>4 DEF Ascends
  <1>6. ASSUME NEW i \in 1 .. Len(longer), NEW j \in 1 .. Len(longer), i < j,
               longer[i].kind = longer[j].kind
        PROVE  longer[i].content <= longer[j].content
    <2>1. i \in 1 .. Len(queue) /\ longer[i] = queue[i]
      BY <1>1, <1>2, <1>3, <1>6
    <2>2. CASE j \in 1 .. Len(queue)
      BY <1>2, <1>6, <2>1, <2>2 DEF Ascends
    <2>3. CASE j = Len(queue) + 1
      BY <1>2, <1>6, <2>1, <2>3 DEF Ascends
    <2> QED
      BY <1>3, <2>2, <2>3
  <1>7. Ascends(longer, floor, ceiling)
    BY <1>2, <1>5, <1>6 DEF Ascends
  <1> QED
    BY <1>7 DEF longer

\* The oldest message of a kind is there, if there is one.
LEMMA OldestIsThere ==
  ASSUME NEW same, same \subseteq Nat, same # {}
  PROVE  Min(same) \in same
  <1> DEFINE R == {ss \in Nat \X Nat : ss[1] < ss[2]}
  <1>1. IsWellFoundedOn(R, Nat)
    BY NatLessThanWellFounded DEF OpToRel
  <1>2. \A x, y \in Nat : y < x => <<y, x>> \in R
    OBVIOUS
  <1> HIDE DEF R
  <1>3. PICK x \in same : \A y \in same : ~(<<y, x>> \in R)
    BY <1>1, WFMin
  <1>4. x \in Nat /\ \A y \in same : y \in Nat /\ ~(y < x)
    BY <1>2, <1>3
  <1>5. \A y \in same : x =< y
    BY <1>4
  <1> QED
    BY <1>3, <1>5 DEF Min

\* A queue keeps its order when a message as new as any is sent into it, whatever the
\* transport drives out.
LEMMA SentAscends ==
  ASSUME NEW queue, NEW floor \in Count, NEW ceiling \in Count,
         Ascends(queue, floor, ceiling), \A k \in Kind : floor[k] <= ceiling[k],
         NEW m \in Message, m.content = ceiling[m.kind]
  PROVE  Ascends(Sent(queue, m), floor, ceiling)
  <1>1. CASE transport # "ros"
    BY <1>1, AscendsMore DEF Sent, Queued
  <1>2. CASE transport = "ros"
    <2> DEFINE same == OfKind(queue, m.kind)
               rest == IF Cardinality(same) < Depth THEN queue ELSE RemoveAt(queue, Min(same))
    <2>1. same \subseteq 1 .. Len(queue) /\ same \subseteq Nat
      BY LenProperties DEF OfKind, Ascends
    <2>2. Cardinality({}) = 0 /\ 0 < Depth
      BY FS_EmptySet, LinkAssumption
    <2> HIDE DEF same
    <2>3. Ascends(rest, floor, ceiling)
      <3>1. CASE Cardinality(same) < Depth
        BY <3>1
      <3>2. CASE ~(Cardinality(same) < Depth)
        <4>1. same # {}
          BY <2>2, <3>2
        <4>2. Min(same) \in 1 .. Len(queue)
          BY <2>1, <4>1, OldestIsThere
        <4> QED
          BY <3>2, <4>2, AscendsWithout
      <3> QED
        BY <3>1, <3>2
    <2>4. Sent(queue, m) = Append(rest, m)
      BY <1>2 DEF Sent, KeptLast, same
    <2> HIDE DEF rest
    <2> QED
      BY <2>3, <2>4, AscendsMore
  <1> QED
    BY <1>1, <1>2

LEMMA BroadcastAscends ==
  ASSUME NEW kind \in Kind, NEW n \in Nat, NEW queues, NEW c \in Client,
         NEW floor \in Count, NEW ceiling \in Count, Ascends(queues[c], floor, ceiling),
         \A k \in Kind : floor[k] <= ceiling[k]
  PROVE  Ascends(Broadcast(kind, n, ceiling[kind], queues)[c], floor, ceiling)
  <1> DEFINE m == Carried(kind, n, ceiling[kind])
  <1>1. m \in Message /\ m.kind = kind /\ m.content = ceiling[kind]
    BY DEF Carried, Message, Count
  <1>2. Broadcast(kind, n, ceiling[kind], queues)[c] \in {Sent(queues[c], m), queues[c]}
    BY DEF Broadcast
  <1> HIDE DEF m
  <1>3. Ascends(Sent(queues[c], m), floor, ceiling)
    BY <1>1, SentAscends
  <1> QED
    BY <1>2, <1>3

\* A new message is newer than all; the ceiling rises with it.
LEMMA NewAscends ==
  ASSUME LinkTyped, NEW kind \in Kind, NEW queues, New(kind, queues)
  PROVE  /\ sent' \in Count /\ last' \in Count /\ number' \in Count
         /\ \A k \in Kind : last[k] \in {0, sent[k]} => last'[k] \in {0, sent'[k]}
         /\ \A k \in Kind : sent[k] <= sent'[k]
         /\ wire' = [c \in Client |-> wire'[c]]
         /\ \A c \in Client, floor \in Count :
              Ascends(queues[c], floor, sent) /\ (\A k \in Kind : floor[k] <= sent[k]) =>
                Ascends(wire'[c], floor, sent')
  <1>1. /\ sent' = [sent EXCEPT ![kind] = @ + 1]
        /\ last' = [last EXCEPT ![kind] = sent[kind] + 1]
        /\ number' = [number EXCEPT ![kind] = Following(@)]
        /\ wire' = Broadcast(kind, Following(number[kind]), sent[kind] + 1, queues)
    BY DEF New
  <1>2. \A n \in Nat : Following(n) \in Nat
    BY DEF Following
  <1>3. /\ sent' \in Count /\ last' \in Count /\ number' \in Count
        /\ sent'[kind] = sent[kind] + 1
        /\ \A k \in Kind : sent[k] <= sent'[k]
    <2>1. /\ sent[kind] + 1 \in Nat
          /\ Following(number[kind]) \in Nat
          /\ \A k \in Kind : sent[k] \in Nat
          /\ number[kind] \in Nat
      <3>1. sent \in [Kind -> Nat] /\ number \in [Kind -> Nat]
        BY DEF LinkTyped, Count
      <3>2. \A k \in Kind : sent[k] \in Nat /\ number[k] \in Nat
        BY <3>1
      <3> QED
        BY <1>2, <3>2
    <2>2. last' \in Count /\ number' \in Count
      <3>1. last' \in Count
        BY <1>1, <2>1 DEF LinkTyped, Count
      <3>2. number' = [number EXCEPT ![kind] = Following(number[kind])]
        BY <1>1
      <3> QED
        BY <2>1, <3>1, <3>2 DEF LinkTyped, Count
    <2>3. sent' \in Count /\ sent'[kind] = sent[kind] + 1
      BY <1>1, <2>1 DEF LinkTyped, Count
    <2>4. \A k \in Kind : sent'[k] = IF k = kind THEN sent[k] + 1 ELSE sent[k]
      BY <1>1 DEF LinkTyped, Count
    <2> QED
      BY <2>1, <2>2, <2>3, <2>4
  <1>4. \A k \in Kind : last[k] \in {0, sent[k]} => last'[k] \in {0, sent'[k]}
    BY <1>1 DEF LinkTyped, Count
  <1>5. wire' = [c \in Client |-> wire'[c]]
    BY <1>1 DEF Broadcast
  <1>6. ASSUME NEW c \in Client, NEW floor \in Count, Ascends(queues[c], floor, sent),
               \A k \in Kind : floor[k] <= sent[k]
        PROVE  Ascends(wire'[c], floor, sent')
    <2>1. Ascends(queues[c], floor, sent')
      BY <1>3, <1>6, AscendsHigher DEF LinkTyped
    <2>2. \A k \in Kind : floor[k] <= sent'[k]
      BY <1>3, <1>6 DEF LinkTyped, Count
    <2>3. Following(number[kind]) \in Nat
      BY <1>2 DEF LinkTyped, Count
    <2>4. Ascends(Broadcast(kind, Following(number[kind]), sent'[kind], queues)[c], floor, sent')
      BY <1>3, <2>1, <2>2, <2>3, BroadcastAscends
    <2> QED
      BY <1>1, <1>3, <2>4
  <1> QED
    BY <1>3, <1>4, <1>5, <1>6

\* What is sent again is the last that was sent.
LEMMA RepeatsAscends ==
  ASSUME LinkTyped, \A k \in Kind : last[k] \in {0, sent[k]}, NEW asking,
         NEW c \in Client, NEW floor \in Count, Ascends(wire[c], floor, sent),
         \A k \in Kind : floor[k] <= sent[k]
  PROVE  Ascends(Repeats(asking)[c], floor, sent)
  <1> DEFINE Again(kind, queues) == Broadcast(kind, number[kind], last[kind], queues)
             control == IF last["control"] > 0 /\ asking \in listed \cup Watcher
                        THEN Again("control", wire) ELSE wire
  <1>1. ASSUME NEW kind \in Kind, NEW queues, last[kind] > 0, Ascends(queues[c], floor, sent)
        PROVE  Ascends(Again(kind, queues)[c], floor, sent)
    <2>1. last[kind] = sent[kind]
      BY <1>1 DEF LinkTyped, Count
    <2>2. number[kind] \in Nat
      BY DEF LinkTyped, Count
    <2>3. Ascends(Broadcast(kind, number[kind], sent[kind], queues)[c], floor, sent)
      BY <1>1, <2>2, BroadcastAscends DEF LinkTyped
    <2> QED
      BY <2>1, <2>3
  <1>2. Repeats(asking) =
          IF last["detail"] > 0 /\ asking \in Watcher \ listed
          THEN Again("detail", control) ELSE control
    BY DEF Repeats
  <1>3. "control" \in Kind /\ "detail" \in Kind
    BY DEF Kind
  <1> HIDE DEF Again
  <1>4. Ascends(control[c], floor, sent)
    BY <1>1, <1>3
  <1> HIDE DEF control
  <1> QED
    BY <1>1, <1>2, <1>3, <1>4

LEMMA RepeatsFunction ==
  ASSUME LinkTyped, NEW asking
  PROVE  Repeats(asking) = [c \in Client |-> Repeats(asking)[c]]
  <1>1. wire = [c \in Client |-> wire[c]]
    BY DEF LinkTyped
  <1>2. \A kind, n, content, queues :
          Broadcast(kind, n, content, queues) =
            [c \in Client |-> Broadcast(kind, n, content, queues)[c]]
    BY DEF Broadcast
  <1> QED
    BY <1>1, <1>2 DEF Repeats

\* An older connection changes neither the kinds nor the contents.
LEMMA OldMessage ==
  ASSUME NEW m \in Message, NEW kinds
  PROVE  /\ Old(m, kinds) \in Message
         /\ Old(m, kinds).kind = m.kind /\ Old(m, kinds).content = m.content
  BY DEF Old, Message

LEMMA AgedAscends ==
  ASSUME NEW queue, NEW kinds, NEW floor, NEW ceiling, Ascends(queue, floor, ceiling)
  PROVE  Ascends(Aged(queue, kinds), floor, ceiling)
  <1>1. queue \in Seq(Message) /\ Len(queue) \in Nat /\ DOMAIN queue = 1 .. Len(queue)
        /\ \A i \in 1 .. Len(queue) : queue[i] \in Message
    BY LenProperties, ElementOfSeq DEF Ascends
  <1> DEFINE aged == Aged(queue, kinds)
  <1>2. aged = [i \in 1 .. Len(queue) |-> Old(queue[i], kinds)]
    BY <1>1 DEF Aged
  <1>3. \A i \in 1 .. Len(queue) : Old(queue[i], kinds) \in Message
    BY <1>1, OldMessage
  <1>4. aged \in Seq(Message) /\ Len(aged) = Len(queue)
    <2> DEFINE n == Len(queue)
    <2> HIDE DEF aged
    <2>1. aged \in [1 .. n -> Message] /\ n \in Nat
      BY <1>1, <1>2, <1>3
    <2> HIDE DEF n
    <2>2. aged \in Seq(Message)
      BY <2>1, SeqDef
    <2>3. Len(aged) = n
      <3>1. Len(aged) \in Nat /\ 1 .. Len(aged) = 1 .. n
        BY <2>1, <2>2, LenProperties
      <3>2. \A i \in Nat : i \in 1 .. Len(aged) <=> i \in 1 .. n
        BY <3>1
      <3>3. n <= Len(aged) /\ Len(aged) <= n
        BY <2>1, <3>1, <3>2
      <3> QED
        BY <2>1, <3>1, <3>3
    <2> QED
      BY <2>2, <2>3 DEF n
  <1>5. \A i \in 1 .. Len(queue) :
          aged[i].kind = queue[i].kind /\ aged[i].content = queue[i].content
    <2> HIDE DEF aged
    <2> QED
      BY <1>1, <1>2, OldMessage
  <1> HIDE DEF aged
  <1>6. Ascends(aged, floor, ceiling)
    BY <1>4, <1>5 DEF Ascends
  <1> QED
    BY <1>6 DEF aged

\* A client that takes nothing keeps its order, if what waits for it keeps its.
LEMMA HeldStays ==
  ASSUME LinkInv, NEW c \in Client, heard'[c] = heard[c], checked'[c] = checked[c],
         sent' \in Count, \A k \in Kind : sent[k] <= sent'[k],
         \A floor \in Count :
           Ascends(wire[c], floor, sent) /\ (\A k \in Kind : floor[k] <= sent[k]) =>
             Ascends(wire'[c], floor, sent')
  PROVE  Held(c)'
  <1>1. PICK floor \in Count :
          /\ Floor(c, floor) /\ Ascends(wire[c], floor, sent)
          /\ \A k \in Kind : floor[k] <= sent[k]
    BY DEF LinkInv, Held
  <1>2. Floor(c, floor)'
    BY <1>1 DEF Floor
  <1>3. Ascends(wire[c], floor, sent)'
    BY <1>1 DEF Ascends
  <1>4. \A k \in Kind : floor[k] <= sent'[k]
    <2>1. \A k \in Kind : floor[k] \in Nat /\ sent[k] \in Nat /\ sent'[k] \in Nat
      BY DEF LinkInv, LinkTyped, Count
    <2> QED
      BY <1>1, <2>1
  <1>5. \A m, n \in checked'[c] : m = n
    BY DEF LinkInv, Held
  <1> QED
    BY <1>2, <1>3, <1>4, <1>5 DEF Held

\* The server sends a message, behind queues in order.
LEMMA NewKeeps ==
  ASSUME LinkInv, NEW kind \in Kind, NEW queues, New(kind, queues),
         UNCHANGED <<checked, heard>>,
         \A c \in Client, floor \in Count :
           Ascends(wire[c], floor, sent) /\ (\A k \in Kind : floor[k] <= sent[k]) =>
             Ascends(queues[c], floor, sent)
  PROVE  LinkInv'
  <1>1. LinkTyped
    BY DEF LinkInv
  <1>2. /\ sent' \in Count /\ last' \in Count /\ number' \in Count
        /\ \A k \in Kind : last[k] \in {0, sent[k]} => last'[k] \in {0, sent'[k]}
        /\ \A k \in Kind : sent[k] <= sent'[k]
        /\ wire' = [c \in Client |-> wire'[c]]
        /\ \A c \in Client, floor \in Count :
             Ascends(queues[c], floor, sent) /\ (\A k \in Kind : floor[k] <= sent[k]) =>
               Ascends(wire'[c], floor, sent')
    BY <1>1, NewAscends
  <1>3. \A c \in Client : Held(c)'
    BY <1>2, HeldStays
  <1>4. \A c \in Client : wire'[c] \in Seq(Message)
    BY <1>3 DEF Held, Ascends
  <1>5. LinkTyped'
    BY <1>1, <1>2, <1>4 DEF LinkTyped
  <1> QED
    BY <1>2, <1>3, <1>5 DEF LinkInv

\* The server sends the last messages again, or nothing.
LEMMA RepeatsKeep ==
  ASSUME LinkInv, NEW asking, wire' \in {Repeats(asking), wire},
         UNCHANGED <<sent, last, number, checked, heard>>
  PROVE  LinkInv'
  <1>1. LinkTyped /\ \A k \in Kind : last[k] \in {0, sent[k]}
    BY DEF LinkInv
  <1>2. wire' = [c \in Client |-> wire'[c]]
    BY <1>1, RepeatsFunction DEF LinkTyped
  <1>3. \A c \in Client, floor \in Count :
          Ascends(wire[c], floor, sent) /\ (\A k \in Kind : floor[k] <= sent[k]) =>
            Ascends(wire'[c], floor, sent')
    BY <1>1, RepeatsAscends
  <1>4. sent' \in Count /\ \A k \in Kind : sent[k] <= sent'[k]
    BY <1>1 DEF LinkTyped, Count
  <1>5. \A c \in Client : Held(c)'
    BY <1>3, <1>4, HeldStays
  <1>6. \A c \in Client : wire'[c] \in Seq(Message)
    BY <1>5 DEF Held, Ascends
  <1>7. LinkTyped'
    BY <1>1, <1>2, <1>6 DEF LinkTyped
  <1> QED
    BY <1>1, <1>5, <1>7 DEF LinkInv

\* A connection is over: what client c holds has come on it, some kinds or all.
LEMMA AgedHeld ==
  ASSUME LinkInv, NEW c \in Client, NEW kinds, heard'[c] = heard[c], sent' = sent,
         checked'[c] = {Old(m, kinds) : m \in checked[c]},
         wire'[c] = Aged(wire[c], kinds)
  PROVE  /\ Held(c)'
         /\ checked'[c] \in SUBSET Message
         /\ wire'[c] \in Seq(Message)
  <1>1. PICK floor \in Count :
          /\ Floor(c, floor) /\ Ascends(wire[c], floor, sent)
          /\ \A k \in Kind : floor[k] <= sent[k]
    BY DEF LinkInv, Held
  <1>2. /\ checked[c] \in SUBSET Message
        /\ \A m \in checked[c] :
             /\ Old(m, kinds) \in Message
             /\ Old(m, kinds).kind = m.kind /\ Old(m, kinds).content = m.content
    BY OldMessage DEF LinkInv, LinkTyped
  <1>3. Floor(c, floor)'
    BY <1>1, <1>2 DEF Floor
  <1>4. Ascends(Aged(wire[c], kinds), floor, sent)
    BY <1>1, AgedAscends
  <1>5. Ascends(wire[c], floor, sent)'
    BY <1>4 DEF Ascends
  <1>6. \A m, n \in checked'[c] : m = n
    BY DEF LinkInv, Held
  <1>7. Held(c)'
    BY <1>1, <1>3, <1>5, <1>6 DEF Held
  <1> QED
    BY <1>2, <1>5, <1>7 DEF Ascends

LEMMA InitLinkInv == Init => LinkInv
  <1> SUFFICES ASSUME Init PROVE LinkInv
    OBVIOUS
  <1>1. None \in Count /\ \A k \in Kind : None[k] = 0
    BY DEF None, Count
  <1>2. LinkTyped
    BY <1>1 DEF Init, LinkTyped
  <1>3. ASSUME NEW c \in Client PROVE Held(c)
    <2>1. wire[c] = <<>> /\ checked[c] = {} /\ heard[c] = None /\ sent = None
      BY DEF Init
    <2>2. Floor(c, None)
      BY <1>1, <2>1 DEF Floor
    <2>3. Ascends(wire[c], None, sent)
      BY <2>1, EmptySeq DEF Ascends
    <2> QED
      BY <1>1, <2>1, <2>2, <2>3 DEF Held
  <1> QED
    BY <1>1, <1>2, <1>3 DEF Init, LinkInv

\* A step that changes nothing of what is told.
LEMMA StillKeeps ==
  ASSUME LinkInv, UNCHANGED <<sent, last, number, heard, checked, wire>>
  PROVE  LinkInv'
  BY DEF LinkInv, LinkTyped, Held, Floor, Ascends

LEMMA SendMessageKeeps ==
  ASSUME LinkInv, NEW kind \in Kind, SendMessage(kind)
  PROVE  LinkInv'
  <1>1. New(kind, wire) /\ UNCHANGED <<checked, heard>>
    BY DEF SendMessage, clientVars
  <1> QED
    BY <1>1, NewKeeps

LEMMA SilentKeeps ==
  ASSUME LinkInv, NEW c \in Client, Silent(c)
  PROVE  LinkInv'
  <1>1. New("detail", wire) /\ UNCHANGED <<checked, heard>> /\ "detail" \in Kind
    BY DEF Silent, clientVars, Kind
  <1> QED
    BY <1>1, NewKeeps

LEMMA ReportKeeps ==
  ASSUME LinkInv, NEW c \in Client, Report(c)
  PROVE  LinkInv'
  <1>1. UNCHANGED <<checked, heard>> /\ "detail" \in Kind
    BY DEF Report, clientVars, Kind
  <1>2. PICK queues \in {Repeats(c), wire} :
          \/ New("detail", queues)
          \/ wire' = queues /\ UNCHANGED <<sent, last, number>>
    <2>1. CASE Head(reports[c])
      <3>1. \/ New("detail", Repeats(c))
            \/ wire' = Repeats(c) /\ UNCHANGED <<sent, last, number>>
        BY <2>1 DEF Report, New, serverVars
      <3> QED
        BY <3>1
    <2>2. CASE ~ Head(reports[c])
      <3>1. \/ New("detail", wire)
            \/ wire' = wire /\ UNCHANGED <<sent, last, number>>
        BY <2>2 DEF Report, New, serverVars
      <3> QED
        BY <3>1
    <2> QED
      BY <2>1, <2>2
  <1>3. CASE New("detail", queues)
    <2>1. \A d \in Client, floor \in Count :
            Ascends(wire[d], floor, sent) /\ (\A k \in Kind : floor[k] <= sent[k]) =>
              Ascends(queues[d], floor, sent)
      BY <1>2, RepeatsAscends DEF LinkInv
    <2> QED
      BY <1>1, <1>3, <2>1, NewKeeps
  <1>4. CASE wire' = queues /\ UNCHANGED <<sent, last, number>>
    BY <1>1, <1>2, <1>4, RepeatsKeep
  <1> QED
    BY <1>2, <1>3, <1>4

LEMMA RestartKeeps ==
  ASSUME LinkInv, Restart
  PROVE  LinkInv'
  <1>1. /\ sent' = sent /\ heard' = heard /\ last' = None /\ number' = None
        /\ wire' = [c \in Client |-> Aged(wire[c], Kind)]
        /\ checked' = [c \in Client |-> {Old(m, Kind) : m \in checked[c]}]
    BY DEF Restart
  <1>2. \A c \in Client :
          /\ Held(c)' /\ checked'[c] \in SUBSET Message /\ wire'[c] \in Seq(Message)
    BY <1>1, AgedHeld
  <1>3. LinkTyped'
    BY <1>1, <1>2 DEF LinkInv, LinkTyped, None, Count
  <1>4. \A k \in Kind : last'[k] = 0
    BY <1>1 DEF None
  <1> QED
    BY <1>2, <1>3, <1>4 DEF LinkInv

LEMMA OfflineKeeps ==
  ASSUME LinkInv, NEW c \in Client, Offline(c)
  PROVE  LinkInv'
  <1>1. PICK ends \in Breaking(c) :
          /\ UNCHANGED <<sent, last, number, heard>>
          /\ wire' = [wire EXCEPT ![c] = Aged(@, ends)]
          /\ checked' = [checked EXCEPT ![c] = {Old(m, ends) : m \in @}]
    BY DEF Offline, serverVars
  <1>2. LinkTyped
    BY DEF LinkInv
  <1>3. /\ wire'[c] = Aged(wire[c], ends) /\ checked'[c] = {Old(m, ends) : m \in checked[c]}
        /\ \A d \in Client \ {c} : wire'[d] = wire[d] /\ checked'[d] = checked[d]
    BY <1>1, <1>2 DEF LinkTyped
  <1>4. Held(c)' /\ checked'[c] \in SUBSET Message /\ wire'[c] \in Seq(Message)
    BY <1>1, <1>3, AgedHeld
  <1>5. ASSUME NEW d \in Client \ {c} PROVE Held(d)'
    BY <1>1, <1>3 DEF LinkInv, Held, Floor, Ascends
  <1>6. LinkTyped'
    BY <1>1, <1>2, <1>4 DEF LinkTyped
  <1> QED
    BY <1>1, <1>4, <1>5, <1>6 DEF LinkInv

\* The details are forgotten while the server is away.
LEMMA SendDomainMessageKeeps ==
  ASSUME LinkInv, NEW c \in Client, SendDomainMessage(c)
  PROVE  LinkInv'
  <1>1. UNCHANGED <<sent, last, number, wire, checked>>
    BY DEF SendDomainMessage, serverVars
  <1>2. CASE heard' = heard
    BY <1>1, <1>2, StillKeeps
  <1>3. CASE heard' = [heard EXCEPT ![c]["detail"] = 0]
    <2>1. LinkTyped
      BY DEF LinkInv
    <2>2. \A d \in Client, k \in Kind :
            /\ heard[d][k] \in Nat
            /\ heard'[d][k] = IF d = c /\ k = "detail" THEN 0 ELSE heard[d][k]
      BY <1>3, <2>1 DEF LinkTyped, Count
    <2>3. heard' \in [Client -> Count]
      BY <1>3, <2>1 DEF LinkTyped, Count
    <2>4. ASSUME NEW d \in Client PROVE Held(d)'
      <3>1. PICK floor \in Count :
              /\ Floor(d, floor) /\ Ascends(wire[d], floor, sent)
              /\ \A k \in Kind : floor[k] <= sent[k]
        BY DEF LinkInv, Held
      <3>2. \A k \in Kind : heard'[d][k] \in Nat /\ heard'[d][k] <= heard[d][k]
        BY <2>2
      <3>3. \A k \in Kind : floor[k] \in Nat
        BY DEF Count
      <3>4. \A m \in checked[d] : m.kind \in Kind /\ m.content \in Nat
        BY <2>1 DEF LinkTyped, Message
      <3>5. Floor(d, floor)'
        BY <1>1, <2>2, <3>1, <3>2, <3>3, <3>4 DEF Floor
      <3>6. Ascends(wire[d], floor, sent)'
        BY <1>1, <3>1 DEF Ascends
      <3> QED
        BY <1>1, <3>1, <3>5, <3>6 DEF LinkInv, Held
    <2> QED
      BY <1>1, <2>1, <2>3, <2>4 DEF LinkInv, LinkTyped
  <1> QED
    BY <1>2, <1>3 DEF SendDomainMessage

\* What is next for a client is ahead of the others of its kind.
LEMMA NextIsFirst ==
  ASSUME LinkTyped, NEW c \in Client, wire[c] # <<>>, NEW i \in Next1(c)
  PROVE  /\ i \in 1 .. Len(wire[c])
         /\ \A j \in 1 .. Len(wire[c]) : j < i => wire[c][j].kind # wire[c][i].kind
  <1>1. /\ wire[c] \in Seq(Message) /\ Len(wire[c]) \in Nat
        /\ DOMAIN wire[c] = 1 .. Len(wire[c]) /\ Len(wire[c]) # 0
    BY LenProperties, EmptySeq DEF LinkTyped
  <1>2. i \in FdbusNext(c) \cup RosNext(c)
    BY DEF Next1, VsomeipNext
  <1>3. CASE i \in FdbusNext(c)
    BY <1>1, <1>3 DEF FdbusNext
  <1>4. CASE i \in RosNext(c)
    <2>1. i \in 1 .. Len(wire[c])
          /\ \A j \in 1 .. i - 1 : wire[c][j].kind # wire[c][i].kind
      BY <1>1, <1>4 DEF RosNext
    <2> QED
      BY <1>1, <2>1
  <1> QED
    BY <1>2, <1>3, <1>4

Raised(floor, m) == [floor EXCEPT ![m.kind] = m.content]

\* The floor rises to the message that is taken out.
LEMMA TakenOut ==
  ASSUME NEW queue, NEW floor \in Count, NEW ceiling \in Count,
         Ascends(queue, floor, ceiling), \A k \in Kind : floor[k] <= ceiling[k],
         NEW i \in 1 .. Len(queue),
         \A j \in 1 .. Len(queue) : j < i => queue[j].kind # queue[i].kind
  PROVE  /\ queue[i] \in Message
         /\ Raised(floor, queue[i]) \in Count
         /\ Ascends(RemoveAt(queue, i), Raised(floor, queue[i]), ceiling)
         /\ \A k \in Kind : /\ floor[k] <= Raised(floor, queue[i])[k]
                            /\ Raised(floor, queue[i])[k] <= ceiling[k]
         /\ Raised(floor, queue[i])[queue[i].kind] = queue[i].content
  <1> DEFINE raised == Raised(floor, queue[i])
             m == queue[i]
             rest == RemoveAt(queue, i)
             At(j) == IF j < i THEN j ELSE j + 1
  <1>1. queue \in Seq(Message) /\ Len(queue) \in Nat
        /\ \A j \in 1 .. Len(queue) : queue[j] \in Message
    BY LenProperties, ElementOfSeq DEF Ascends
  <1>2. m \in Message /\ m.kind \in Kind /\ m.content \in Nat
    BY <1>1 DEF Message
  <1>3. floor[m.kind] <= m.content /\ m.content <= ceiling[m.kind]
    BY DEF Ascends
  <1>4. /\ rest \in Seq(Message) /\ Len(rest) = Len(queue) - 1
        /\ \A j \in 1 .. Len(queue) - 1 : rest[j] = IF j < i THEN queue[j] ELSE queue[j + 1]
    BY <1>1, RemoveAtFacts
  <1>5. Ascends(rest, floor, ceiling)
    BY AscendsWithout
  <1>6. \A j \in 1 .. Len(rest) : rest[j].kind = m.kind => m.content <= rest[j].content
    <2> HIDE DEF rest
    <2>1. \A j \in 1 .. Len(rest) :
            At(j) \in 1 .. Len(queue) /\ rest[j] = queue[At(j)] /\ At(j) # i
      BY <1>1, <1>4
    <2> HIDE DEF At
    <2>2. \A j \in 1 .. Len(queue) :
            j # i /\ queue[j].kind = queue[i].kind => queue[i].content <= queue[j].content
      <3>1. \A j \in 1 .. Len(queue) : j # i => j < i \/ i < j
        BY <1>1
      <3> QED
        BY <3>1 DEF Ascends
    <2> QED
      BY <2>1, <2>2
  <1> HIDE DEF rest, m, raised
  <1>7. /\ raised \in Count
        /\ \A k \in Kind : raised[k] = IF k = m.kind THEN m.content ELSE floor[k]
        /\ \A k \in Kind : floor[k] \in Nat /\ ceiling[k] \in Nat
    <2>1. raised = [floor EXCEPT ![m.kind] = m.content]
      BY DEF m, raised, Raised
    <2> QED
      BY <1>2, <2>1 DEF Count
  <1>8. \A k \in Kind : floor[k] <= raised[k] /\ raised[k] <= ceiling[k]
    BY <1>2, <1>3, <1>7
  <1>9. Ascends(rest, raised, ceiling)
    <2>1. \A j \in 1 .. Len(rest) : raised[rest[j].kind] <= rest[j].content
      <3>1. \A j \in 1 .. Len(rest) : rest[j] \in Message
        BY <1>4, ElementOfSeq
      <3>2. \A j \in 1 .. Len(rest) : rest[j].kind \in Kind
        BY <3>1 DEF Message
      <3>3. \A j \in 1 .. Len(rest) : floor[rest[j].kind] <= rest[j].content
        BY <1>5 DEF Ascends
      <3> QED
        BY <1>6, <1>7, <3>2, <3>3
    <2> QED
      BY <1>5, <2>1 DEF Ascends
  <1> QED
    BY <1>2, <1>7, <1>8, <1>9 DEF rest, m, raised

\* A message leaves the queue of client c; the floor rises to it.
LEMMA CheckKeeps ==
  ASSUME LinkInv, NEW c \in Client, Check(c)
  PROVE  LinkInv'
  <1>1. /\ wire[c] # <<>> /\ checked[c] = {}
        /\ UNCHANGED <<sent, last, number, heard>>
    BY DEF Check, Alone, serverVars
  <1>2. PICK i \in Next1(c) :
          /\ wire' = [wire EXCEPT ![c] = RemoveAt(wire[c], i)]
          /\ \/ checked' = checked
             \/ checked' = [checked EXCEPT ![c] = checked[c] \cup {wire[c][i]}]
    BY DEF Check
  <1>3. LinkTyped
    BY DEF LinkInv
  <1>4. /\ i \in 1 .. Len(wire[c])
        /\ \A j \in 1 .. Len(wire[c]) : j < i => wire[c][j].kind # wire[c][i].kind
    BY <1>1, <1>3, NextIsFirst
  <1> DEFINE m == wire[c][i]
  <1>5. PICK floor \in Count :
          /\ Floor(c, floor) /\ Ascends(wire[c], floor, sent)
          /\ \A k \in Kind : floor[k] <= sent[k]
    BY DEF LinkInv, Held
  <1>6. PICK raised : raised = Raised(floor, m)
    OBVIOUS
  <1>7. /\ m \in Message
        /\ raised \in Count
        /\ Ascends(RemoveAt(wire[c], i), raised, sent)
        /\ \A k \in Kind : floor[k] <= raised[k] /\ raised[k] <= sent[k]
        /\ raised[m.kind] = m.content
    <2>1. sent \in Count
      BY <1>3 DEF LinkTyped
    <2>2. raised = Raised(floor, wire[c][i])
      BY <1>6
    <2>3. \A j \in 1 .. Len(wire[c]) : j < i => wire[c][j].kind # wire[c][i].kind
      BY <1>4
    <2>4. Ascends(wire[c], floor, sent) /\ \A k \in Kind : floor[k] <= sent[k]
      BY <1>5
    <2>5. i \in 1 .. Len(wire[c]) /\ floor \in Count
      BY <1>4
    <2> QED
      BY ONLY <2>1, <2>2, <2>3, <2>4, <2>5, TakenOut
  <1>8. floor[m.kind] <= m.content
    BY <1>4, <1>5 DEF Ascends
  <1> HIDE DEF m
  <1>9. /\ wire'[c] = RemoveAt(wire[c], i)
        /\ checked'[c] = {} \/ checked'[c] = {m}
        /\ \A d \in Client \ {c} : wire'[d] = wire[d] /\ checked'[d] = checked[d]
        /\ checked' \in [Client -> SUBSET Message]
    BY <1>1, <1>2, <1>3, <1>7 DEF LinkTyped, m
  <1>10. Held(c)'
    <2>1. \A k \in Kind : heard[c][k] \in Nat /\ floor[k] \in Nat /\ raised[k] \in Nat
      BY <1>3, <1>7 DEF LinkTyped, Count
    <2>2. m.kind \in Kind /\ m.content \in Nat
      BY <1>7 DEF Message
    <2>3. \A k \in Kind : heard[c][k] <= floor[k]
      BY <1>5 DEF Floor
    <2>4. \A k \in Kind : heard[c][k] <= raised[k]
      BY <1>7, <2>1, <2>3
    <2>5. m.content <= raised[m.kind] /\ heard[c][m.kind] <= m.content
      BY <1>7, <1>8, <2>1, <2>2, <2>3
    <2>6. Floor(c, raised)'
      BY <1>1, <1>7, <1>9, <2>4, <2>5 DEF Floor
    <2>7. Ascends(wire[c], raised, sent)'
      BY <1>1, <1>7, <1>9 DEF Ascends
    <2> QED
      BY <1>1, <1>7, <1>9, <2>6, <2>7 DEF Held
  <1>11. ASSUME NEW d \in Client \ {c} PROVE Held(d)'
    <2>1. /\ sent' \in Count /\ \A k \in Kind : sent[k] <= sent'[k]
          /\ heard'[d] = heard[d] /\ wire'[d] = wire[d] /\ checked'[d] = checked[d]
          /\ sent' = sent
      BY <1>1, <1>3, <1>9, <1>11 DEF LinkTyped, Count
    <2> QED
      BY <1>11, <2>1, HeldStays
  <1>12. wire' \in [Client -> Seq(Message)]
    <2>1. RemoveAt(wire[c], i) \in Seq(Message)
      BY <1>7 DEF Ascends
    <2> QED
      BY <1>2, <1>3, <2>1 DEF LinkTyped
  <1>13. LinkTyped'
    BY <1>1, <1>3, <1>9, <1>12 DEF LinkTyped
  <1> QED
    BY <1>1, <1>10, <1>11, <1>13 DEF LinkInv

Takes(c, m) == heard' = [heard EXCEPT ![c][m.kind] = m.content]

\* What client c takes is not older than what it has taken.
LEMMA TakeRises ==
  ASSUME LinkInv, NEW c \in Client, NEW m \in checked[c],
         Takes(c, m)
  PROVE  /\ m.kind \in Kind /\ m.content \in Nat
         /\ \A d \in Client, k \in Kind :
              /\ heard[d][k] \in Nat
              /\ heard'[d][k] = IF d = c /\ k = m.kind THEN m.content ELSE heard[d][k]
              /\ heard'[d][k] >= heard[d][k]
         /\ heard' \in [Client -> Count]
  <1>1. LinkTyped /\ Held(c)
    BY DEF LinkInv
  <1>2. m.kind \in Kind /\ m.content \in Nat
    BY <1>1 DEF LinkTyped, Message
  <1>3. heard[c][m.kind] <= m.content
    BY <1>1 DEF Held, Floor
  <1>4. \A d \in Client, k \in Kind :
          /\ heard[d][k] \in Nat
          /\ heard'[d][k] = IF d = c /\ k = m.kind THEN m.content ELSE heard[d][k]
    BY <1>1, <1>2 DEF LinkTyped, Count, Takes
  <1>5. heard' \in [Client -> Count]
    BY <1>1, <1>2 DEF LinkTyped, Count, Takes
  <1>6. \A d \in Client, k \in Kind : heard'[d][k] >= heard[d][k]
    BY <1>2, <1>3, <1>4
  <1> QED
    BY <1>2, <1>4, <1>5, <1>6

LEMMA TakeKeeps ==
  ASSUME LinkInv, NEW c \in Client, Take(c)
  PROVE  LinkInv'
  <1>1. PICK m \in checked[c] :
          /\ checked' = [checked EXCEPT ![c] = checked[c] \ {m}]
          /\ heard' = [heard EXCEPT ![c][m.kind] = m.content]
          /\ UNCHANGED <<sent, last, number, wire>>
    BY DEF Take, serverVars
  <1>2. LinkTyped
    BY DEF LinkInv
  <1>3. /\ m.kind \in Kind /\ m.content \in Nat
        /\ \A d \in Client, k \in Kind :
             /\ heard[d][k] \in Nat
             /\ heard'[d][k] = IF d = c /\ k = m.kind THEN m.content ELSE heard[d][k]
        /\ heard' \in [Client -> Count]
    <2>1. Takes(c, m)
      BY <1>1 DEF Takes
    <2> QED
      BY <2>1, TakeRises
  <1>4. checked' \in [Client -> SUBSET Message]
    <2>1. checked \in [Client -> SUBSET Message]
      BY <1>2 DEF LinkTyped
    <2>2. checked[c] \ {m} \in SUBSET Message
      BY <2>1
    <2> QED
      BY <1>1, <2>1, <2>2
  <1>5. LinkTyped'
    BY <1>1, <1>2, <1>3, <1>4 DEF LinkTyped
  <1>6. Held(c)'
    <2>1. PICK floor \in Count :
            /\ Floor(c, floor) /\ Ascends(wire[c], floor, sent)
            /\ \A k \in Kind : floor[k] <= sent[k]
      BY DEF LinkInv, Held
    <2>2. checked'[c] = {}
      BY <1>1, <1>2 DEF LinkTyped, LinkInv, Held
    <2>3. \A k \in Kind : heard'[c][k] <= floor[k]
      BY <1>3, <2>1 DEF Floor
    <2>4. Floor(c, floor)'
      BY <2>1, <2>2, <2>3 DEF Floor
    <2>5. Ascends(wire[c], floor, sent)'
      BY <1>1, <2>1 DEF Ascends
    <2> QED
      BY <1>1, <2>1, <2>2, <2>4, <2>5 DEF Held
  <1>7. ASSUME NEW d \in Client \ {c} PROVE Held(d)'
    <2>1. checked'[d] = checked[d] /\ heard'[d] = heard[d]
      BY <1>1, <1>2, <1>7 DEF LinkTyped
    <2>2. /\ sent' \in Count /\ \A k \in Kind : sent[k] <= sent'[k]
          /\ sent' = sent /\ wire'[d] = wire[d]
      BY <1>1, <1>2 DEF LinkTyped, Count
    <2> QED
      BY <1>7, <2>1, <2>2, HeldStays
  <1> QED
    BY <1>1, <1>5, <1>6, <1>7 DEF LinkInv

LEMMA LinkInvariance == Spec => []LinkInv
  <1>1. ASSUME LinkInv, [Next]_vars PROVE LinkInv'
    <2>1. CASE Restart
      BY <1>1, <2>1, RestartKeeps
    <2>2. ASSUME NEW kind \in Kind, SendMessage(kind) PROVE LinkInv'
      BY <1>1, <2>2, SendMessageKeeps
    <2>3. ASSUME NEW c \in Client, Report(c) PROVE LinkInv'
      BY <1>1, <2>3, ReportKeeps
    <2>4. ASSUME NEW c \in Client, Silent(c) PROVE LinkInv'
      BY <1>1, <2>4, SilentKeeps
    <2>5. ASSUME NEW c \in Client, Online(c) PROVE LinkInv'
      BY <1>1, <2>5, StillKeeps DEF Online, serverVars, clientVars
    <2>6. ASSUME NEW c \in Client, Offline(c) PROVE LinkInv'
      BY <1>1, <2>6, OfflineKeeps
    <2>7. ASSUME NEW c \in Client, SendDomainMessage(c) PROVE LinkInv'
      BY <1>1, <2>7, SendDomainMessageKeeps
    <2>8. ASSUME NEW c \in Client, Check(c) PROVE LinkInv'
      BY <1>1, <2>8, CheckKeeps
    <2>9. ASSUME NEW c \in Client, Take(c) PROVE LinkInv'
      BY <1>1, <2>9, TakeKeeps
    <2>10. CASE UNCHANGED vars
      BY <1>1, <2>10, StillKeeps DEF vars
    <2> QED
      BY <1>1, <2>1, <2>2, <2>3, <2>4, <2>5, <2>6, <2>7, <2>8, <2>9, <2>10
         DEF Next, ClientStep
  <1> QED
    BY <1>1, InitLinkInv, PTL DEF Spec

\* A client takes the messages of the server in the order they were sent in, with any
\* transport, any number of clients, messages, broken connections and restarts, and any
\* depth of the queues.
THEOREM MessagesInOrder == Spec => InOrder
  <1>1. ASSUME LinkInv, [Next]_vars, NEW c \in Client, NEW k \in Kind
        PROVE  heard'[c][k] >= heard[c][k] \/ (k = "detail" /\ heard'[c][k] = 0)
    <2>1. LinkTyped
      BY <1>1 DEF LinkInv
    <2>2. CASE heard' = heard
      BY <2>1, <2>2 DEF LinkTyped, Count
    <2>3. ASSUME NEW d \in Client, SendDomainMessage(d), heard' # heard
          PROVE  heard'[c][k] >= heard[c][k] \/ (k = "detail" /\ heard'[c][k] = 0)
      <3>1. heard' = [heard EXCEPT ![d]["detail"] = 0]
        BY <2>3 DEF SendDomainMessage
      <3>2. heard[c][k] \in Nat
        BY <2>1 DEF LinkTyped, Count
      <3>3. heard'[c][k] = IF c = d /\ k = "detail" THEN 0 ELSE heard[c][k]
        BY <2>1, <3>1 DEF LinkTyped, Count
      <3> QED
        BY <3>2, <3>3
    <2>4. ASSUME NEW d \in Client, Take(d)
          PROVE  heard'[c][k] >= heard[c][k] \/ (k = "detail" /\ heard'[c][k] = 0)
      BY <1>1, <2>4, TakeRises DEF Take, Takes
    <2> QED
      BY <1>1, <2>2, <2>3, <2>4
         DEF Next, vars, ClientStep, SendMessage, Report, Silent, Online, Offline, Restart,
             Check, clientVars
  <1>2. LinkInv /\ [Next]_vars =>
          [ \A c \in Client, k \in Kind :
              heard'[c][k] >= heard[c][k] \/ (k = "detail" /\ heard'[c][k] = 0) ]_vars
    BY <1>1
  <1> QED
    BY <1>2, LinkInvariance, PTL DEF InOrder, Spec

-----------------------------------------------------------------------------
(* What the messages carry, for any number of changes.  The status a client  *)
(* has said, the server knows, and another client shows, is the same, or the *)
(* message that makes it so is on its way (WireInv).                         *)

\* A structure with values for its fields.
Filled(m, fields) ==
  m = [f \in fields |-> m[f]] /\ \A f \in fields : m[f] \in Values(f)

\* The server has just listed the domain, and knows nothing of it.
Unheard == report # Nothing /\ \E f \in Status : kept[f] # said[f]

WireInv ==
  /\ built \in {"fdbus", "ros", "vsomeip"}
  /\ Filled(orders, Orders \cup WebUrl) /\ Filled(said, ReportFields)
  /\ Filled(kept, DomainFields)
  /\ \A f \in Orders : obeyed[f] = orders[f]
  /\ said[<<"Domain", "name">>] = 1 /\ kept[<<"Domain", "name">>] = 1
  /\ report # Nothing => report = Written(said, ReportFields)
  /\ detail # Nothing => detail = Written(kept, Details)
  /\ report = Nothing => \A f \in Status : kept[f] = said[f]
  /\ detail = Nothing => Unheard \/ \A f \in Status : shown[f] = kept[f]

\* The numbers of an enumeration.
LEMMA EnumerationNumbered ==
  ASSUME NEW f
  PROVE  /\ DOMAIN Enumeration(f) \subseteq Nat
         /\ Enumerated(f) => 1 \in DOMAIN Enumeration(f)
  <1>1. Enumeration(f) \in
          {ServerStates, ClientStates, Controls, Answers, Methods, <<>>}
    BY DEF Enumeration
  <1>2. CASE Enumeration(f) = ServerStates
    BY <1>2 DEF ServerStates
  <1>3. CASE Enumeration(f) = ClientStates
    BY <1>3 DEF ClientStates
  <1>4. CASE Enumeration(f) = Controls
    BY <1>4 DEF Controls
  <1>5. CASE Enumeration(f) = Answers
    BY <1>5 DEF Answers
  <1>6. CASE Enumeration(f) = Methods
    BY <1>6 DEF Methods
  <1>7. CASE Enumeration(f) = <<>>
    BY <1>7 DEF Enumerated
  <1> QED
    BY <1>1, <1>2, <1>3, <1>4, <1>5, <1>6, <1>7

\* An enumerator is the one with its number.
LEMMA NumberBack ==
  ASSUME NEW f, Enumerated(f), NEW v \in Values(f)
  PROVE  Enumeration(f)[Number(f, v) + 1] = v
  <1>1. \E i \in DOMAIN Enumeration(f) : Enumeration(f)[i] = v
    BY DEF Values, Names
  <1>2. PICK n : n = CHOOSE i \in DOMAIN Enumeration(f) : Enumeration(f)[i] = v
    OBVIOUS
  <1>3. n \in DOMAIN Enumeration(f) /\ Enumeration(f)[n] = v
    BY <1>1, <1>2
  <1>4. n \in Nat /\ Number(f, v) = n - 1
    BY <1>2, <1>3, EnumerationNumbered DEF Number
  <1>5. Number(f, v) + 1 = n
    BY <1>4
  <1> QED
    BY <1>3, <1>5

LEMMA DefaultIsValue ==
  ASSUME NEW f
  PROVE  Default(f) \in Values(f)
  BY EnumerationNumbered DEF Default, Values, Names

\* What is written and read again is what it was.
LEMMA WrittenIsGot ==
  ASSUME NEW m, NEW fields, Filled(m, fields), NEW copied, NEW all,
         NEW f \in copied \cap fields \cap all
  PROVE  Got(Written(m, copied), copied, all)[f] = m[f]
  <1> DEFINE w == Written(m, copied)
  <1>1. DOMAIN m = fields /\ m[f] \in Values(f)
    BY DEF Filled
  <1>2. /\ DOMAIN w = copied \cap fields
        /\ w[f] = IF Enumerated(f) THEN Number(f, m[f]) ELSE m[f]
    BY <1>1 DEF Written
  <1> HIDE DEF w
  <1>3. Got(w, copied, all)[f] =
          IF Enumerated(f) THEN Enumeration(f)[w[f] + 1] ELSE w[f]
    BY <1>2 DEF Got
  <1>4. CASE Enumerated(f)
    BY <1>1, <1>2, <1>3, <1>4, NumberBack DEF w
  <1>5. CASE ~ Enumerated(f)
    BY <1>2, <1>3, <1>5 DEF w
  <1> QED
    BY <1>4, <1>5

\* A message with fields is there.
LEMMA WrittenIsThere ==
  ASSUME NEW m, NEW fields, Filled(m, fields), NEW copied, NEW f \in copied \cap fields
  PROVE  Written(m, copied) # Nothing
  <1>1. DOMAIN Written(m, copied) = copied \cap fields
    BY DEF Filled, Written
  <1>2. DOMAIN Nothing = {}
    BY DEF Nothing
  <1> QED
    BY <1>1, <1>2

\* The adapters copy all the fields there are.
LEMMA AdaptersCopy ==
  ASSUME built \in {"fdbus", "ros", "vsomeip"}
  PROVE  /\ ServerAdapter = [orders |-> Orders, report |-> ReportFields, details |-> Details]
         /\ ClientAdapter = [orders |-> Orders, report |-> ReportFields, details |-> Details]
  BY DEF ServerAdapter, ClientAdapter, FdbusServer, FdbusClient, RosServer, RosClient,
         VsomeipServer, VsomeipClient

LEMMA FieldSets ==
  /\ Status \subseteq DomainFields /\ DomainFields \subseteq ReportFields
  /\ DomainFields \subseteq Details
  /\ <<"Domain", "name">> \in DomainFields \ Status
  /\ <<"Domain", "state">> \in Status /\ <<"Domain", "last">> \in Status
  BY DEF Status, DomainFields, ReportFields, Details, Of

\* The name is no enumeration.
LEMMA NameValues == 1 \in Values(<<"Domain", "name">>)
  BY DEF Values, Enumerated, Enumeration, Of

LEMMA StateValues ==
  \A f \in {<<"Domain", "state">>, <<"Domain", "last">>} :
    "WR_OFFLINE" \in Values(f) /\ Default(f) = "WR_UNKNOWN"
  <1> SUFFICES ASSUME NEW f \in {<<"Domain", "state">>, <<"Domain", "last">>}
               PROVE  "WR_OFFLINE" \in Values(f) /\ Default(f) = "WR_UNKNOWN"
    OBVIOUS
  <1>1. Enumeration(f) = ClientStates
    BY DEF Enumeration, Of
  <1>2. /\ 1 \in DOMAIN ClientStates /\ ClientStates[1] = "WR_UNKNOWN"
        /\ 2 \in DOMAIN ClientStates /\ ClientStates[2] = "WR_OFFLINE"
        /\ ClientStates # <<>>
    BY DEF ClientStates
  <1> QED
    BY <1>1, <1>2 DEF Values, Default, Enumerated, Names

LEMMA FreshFilled ==
  ASSUME NEW fields
  PROVE  Filled(Fresh(fields), fields)
  BY DefaultIsValue DEF Filled, Fresh

\* A value of a field in place of another.
Put(m, f, v) == [m EXCEPT ![f] = v]

LEMMA FilledAnew ==
  ASSUME NEW m, NEW fields, Filled(m, fields), NEW f \in fields, NEW v \in Values(f)
  PROVE  /\ Filled(Put(m, f, v), fields)
         /\ Put(m, f, v)[f] = v
         /\ \A g \in fields \ {f} : Put(m, f, v)[g] = m[g]
  <1>1. DOMAIN m = fields
    BY DEF Filled
  <1>2. \A g \in fields : Put(m, f, v)[g] = IF g = f THEN v ELSE m[g]
    BY <1>1 DEF Put
  <1>3. Put(m, f, v) = [g \in fields |-> Put(m, f, v)[g]]
    BY <1>1 DEF Put
  <1> QED
    BY <1>2, <1>3 DEF Filled

LEMMA InitWireInv == WireInit => WireInv
  <1> SUFFICES ASSUME WireInit PROVE WireInv
    OBVIOUS
  <1> DEFINE name == <<"Domain", "name">>
             listing == Put(Named(Fresh(DomainFields)), <<"Domain", "state">>, "WR_OFFLINE")
  <1>1. built \in {"fdbus", "ros", "vsomeip"}
    BY WireAssumption DEF WireInit
  <1>2. /\ name \in DomainFields /\ name \in ReportFields /\ 1 \in Values(name)
        /\ <<"Domain", "state">> \in DomainFields /\ <<"Domain", "last">> \in DomainFields
        /\ <<"Domain", "state">> # name /\ <<"Domain", "last">> # name
        /\ <<"Domain", "state">> # <<"Domain", "last">>
    BY FieldSets, NameValues
  <1>3. \A fields : Filled(Fresh(fields), fields)
    BY FreshFilled
  <1>4. /\ Filled(said, ReportFields) /\ said[name] = 1
        /\ said[<<"Domain", "state">>] = "WR_UNKNOWN"
    <2>1. said = Put(Fresh(ReportFields), name, 1)
      BY DEF WireInit, Named, Put
    <2>2. Fresh(ReportFields)[<<"Domain", "state">>] = "WR_UNKNOWN"
      BY FieldSets, StateValues DEF Fresh
    <2>3. <<"Domain", "state">> \in ReportFields \ {name}
      BY <1>2, FieldSets
    <2> HIDE DEF name
    <2> QED
      BY <1>2, <1>3, <2>1, <2>2, <2>3, FilledAnew
  <1>5. /\ Filled(Named(Fresh(DomainFields)), DomainFields)
        /\ Named(Fresh(DomainFields))[name] = 1
    <2>1. Named(Fresh(DomainFields)) = Put(Fresh(DomainFields), name, 1)
      BY DEF Named, Put
    <2> HIDE DEF name
    <2> QED
      BY <1>2, <1>3, <2>1, FilledAnew
  <1>6. /\ Filled(listing, DomainFields) /\ listing[name] = 1
        /\ listing[<<"Domain", "state">>] = "WR_OFFLINE"
    <2> HIDE DEF name
    <2>1. "WR_OFFLINE" \in Values(<<"Domain", "state">>)
      BY StateValues
    <2> QED
      BY <1>2, <1>5, <2>1, FilledAnew
  <1>7. /\ Filled(kept, DomainFields) /\ kept[name] = 1
        /\ kept[<<"Domain", "state">>] = "WR_OFFLINE"
    <2>1. kept = Put(listing, <<"Domain", "last">>, "WR_OFFLINE")
      BY DEF WireInit, Put
    <2> HIDE DEF name, listing
    <2>2. "WR_OFFLINE" \in Values(<<"Domain", "last">>)
      BY StateValues
    <2> QED
      BY <1>2, <1>6, <2>1, <2>2, FilledAnew
  <1>8. report = Written(said, ReportFields) /\ report # Nothing
    <2>1. report = Written(said, ReportFields)
      BY <1>1, AdaptersCopy DEF WireInit
    <2> QED
      BY <1>2, <1>4, <2>1, WrittenIsThere
  <1>9. Unheard
    <2>1. kept[<<"Domain", "state">>] # said[<<"Domain", "state">>]
      BY <1>4, <1>7
    <2> QED
      BY <1>8, <2>1, FieldSets DEF Unheard
  <1>10. Filled(orders, Orders \cup WebUrl) /\ obeyed = orders /\ detail = Nothing
    BY <1>3 DEF WireInit
  <1> QED
    BY <1>1, <1>4, <1>7, <1>8, <1>9, <1>10 DEF WireInv

LEMMA SendControlCarries ==
  ASSUME WireInv, SendControlMessage
  PROVE  WireInv'
  <1>1. PICK f \in DOMAIN orders : \E v \in Values(f) \ {orders[f]} :
          LET m == [orders EXCEPT ![f] = v]
          IN /\ orders' = m
             /\ obeyed' = Got(Written(m, ServerAdapter.orders), ClientAdapter.orders,
                              DOMAIN m)
    BY DEF SendControlMessage
  <1>2. PICK v, m :
          /\ v \in Values(f)
          /\ m = [orders EXCEPT ![f] = v] /\ orders' = m
          /\ obeyed' = Got(Written(m, ServerAdapter.orders), ClientAdapter.orders, DOMAIN m)
    BY <1>1
  <1>3. DOMAIN orders = Orders \cup WebUrl /\ Filled(orders, Orders \cup WebUrl)
    BY DEF WireInv, Filled
  <1>4. Filled(m, Orders \cup WebUrl)
    <2>1. m = Put(orders, f, v)
      BY <1>2 DEF Put
    <2>2. f \in Orders \cup WebUrl /\ v \in Values(f)
      BY <1>2, <1>3
    <2> QED
      BY <1>3, <2>1, <2>2, FilledAnew
  <1>5. DOMAIN m = Orders \cup WebUrl
    BY <1>4 DEF Filled
  <1>6. obeyed' = Got(Written(m, Orders), Orders, Orders \cup WebUrl)
    BY <1>2, <1>5, AdaptersCopy DEF WireInv
  <1>7. \A g \in Orders : obeyed'[g] = m[g]
    BY <1>4, <1>6, WrittenIsGot
  <1>8. UNCHANGED <<built, said, report, kept, detail, shown>>
    BY DEF SendControlMessage
  <1> QED
    BY <1>2, <1>4, <1>7, <1>8 DEF WireInv, Unheard, Filled

LEMMA SendDomainCarries ==
  ASSUME WireInv, SendDomain
  PROVE  WireInv'
  <1>1. /\ UNCHANGED <<built, orders, obeyed, kept, detail, shown>> /\ report = Nothing
        /\ \E f \in ReportFields \ Of("Domain", {"name"}) :
             \E v \in Values(f) \ {said[f]} :
               said' = [said EXCEPT ![f] = v] /\ report' = Written(said', ClientAdapter.report)
    BY DEF SendDomain
  <1>2. PICK f \in ReportFields \ Of("Domain", {"name"}) :
          \E v \in Values(f) \ {said[f]} :
            said' = [said EXCEPT ![f] = v] /\ report' = Written(said', ClientAdapter.report)
    BY <1>1
  <1>3. PICK v \in Values(f) :
          said' = [said EXCEPT ![f] = v] /\ report' = Written(said', ClientAdapter.report)
    BY <1>2
  <1> DEFINE name == <<"Domain", "name">>
  <1>4. name \in ReportFields \ {f}
    BY <1>2, FieldSets DEF Of
  <1>5. Filled(said, ReportFields) /\ said[name] = 1
    BY DEF WireInv
  <1>6. Filled(said', ReportFields) /\ said'[name] = 1
    <2> HIDE DEF name
    <2>1. PICK m : m = Put(said, f, v)
      OBVIOUS
    <2>2. Filled(m, ReportFields) /\ m[name] = 1
      BY <1>3, <1>4, <1>5, <2>1, FilledAnew
    <2> QED
      BY <1>3, <2>1, <2>2 DEF Put
  <1>7. report' = Written(said', ReportFields)
    BY <1>3, AdaptersCopy DEF WireInv
  <1>8. report' # Nothing
    <2>1. PICK m : m = said'
      OBVIOUS
    <2> QED
      BY <1>4, <1>6, <1>7, <2>1, WrittenIsThere
  <1> QED
    BY <1>1, <1>6, <1>7, <1>8 DEF WireInv, Unheard, Filled, Written

LEMMA ResDomainCarries ==
  ASSUME WireInv, ResDomain
  PROVE  WireInv'
  <1> DEFINE name == <<"Domain", "name">>
  <1>1. PICK m : m = Got(report, ServerAdapter.report, ReportFields)
    OBVIOUS
  <1>2. /\ report # Nothing /\ detail = Nothing /\ report' = Nothing
        /\ UNCHANGED <<built, orders, obeyed, said, shown>>
        /\ IF m[name] # kept[name] \/ IsEqual(kept, m)
           THEN UNCHANGED <<kept, detail>>
           ELSE kept' = Update(kept, m) /\ detail' = Written(kept', ServerAdapter.details)
    BY <1>1 DEF ResDomain
  <1>3. \A f \in ReportFields : m[f] = said[f]
    <2>1. m = Got(Written(said, ReportFields), ReportFields, ReportFields)
      BY <1>1, <1>2, AdaptersCopy DEF WireInv
    <2>2. Filled(said, ReportFields)
      BY DEF WireInv
    <2> QED
      BY <2>1, <2>2, WrittenIsGot
  <1>4. m[name] = kept[name]
    BY <1>3, FieldSets DEF WireInv
  <1> HIDE DEF name
  <1>5. IsEqual(kept, m) = \A f \in Status : kept[f] = said[f]
    BY <1>3, FieldSets DEF IsEqual
  <1>6. CASE IsEqual(kept, m)
    <2>1. UNCHANGED <<kept, detail>>
      BY <1>2, <1>6
    <2>2. \A f \in Status : kept[f] = said[f]
      BY <1>5, <1>6
    <2>3. \A f \in Status : shown[f] = kept[f]
      BY <1>2, <2>2 DEF WireInv, Unheard
    <2> QED
      BY <1>2, <2>1, <2>2, <2>3 DEF WireInv, Unheard, Filled
  <1>7. CASE ~ IsEqual(kept, m)
    <2>1. PICK d : d = Update(kept, m)
      OBVIOUS
    <2>2. kept' = d /\ detail' = Written(d, Details)
      BY <1>2, <1>4, <1>7, <2>1, AdaptersCopy DEF WireInv
    <2>3. /\ \A f \in Status : d[f] = said[f]
          /\ \A f \in DomainFields \ Status : d[f] = kept[f]
      BY <1>3, <2>1, FieldSets DEF Update
    <2>4. Filled(d, DomainFields)
      <3>1. d = [f \in DomainFields |-> d[f]]
        BY <2>1 DEF Update
      <3>2. \A f \in DomainFields : d[f] \in Values(f)
        BY <2>3, FieldSets DEF WireInv, Filled
      <3> QED
        BY <3>1, <3>2 DEF Filled
    <2>5. d[<<"Domain", "name">>] = 1
      BY <2>3, FieldSets DEF WireInv
    <2>6. Written(d, Details) # Nothing
      BY <2>4, FieldSets, WrittenIsThere
    <2> QED
      BY <1>2, <2>2, <2>3, <2>4, <2>5, <2>6 DEF WireInv, Unheard, Filled
  <1> QED
    BY <1>6, <1>7

LEMMA ResDetailCarries ==
  ASSUME WireInv, ResDetail
  PROVE  WireInv'
  <1>1. /\ detail # Nothing /\ detail' = Nothing
        /\ UNCHANGED <<built, orders, obeyed, said, report, kept>>
        /\ shown' = Got(Written(kept, Details), Details, DomainFields)
    BY AdaptersCopy DEF ResDetail, WireInv
  <1>2. \A f \in DomainFields : shown'[f] = kept[f]
    <2>1. Filled(kept, DomainFields)
      BY DEF WireInv
    <2> QED
      BY <1>1, <2>1, FieldSets, WrittenIsGot
  <1> QED
    BY <1>1, <1>2, FieldSets DEF WireInv, Unheard, Filled

LEMMA WireInvariance == WireSpec => []WireInv
  <1>1. ASSUME WireInv, [WireNext]_wireVars PROVE WireInv'
    <2>1. CASE UNCHANGED wireVars
      BY <1>1, <2>1 DEF WireInv, wireVars, Unheard, Filled, Written
    <2> QED
      BY <1>1, <2>1, SendControlCarries, SendDomainCarries, ResDomainCarries,
         ResDetailCarries DEF WireNext
  <1> QED
    BY <1>1, InitWireInv, PTL DEF WireSpec

\* What was said is what is known at the other end, when nothing is on its way, with any
\* transport and after any number of changes.
THEOREM EveryFieldCarried == WireSpec => []FieldsCarried
  <1>1. WireInv => FieldsCarried
    BY DEF WireInv, Unheard, FieldsCarried
  <1> QED
    BY <1>1, WireInvariance, PTL

=============================================================================
