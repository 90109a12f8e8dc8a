------------------------- MODULE EventStreamProofs -------------------------
(***************************************************************************)
(* Proofs about EventStream for any number of panels and events.            *)
(***************************************************************************)
EXTENDS EventStream, FiniteSetTheorems, TLAPS

(***************************************************************************)
(* Types.                                                                  *)
(***************************************************************************)
LEMMA EventInitTypes == EventInit => EventTypeOK
BY EventAssumption DEF EventInit, EventTypeOK, Events, Ids, Links, NoLink

LEMMA StartTypes ==
  ASSUME EventTypeOK, NEW p \in Panels, StartConnection(p)
  PROVE  /\ reconnectTimer' \in [Panels -> BOOLEAN]
         /\ link' \in [Panels -> Links]
<1>1. Asking(lastEventId) \in Links
  <2>1. lastEventId \in Ids /\ 0 \in Ids
    BY EventAssumption DEF EventTypeOK, Ids
  <2> QED BY <2>1 DEF Links, Asking
<1> QED BY <1>1 DEF EventTypeOK, StartConnection

LEMMA AnsweredTypes ==
  ASSUME EventTypeOK, NEW p \in Panels, NEW id \in Events,
         CheckPending(p, id), Answered(p, id)
  PROVE  checks' \in [Panels -> [Events -> 0..MaxChecks]]
<1>1. checks[p] \in [Events -> 0..MaxChecks]  BY DEF EventTypeOK
<1>2. checks[p][id] - 1 \in 0..MaxChecks
  BY <1>1, EventAssumption DEF CheckPending
<1>3. [checks[p] EXCEPT ![id] = @ - 1] \in [Events -> 0..MaxChecks]
  BY <1>1, <1>2
<1> QED BY <1>3 DEF Answered, EventTypeOK

LEMMA MishapTypes == ASSUME EventTypeOK, Break PROVE breaks' \in 0..MaxBreaks
BY EventAssumption DEF EventTypeOK, Break

LEMMA LinkFields ==
  ASSUME EventTypeOK, NEW p \in Panels
  PROVE  /\ link[p] \in Links
         /\ link[p].since \in Nat /\ link[p].cursor \in Nat
         /\ link[p].wire \subseteq Events /\ lastEventId \in Nat
         /\ Events \subseteq Nat /\ Events \subseteq Ids /\ 0 \in Ids
BY EventAssumption DEF EventTypeOK, Links, Ids, Events

LEMMA RowFacts ==
  ASSUME EventTypeOK, NEW c \in Nat, NEW r \in Rows(c)
  PROVE  /\ r \in recorded /\ r \in Events /\ r > c
         /\ \A e \in recorded : e > c /\ e =< r => e \in Rows(c)
<1> DEFINE later == {e \in recorded : e > c}
           upTo(e) == {f \in later : f =< e}
<1>1. recorded \subseteq Events /\ Events \subseteq Nat
  BY EventAssumption DEF EventTypeOK, Events
<1>2. r \in later /\ Cardinality(upTo(r)) =< BufferLimit + 1  BY DEF Rows
<1>3. ASSUME NEW e \in recorded, e > c, e =< r  PROVE e \in Rows(c)
  <2>1. upTo(e) \subseteq upTo(r)
    <3> SUFFICES ASSUME NEW f \in later, f =< e  PROVE f =< r  OBVIOUS
    <3>1. f \in Nat /\ e \in Nat /\ r \in Nat  BY <1>1, <1>2
    <3> QED BY <3>1, <1>3
  <2>2. IsFiniteSet(upTo(r))
    <3>1. IsFiniteSet(1..MaxEvents)  BY FS_Interval, EventAssumption
    <3>2. upTo(r) \subseteq 1..MaxEvents  BY <1>1 DEF Events
    <3> QED BY <3>1, <3>2, FS_Subset
  <2>3. Cardinality(upTo(e)) =< Cardinality(upTo(r)) /\ IsFiniteSet(upTo(e))
    BY <2>1, <2>2, FS_Subset
  <2>4. Cardinality(upTo(e)) \in Nat /\ Cardinality(upTo(r)) \in Nat
    BY <2>2, <2>3, FS_CardinalityType
  <2>5. Cardinality(upTo(e)) =< BufferLimit + 1
    BY <1>2, <2>3, <2>4, EventAssumption
  <2> QED BY <2>5, <1>3 DEF Rows
<1> QED BY <1>1, <1>2, <1>3

LEMMA EventStepTypes == EventTypeOK /\ [EventNext]_eventVars => EventTypeOK'
<1> SUFFICES ASSUME EventTypeOK, [EventNext]_eventVars PROVE EventTypeOK'
  OBVIOUS
<1>1. CASE UNCHANGED eventVars  BY <1>1 DEF eventVars, EventTypeOK
<1>2. ASSUME NEW e \in Events, Persist(e)  PROVE EventTypeOK'
  BY <1>2 DEF Persist, EventTypeOK
<1>3. CASE JournalRestored
  BY <1>3, MishapTypes DEF JournalRestored, EventTypeOK
<1>4. ASSUME NEW p \in Panels, PanelStep(p)  PROVE EventTypeOK'
  <2> USE LinkFields
  <2>1. CASE OpenPanel(p)
    BY <2>1, StartTypes DEF OpenPanel, EventTypeOK
  <2>2. CASE ClosePanel(p)
    <3>1. NoLink \in Links  BY DEF NoLink, Links
    <3> QED BY <2>2, <3>1 DEF ClosePanel, EventTypeOK
  <2>3. CASE ReconnectFires(p)
    BY <2>3, StartTypes DEF ReconnectFires, EventTypeOK
  <2>4. CASE UserReconnects(p)
    BY <2>4, StartTypes, MishapTypes DEF UserReconnects, EventTypeOK
  <2>5. CASE Receive(p)
    <3>1. PICK e \in link[p].wire :
            /\ lastEventId' = e /\ given' = given \cup {e}
            /\ link' = [link EXCEPT ![p].wire = @ \ {e}]
      BY <2>5 DEF Receive
    <3>2. [link[p] EXCEPT !.wire = @ \ {e}] \in Links  BY DEF Links
    <3>3. link' \in [Panels -> Links]  BY <3>1, <3>2 DEF EventTypeOK
    <3> QED BY <2>5, <3>1, <3>3 DEF Receive, EventTypeOK
  <2>6. CASE LinkErrs(p)
    <3> DEFINE id == link[p].since
    <3>1. checks' \in [Panels -> [Events -> 0..MaxChecks]]
      <4>1. CASE id = 0  BY <2>6, <4>1 DEF LinkErrs, EventTypeOK
      <4>2. CASE id # 0
        <5>1. id \in Events
          BY <4>2, EventAssumption DEF EventTypeOK, Links, Ids, Events
        <5>2. checks[p] \in [Events -> 0..MaxChecks]  BY DEF EventTypeOK
        <5>3. checks[p][id] + 1 \in 0..MaxChecks
          BY <2>6, <4>2, <5>1, <5>2, EventAssumption DEF LinkErrs
        <5>4. [checks[p] EXCEPT ![id] = @ + 1] \in [Events -> 0..MaxChecks]
          BY <5>2, <5>3
        <5> QED BY <2>6, <4>2, <5>4 DEF LinkErrs, EventTypeOK
      <4> QED BY <4>1, <4>2
    <3>2. NoLink \in Links  BY DEF NoLink, Links
    <3> QED BY <2>6, <3>1, <3>2 DEF LinkErrs, EventTypeOK
  <2>7. CASE ResolveNewest(p)
    <3>1. PICK newest \in Ids :
            link' = [link EXCEPT ![p].at = "open", ![p].cursor = newest]
      BY <2>7 DEF ResolveNewest
    <3>2. [link[p] EXCEPT !.at = "open", !.cursor = newest] \in Links  BY DEF Links
    <3>3. link' \in [Panels -> Links]  BY <3>1, <3>2 DEF EventTypeOK
    <3> QED BY <2>7, <3>3 DEF ResolveNewest, LinkKeeps, EventTypeOK
  <2>8. CASE ResolveId(p)
    <3>1. /\ [link[p] EXCEPT !.at = "open", !.cursor = link[p].since] \in Links
          /\ [link[p] EXCEPT !.at = "ended"] \in Links
      BY DEF Links
    <3>2. link' \in [Panels -> Links]
      BY <2>8, <3>1 DEF ResolveId, Ended, EventTypeOK
    <3> QED BY <2>8, <3>2 DEF ResolveId, LinkKeeps, EventTypeOK
  <2>9. CASE Poll(p)
    <3>1. PICK last \in Rows(link[p].cursor) :
            link' = [link EXCEPT ![p].cursor = last,
                                 ![p].wire = @ \cup Buffer(link[p].cursor)]
      BY <2>9 DEF Poll
    <3>2. last \in Events /\ Buffer(link[p].cursor) \subseteq Events
      BY RowFacts DEF Buffer
    <3>3. [link[p] EXCEPT !.cursor = last,
             !.wire = @ \cup Buffer(link[p].cursor)] \in Links
      BY <3>2 DEF Links
    <3>4. link' \in [Panels -> Links]  BY <3>1, <3>3 DEF EventTypeOK
    <3> QED BY <2>9, <3>4 DEF Poll, LinkKeeps, EventTypeOK
  <2>10. CASE PollOverflows(p)
    <3>1. [link[p] EXCEPT !.at = "ended"] \in Links  BY DEF Links
    <3>2. link' \in [Panels -> Links]
      BY <2>10, <3>1 DEF PollOverflows, Ended, EventTypeOK
    <3> QED BY <2>10, <3>2 DEF PollOverflows, LinkKeeps, EventTypeOK
  <2>11. CASE PollBackpressured(p)
    <3> DEFINE sent(l) == {e \in Buffer(link[p].cursor) : e =< l}
    <3>1. PICK last \in Buffer(link[p].cursor) :
            link' = [link EXCEPT ![p].at = "ended", ![p].cursor = last,
                                 ![p].wire = @ \cup sent(last)]
      BY <2>11 DEF PollBackpressured
    <3>2. last \in Events /\ sent(last) \subseteq Events
      BY RowFacts DEF Buffer
    <3>3. [link[p] EXCEPT !.at = "ended", !.cursor = last,
             !.wire = @ \cup sent(last)] \in Links
      BY <3>2 DEF Links
    <3>4. link' \in [Panels -> Links]  BY <3>1, <3>3 DEF EventTypeOK
    <3> QED BY <2>11, <3>4 DEF PollBackpressured, LinkKeeps, EventTypeOK
  <2>12. CASE QueryFails(p)
    <3>1. [link[p] EXCEPT !.at = "ended"] \in Links  BY DEF Links
    <3>2. link' \in [Panels -> Links]
      BY <2>12, <3>1 DEF QueryFails, Ended, EventTypeOK
    <3> QED BY <2>12, <3>2, MishapTypes DEF QueryFails, LinkKeeps, EventTypeOK
  <2>13. CASE LinkBreaks(p)
    <3>1. [link[p] EXCEPT !.at = "ended", !.wire = {}] \in Links  BY DEF Links
    <3>2. link' \in [Panels -> Links]  BY <2>13, <3>1 DEF LinkBreaks, EventTypeOK
    <3> QED BY <2>13, <3>2, MishapTypes DEF LinkBreaks, LinkKeeps, EventTypeOK
  <2>14. ASSUME NEW id \in Events, CheckAnswers(p, id)  PROVE EventTypeOK'
    <3>1. checks' \in [Panels -> [Events -> 0..MaxChecks]]
      BY <2>14, AnsweredTypes DEF CheckAnswers
    <3>2. lastEventId' \in Ids /\ reconnectTimer' \in [Panels -> BOOLEAN]
      BY <2>14 DEF CheckAnswers, EventTypeOK
    <3> QED BY <2>14, <3>1, <3>2 DEF CheckAnswers, EventTypeOK
  <2>15. ASSUME NEW id \in Events, CheckFails(p, id)  PROVE EventTypeOK'
    <3>1. checks' \in [Panels -> [Events -> 0..MaxChecks]]
      BY <2>15, AnsweredTypes DEF CheckFails
    <3> QED BY <2>15, <3>1, MishapTypes DEF CheckFails, EventTypeOK
  <2> QED BY <1>4, <2>1, <2>2, <2>3, <2>4, <2>5, <2>6, <2>7, <2>8, <2>9, <2>10,
             <2>11, <2>12, <2>13, <2>14, <2>15 DEF PanelStep, ResolveCursor, PollStep
<1> QED BY <1>1, <1>2, <1>3, <1>4 DEF EventNext

\* Journal, panels, links and checks keep their types.
THEOREM EventTypes == EventSpec => []EventTypeOK
<1> QED BY EventInitTypes, EventStepTypes, PTL DEF EventSpec

(***************************************************************************)
(* Nothing that is owed is lost.  Each place from which a stream may go on  *)
(* is safe: the id that is kept (NothingLost), the id a panel has asked     *)
(* with, the cursor of an open stream, and each event on the wire, which    *)
(* may become the id that is kept.                                          *)
(***************************************************************************)
GivenUpTo(id) == \A e \in Owed : e =< id => e \in given
GivenOrOnWire(p, id) == \A e \in Owed : e =< id => e \in given \cup link[p].wire

LinkSafe(p) ==
  /\ link[p].at = "asked" => GivenUpTo(link[p].since)
  /\ link[p].at = "open" => GivenOrOnWire(p, link[p].cursor)
  /\ \A w \in link[p].wire : /\ link[p].at \in {"open", "ended"}
                             /\ w =< link[p].cursor
                             /\ GivenOrOnWire(p, w)

EventInv == EventTypeOK /\ NothingLost /\ \A p \in Panels : LinkSafe(p)

LEMMA EventInitInv == EventInit => EventInv
BY EventInitTypes
   DEF EventInit, EventInv, NothingLost, LinkSafe, Owed, NoLink

LEMMA OwedEvents ==
  ASSUME EventTypeOK PROVE Owed \subseteq Events /\ Events \subseteq Nat \ {0}
BY EventAssumption DEF EventTypeOK, Owed, Events

\* Less is owed and more was given; the links are what they were.
LEMMA LinksKeep ==
  ASSUME EventInv, Owed' \subseteq Owed, given \subseteq given',
         NEW p \in Panels, link'[p] = link[p]
  PROVE  LinkSafe(p)'
BY DEF EventInv, LinkSafe, GivenUpTo, GivenOrOnWire

LEMMA NoLinkSafe ==
  ASSUME NEW p \in Panels, link'[p] = NoLink  PROVE LinkSafe(p)'
BY DEF LinkSafe, NoLink

\* Ending a stream is safe, with what is on the wire or without it.
LEMMA EndedSafe ==
  ASSUME EventInv, Owed' \subseteq Owed, given \subseteq given', NEW p \in Panels,
         link'[p].at = "ended", link'[p].cursor = link[p].cursor,
         link'[p].wire \in {link[p].wire, {}}
  PROVE  LinkSafe(p)'
BY DEF EventInv, LinkSafe, GivenOrOnWire

\* A new connection asks with the id that is kept.
LEMMA StartSafe ==
  ASSUME EventInv, NEW p \in Panels, StartConnection(p),
         UNCHANGED <<recorded, excused, given, lastEventId>>
  PROVE  NothingLost' /\ \A q \in Panels : LinkSafe(q)'
<1>1. Owed' = Owed  BY DEF Owed
<1>2. NothingLost'  BY <1>1 DEF EventInv, NothingLost
<1>3. link'[p] = Asking(lastEventId)
  BY DEF StartConnection, EventInv, EventTypeOK
<1>4. LinkSafe(p)'
  BY <1>1, <1>3 DEF LinkSafe, Asking, GivenUpTo, EventInv, NothingLost
<1>5. ASSUME NEW q \in Panels, q # p  PROVE LinkSafe(q)'
  <2>1. link'[q] = link[q]  BY <1>5 DEF StartConnection, EventInv, EventTypeOK
  <2> QED BY <1>1, <2>1, LinksKeep
<1> QED BY <1>2, <1>4, <1>5

\* A step of p's stream that leaves the journal and the browser as they are.
LEMMA OneLink ==
  ASSUME EventInv, NEW p \in Panels, NEW l, link' = [link EXCEPT ![p] = l],
         Owed' \subseteq Owed, UNCHANGED <<given, lastEventId>>, LinkSafe(p)'
  PROVE  NothingLost' /\ \A q \in Panels : LinkSafe(q)'
<1>1. NothingLost'  BY DEF EventInv, NothingLost
<1>2. ASSUME NEW q \in Panels, q # p  PROVE LinkSafe(q)'
  <2>1. link'[q] = link[q]  BY <1>2 DEF EventInv, EventTypeOK
  <2> QED BY <2>1, LinksKeep
<1> QED BY <1>1, <1>2

LEMMA PersistSafe ==
  ASSUME EventInv, NEW n \in Events, Persist(n)
  PROVE  NothingLost' /\ \A p \in Panels : LinkSafe(p)'
<1>1. Owed' \subseteq Owed \cup {n}  BY DEF Persist, Owed
<1>2. n \in Owed' => ~Behind(n)  BY DEF Persist, Owed
<1>3. NothingLost'
  BY <1>1, <1>2 DEF Persist, Behind, EventInv, NothingLost
<1>4. ASSUME NEW p \in Panels  PROVE LinkSafe(p)'
  <2>1. link'[p] = link[p] /\ given' = given  BY DEF Persist
  <2>2. (link[p].at = "asked" => GivenUpTo(link[p].since))'
    BY <1>1, <1>2, <2>1 DEF Behind, EventInv, LinkSafe, GivenUpTo
  <2>3. (link[p].at = "open" => GivenOrOnWire(p, link[p].cursor))'
    BY <1>1, <1>2, <2>1 DEF Behind, EventInv, LinkSafe, GivenOrOnWire
  <2>4. ASSUME NEW w \in link[p].wire
        PROVE  /\ link[p].at \in {"open", "ended"} /\ w =< link[p].cursor
               /\ GivenOrOnWire(p, w)'
    <3>1. /\ link[p].at \in {"open", "ended"} /\ w =< link[p].cursor
          /\ GivenOrOnWire(p, w)
      BY DEF EventInv, LinkSafe
    <3>2. w \in Nat /\ n \in Nat /\ link[p].cursor \in Nat
      BY LinkFields DEF EventInv
    <3>3. n \in Owed' => ~(n =< w)
      BY <1>2, <3>1, <3>2 DEF Behind
    <3> QED BY <1>1, <2>1, <3>1, <3>3 DEF GivenOrOnWire
  <2> QED BY <2>1, <2>2, <2>3, <2>4 DEF LinkSafe
<1> QED BY <1>3, <1>4

LEMMA ReceiveSafe ==
  ASSUME EventInv, NEW p \in Panels, Receive(p)
  PROVE  NothingLost' /\ \A q \in Panels : LinkSafe(q)'
<1>1. PICK e \in link[p].wire :
        /\ \A f \in link[p].wire : e =< f
        /\ lastEventId' = e /\ given' = given \cup {e}
        /\ link' = [link EXCEPT ![p].wire = @ \ {e}]
  BY DEF Receive
<1>2. Owed' = Owed /\ Owed \subseteq Nat  BY OwedEvents DEF Receive, Owed, EventInv
<1>3. e \in Nat /\ link[p].wire \subseteq Nat  BY LinkFields DEF EventInv
<1>4. NothingLost'
  <2> SUFFICES ASSUME NEW o \in Owed, o =< e  PROVE o \in given \cup {e}
    BY <1>1, <1>2 DEF NothingLost
  <2>1. o \in given \cup link[p].wire
    BY <1>1 DEF EventInv, LinkSafe, GivenOrOnWire
  <2>2. CASE o \in link[p].wire
    <3>1. e =< o /\ o \in Nat  BY <2>2, <1>1, <1>3
    <3> QED BY <3>1, <1>3
  <2> QED BY <2>1, <2>2
<1>5. ASSUME NEW q \in Panels  PROVE LinkSafe(q)'
  <2>1. CASE q = p
    <3>1. /\ link'[p].at = link[p].at /\ link'[p].since = link[p].since
          /\ link'[p].cursor = link[p].cursor
          /\ link'[p].wire = link[p].wire \ {e}
      BY <1>1 DEF EventInv, EventTypeOK, Links
    <3> QED BY <1>1, <1>2, <2>1, <3>1
            DEF EventInv, LinkSafe, GivenUpTo, GivenOrOnWire
  <2>2. CASE q # p
    <3>1. link'[q] = link[q]  BY <1>1, <2>2 DEF EventInv, EventTypeOK
    <3> QED BY <1>1, <1>2, <3>1, LinksKeep
  <2> QED BY <2>1, <2>2
<1> QED BY <1>4, <1>5

LEMMA ResolveSafe ==
  ASSUME EventInv, NEW p \in Panels, ResolveCursor(p)
  PROVE  NothingLost' /\ \A q \in Panels : LinkSafe(q)'
<1> DEFINE since == link[p].since
<1>1. link[p].at = "asked" /\ link[p].wire = {}
  BY DEF ResolveCursor, ResolveNewest, ResolveId, EventInv, LinkSafe
<1>2. CASE ResolveNewest(p)
  <2>1. PICK newest \in Ids :
          link' = [link EXCEPT ![p].at = "open", ![p].cursor = newest]
    BY <1>2 DEF ResolveNewest
  <2>2. Owed' = {} /\ UNCHANGED <<given, lastEventId>>
    BY <1>2 DEF ResolveNewest, LinkKeeps, Owed
  <2>3. link'[p].at = "open" /\ link'[p].wire = {}
    BY <1>1, <2>1 DEF EventInv, EventTypeOK, Links
  <2>4. LinkSafe(p)'  BY <2>2, <2>3 DEF LinkSafe, GivenOrOnWire
  <2> QED BY <2>1, <2>2, <2>4, OneLink
<1>3. CASE ResolveId(p)
  <2>1. Owed' = Owed /\ UNCHANGED <<given, lastEventId>>
    BY <1>3 DEF ResolveId, LinkKeeps, Owed
  <2>2. CASE since \in recorded
    <3>1. link' = [link EXCEPT ![p].at = "open", ![p].cursor = since]
      BY <1>3, <2>2 DEF ResolveId
    <3>2. /\ link'[p].at = "open" /\ link'[p].wire = {}
          /\ link'[p].cursor = since
      BY <1>1, <3>1 DEF EventInv, EventTypeOK, Links
    <3>3. GivenUpTo(since)  BY <1>1 DEF EventInv, LinkSafe
    <3>4. LinkSafe(p)'
      BY <2>1, <3>2, <3>3 DEF LinkSafe, GivenUpTo, GivenOrOnWire
    <3> QED BY <2>1, <3>1, <3>4, OneLink
  <2>3. CASE since \notin recorded
    <3>1. link' = [link EXCEPT ![p].at = "ended"]
      BY <1>3, <2>3 DEF ResolveId, Ended
    <3>2. link'[p].at = "ended" /\ link'[p].wire = {}
      BY <1>1, <3>1 DEF EventInv, EventTypeOK, Links
    <3>3. LinkSafe(p)'  BY <3>2 DEF LinkSafe
    <3> QED BY <2>1, <3>1, <3>3, OneLink
  <2> QED BY <2>2, <2>3
<1> QED BY <1>2, <1>3 DEF ResolveCursor

\* What an open stream writes up to a row is all that is owed up to it.
LEMMA WrittenUpTo ==
  ASSUME EventInv, NEW p \in Panels, link[p].at = "open",
         NEW r \in Rows(link[p].cursor), NEW o \in Owed, o =< r
  PROVE  o \in given \cup link[p].wire \cup Buffer(link[p].cursor)
<1> DEFINE c == link[p].cursor
<1>1. c \in Nat /\ o \in Nat  BY LinkFields, OwedEvents DEF EventInv
<1>2. CASE o =< c  BY <1>2 DEF EventInv, LinkSafe, GivenOrOnWire
<1>3. CASE o > c
  <2>1. o \in recorded /\ o \notin Unreadable  BY DEF Owed
  <2>2. o \in Rows(c)  BY <1>1, <1>3, <2>1, RowFacts DEF EventInv
  <2> QED BY <2>1, <2>2 DEF Buffer
<1> QED BY <1>1, <1>2, <1>3

LEMMA PollSafe ==
  ASSUME EventInv, NEW p \in Panels, PollStep(p)
  PROVE  NothingLost' /\ \A q \in Panels : LinkSafe(q)'
<1> DEFINE c == link[p].cursor
<1>1. link[p].at = "open"
  BY DEF PollStep, Poll, PollOverflows, PollBackpressured
<1>2. Owed' = Owed /\ UNCHANGED <<given, lastEventId>>
  BY DEF PollStep, Poll, PollOverflows, PollBackpressured, LinkKeeps, Owed
<1>3. c \in Nat /\ link[p].wire \subseteq Nat  BY LinkFields DEF EventInv
<1>4. \A w \in link[p].wire : w =< c /\ GivenOrOnWire(p, w)
  BY DEF EventInv, LinkSafe
<1>5. CASE Poll(p)
  <2>1. PICK last \in Rows(c) :
          /\ IsLast(last, Rows(c))
          /\ link' = [link EXCEPT ![p].cursor = last, ![p].wire = @ \cup Buffer(c)]
    BY <1>5 DEF Poll
  <2>2. /\ link'[p].at = "open" /\ link'[p].cursor = last
        /\ link'[p].wire = link[p].wire \cup Buffer(c)
    BY <1>1, <2>1 DEF EventInv, EventTypeOK, Links
  <2>3. \A r \in Rows(c) : GivenOrOnWire(p, r)'
    BY <1>1, <1>2, <2>2, WrittenUpTo DEF GivenOrOnWire
  <2>4. ASSUME NEW w \in link'[p].wire
        PROVE  w =< link'[p].cursor /\ GivenOrOnWire(p, w)'
    <3>1. CASE w \in link[p].wire
      <4>1. last > c /\ last \in Nat  BY <1>3, RowFacts, LinkFields DEF EventInv
      <4>2. w =< c /\ w \in Nat  BY <1>3, <1>4, <3>1
      <4>3. GivenOrOnWire(p, w)'
        BY <1>2, <1>4, <2>2, <3>1 DEF GivenOrOnWire
      <4> QED BY <1>3, <2>2, <4>1, <4>2, <4>3
    <3>2. CASE w \in Buffer(c)
      <4>1. w \in Rows(c)  BY <3>2 DEF Buffer
      <4> QED BY <2>1, <2>2, <2>3, <4>1 DEF IsLast
    <3> QED BY <2>2, <3>1, <3>2
  <2>5. LinkSafe(p)'  BY <2>2, <2>3, <2>4 DEF LinkSafe
  <2> QED BY <1>2, <2>1, <2>5, OneLink
<1>6. CASE PollOverflows(p)
  <2>1. link' = [link EXCEPT ![p].at = "ended"]  BY <1>6 DEF PollOverflows, Ended
  <2>2. /\ link'[p].at = "ended" /\ link'[p].cursor = c
        /\ link'[p].wire = link[p].wire
    BY <2>1 DEF EventInv, EventTypeOK, Links
  <2>3. LinkSafe(p)'  BY <1>2, <2>2, EndedSafe
  <2> QED BY <1>2, <2>1, <2>3, OneLink
<1>7. CASE PollBackpressured(p)
  <2> DEFINE sent(l) == {e \in Buffer(c) : e =< l}
  <2>1. PICK last \in Buffer(c) :
          link' = [link EXCEPT ![p].at = "ended", ![p].cursor = last,
                               ![p].wire = @ \cup sent(last)]
    BY <1>7 DEF PollBackpressured
  <2>2. /\ link'[p].at = "ended" /\ link'[p].cursor = last
        /\ link'[p].wire = link[p].wire \cup sent(last)
    BY <2>1 DEF EventInv, EventTypeOK, Links
  <2>3. last \in Rows(c) /\ last > c /\ last \in Nat
    <3>1. last \in Rows(c)  BY DEF Buffer
    <3> QED BY <1>3, <3>1, RowFacts, LinkFields DEF EventInv
  <2>4. ASSUME NEW w \in link'[p].wire
        PROVE  w =< link'[p].cursor /\ GivenOrOnWire(p, w)'
    <3>1. CASE w \in link[p].wire
      <4>1. w =< c /\ w \in Nat  BY <1>3, <1>4, <3>1
      <4>2. GivenOrOnWire(p, w)'
        BY <1>2, <1>4, <2>2, <3>1 DEF GivenOrOnWire
      <4> QED BY <1>3, <2>2, <2>3, <4>1, <4>2
    <3>2. CASE w \in sent(last)
      <4>1. w \in Rows(c) /\ w =< last  BY <3>2 DEF Buffer
      <4>2. w \in Nat  BY <1>3, <4>1, RowFacts, LinkFields DEF EventInv
      <4>3. ASSUME NEW o \in Owed, o =< w  PROVE o \in given \cup link'[p].wire
        <5>1. o \in given \cup link[p].wire \cup Buffer(c)
          BY <1>1, <4>1, <4>3, WrittenUpTo
        <5>2. o =< last
          BY <2>3, <4>1, <4>2, <4>3, OwedEvents DEF EventInv
        <5> QED BY <2>2, <5>1, <5>2
      <4> QED BY <1>2, <2>2, <4>1, <4>3 DEF GivenOrOnWire
    <3> QED BY <2>2, <3>1, <3>2
  <2>5. LinkSafe(p)'  BY <2>2, <2>4 DEF LinkSafe
  <2> QED BY <1>2, <2>1, <2>5, OneLink
<1> QED BY <1>5, <1>6, <1>7 DEF PollStep

LEMMA EventStepInv == EventInv /\ [EventNext]_eventVars => EventInv'
<1> SUFFICES ASSUME EventInv, [EventNext]_eventVars
             PROVE  NothingLost' /\ \A q \in Panels : LinkSafe(q)'
  BY EventStepTypes DEF EventInv
<1>1. CASE UNCHANGED eventVars
  <2>1. UNCHANGED <<link, given, lastEventId>> /\ Owed' = Owed
    BY <1>1 DEF eventVars, Owed
  <2>2. NothingLost'  BY <2>1 DEF EventInv, NothingLost
  <2> QED BY <2>1, <2>2, LinksKeep
<1>2. ASSUME NEW e \in Events, Persist(e)
      PROVE  NothingLost' /\ \A q \in Panels : LinkSafe(q)'
  BY <1>2, PersistSafe
<1>3. CASE JournalRestored
  <2>1. UNCHANGED <<link, given, lastEventId>> /\ Owed' \subseteq Owed
    BY <1>3 DEF JournalRestored, Owed
  <2>2. NothingLost'  BY <2>1 DEF EventInv, NothingLost
  <2> QED BY <2>1, <2>2, LinksKeep
<1>4. ASSUME NEW p \in Panels, PanelStep(p)
      PROVE  NothingLost' /\ \A q \in Panels : LinkSafe(q)'
  <2>1. CASE OpenPanel(p) \/ ReconnectFires(p) \/ UserReconnects(p)
    <3>1. StartConnection(p) /\ UNCHANGED <<recorded, excused, given, lastEventId>>
      BY <2>1 DEF OpenPanel, ReconnectFires, UserReconnects
    <3> QED BY <3>1, StartSafe
  <2>2. CASE ClosePanel(p) \/ LinkErrs(p)
    <3>1. /\ link' = [link EXCEPT ![p] = NoLink]
          /\ UNCHANGED <<given, lastEventId>> /\ Owed' = Owed
      BY <2>2 DEF ClosePanel, LinkErrs, Owed
    <3>2. link'[p] = NoLink  BY <3>1 DEF EventInv, EventTypeOK
    <3> QED BY <3>1, <3>2, NoLinkSafe, OneLink
  <2>3. CASE Receive(p)  BY <2>3, ReceiveSafe
  <2>4. CASE ResolveCursor(p)  BY <2>4, ResolveSafe
  <2>5. CASE PollStep(p)  BY <2>5, PollSafe
  <2>6. CASE QueryFails(p) \/ LinkBreaks(p)
    <3>1. PICK l : /\ link' = [link EXCEPT ![p] = l]
                   /\ l.at = "ended" /\ l.cursor = link[p].cursor
                   /\ l.wire \in {link[p].wire, {}}
      <4>1. CASE QueryFails(p)
        <5> DEFINE l == [link[p] EXCEPT !.at = "ended"]
        <5>1. link' = [link EXCEPT ![p] = l]  BY <4>1 DEF QueryFails, Ended
        <5>2. l.at = "ended" /\ l.cursor = link[p].cursor /\ l.wire = link[p].wire
          BY LinkFields DEF EventInv, Links
        <5> HIDE DEF l
        <5> QED BY <5>1, <5>2
      <4>2. CASE LinkBreaks(p)
        <5> DEFINE l == [link[p] EXCEPT !.at = "ended", !.wire = {}]
        <5>1. link' = [link EXCEPT ![p] = l]  BY <4>2 DEF LinkBreaks
        <5>2. l.at = "ended" /\ l.cursor = link[p].cursor /\ l.wire = {}
          BY LinkFields DEF EventInv, Links
        <5> HIDE DEF l
        <5> QED BY <5>1, <5>2
      <4> QED BY <2>6, <4>1, <4>2
    <3>2. UNCHANGED <<given, lastEventId>> /\ Owed' = Owed
      BY <2>6 DEF QueryFails, LinkBreaks, LinkKeeps, Owed
    <3>3. link'[p] = l  BY <3>1 DEF EventInv, EventTypeOK
    <3>4. LinkSafe(p)'  BY <3>1, <3>2, <3>3, EndedSafe
    <3> QED BY <3>1, <3>2, <3>4, OneLink
  <2>7. ASSUME NEW id \in Events, CheckAnswers(p, id) \/ CheckFails(p, id)
        PROVE  NothingLost' /\ \A q \in Panels : LinkSafe(q)'
    <3>1. UNCHANGED <<link, given>> /\ Owed' = Owed
      BY <2>7 DEF CheckAnswers, CheckFails, Owed
    <3>2. lastEventId' \in {lastEventId, 0}
      BY <2>7 DEF CheckAnswers, CheckFails
    <3>3. NothingLost'
      BY <3>1, <3>2, OwedEvents DEF EventInv, NothingLost
    <3> QED BY <3>1, <3>3, LinksKeep
  <2> QED BY <1>4, <2>1, <2>2, <2>3, <2>4, <2>5, <2>6, <2>7 DEF PanelStep
<1> QED BY <1>1, <1>2, <1>3, <1>4 DEF EventNext

\* Whatever fails, breaks, overflows or is restored, for any number of panels
\* and events: the id that is kept never passes an event that is owed and was
\* not given.
THEOREM EventsAreNotLost == EventSpec => []NothingLost
<1>1. EventInv => NothingLost  BY DEF EventInv
<1> QED BY <1>1, EventInitInv, EventStepInv, PTL DEF EventSpec
(***************************************************************************)
(* No panel is forgotten.                                                  *)
(***************************************************************************)
\* A panel is open exactly while it has a connection or a retry is armed.
Attended(p) == panel[p] = "open" <=> link[p].at # "none" \/ reconnectTimer[p]
PanelsAttended == \A p \in Panels : Attended(p)

\* What a step may change of one panel; the others are as they were.
LEMMA OnePanel ==
  ASSUME EventTypeOK, PanelsAttended, NEW p \in Panels, PanelStep(p)
  PROVE  \A q \in Panels \ {p} :
           panel'[q] = panel[q] /\ link'[q] = link[q]
           /\ reconnectTimer'[q] = reconnectTimer[q]
<1> USE DEF EventTypeOK
<1>1. CASE OpenPanel(p)  BY <1>1 DEF OpenPanel, StartConnection
<1>2. CASE ClosePanel(p)  BY <1>2 DEF ClosePanel
<1>3. CASE ReconnectFires(p)  BY <1>3 DEF ReconnectFires, StartConnection
<1>4. CASE UserReconnects(p)  BY <1>4 DEF UserReconnects, StartConnection
<1>5. CASE Receive(p)  BY <1>5 DEF Receive
<1>6. CASE LinkErrs(p)  BY <1>6 DEF LinkErrs
<1>7. CASE ResolveCursor(p)
  BY <1>7 DEF ResolveCursor, ResolveNewest, ResolveId, Ended, LinkKeeps
<1>8. CASE PollStep(p)
  BY <1>8 DEF PollStep, Poll, PollOverflows, PollBackpressured, Ended, LinkKeeps
<1>9. CASE QueryFails(p)  BY <1>9 DEF QueryFails, Ended, LinkKeeps
<1>10. CASE LinkBreaks(p)  BY <1>10 DEF LinkBreaks, LinkKeeps
<1>11. ASSUME NEW id \in Events, CheckAnswers(p, id) \/ CheckFails(p, id)
       PROVE  \A q \in Panels \ {p} :
                panel'[q] = panel[q] /\ link'[q] = link[q]
                /\ reconnectTimer'[q] = reconnectTimer[q]
  BY <1>11 DEF CheckAnswers, CheckFails
<1> QED BY <1>1, <1>2, <1>3, <1>4, <1>5, <1>6, <1>7, <1>8, <1>9, <1>10, <1>11
        DEF PanelStep

\* A step of the stream itself: the connection there is stays one, if a dead one.
LEMMA LinkStays ==
  ASSUME EventTypeOK, PanelsAttended, NEW p \in Panels,
         link[p].at # "none", link'[p].at # "none",
         UNCHANGED <<panel, reconnectTimer>>
  PROVE  Attended(p)'
BY DEF PanelsAttended, Attended

LEMMA StepAttends ==
  ASSUME EventTypeOK, PanelsAttended, NEW p \in Panels, PanelStep(p)
  PROVE  Attended(p)'
<1> USE DEF EventTypeOK
<1>1. CASE OpenPanel(p) \/ ReconnectFires(p) \/ UserReconnects(p)
  <2>1. link'[p] = Asking(lastEventId) /\ panel'[p] = "open"
    BY <1>1 DEF OpenPanel, ReconnectFires, UserReconnects, StartConnection,
                PanelsAttended, Attended
  <2> QED BY <2>1 DEF Attended, Asking
<1>2. CASE ClosePanel(p)
  BY <1>2 DEF ClosePanel, NoLink, Attended
<1>3. CASE LinkErrs(p)
  <2>1. panel[p] = "open"  BY <1>3 DEF LinkErrs, PanelsAttended, Attended
  <2> QED BY <1>3, <2>1 DEF LinkErrs, Attended
<1>4. CASE Receive(p)
  <2>1. link'[p].at = link[p].at /\ UNCHANGED <<panel, reconnectTimer>>
    BY <1>4 DEF Receive, Links
  <2> QED BY <2>1 DEF PanelsAttended, Attended
<1>5. CASE ResolveCursor(p)
  BY <1>5, LinkStays DEF ResolveCursor, ResolveNewest, ResolveId, Ended, LinkKeeps, Links
<1>6. CASE PollStep(p)
  <2>1. link[p].at = "open" /\ UNCHANGED <<panel, reconnectTimer>>
    BY <1>6 DEF PollStep, Poll, PollOverflows, PollBackpressured, LinkKeeps
  <2>2. link'[p].at \in {"open", "ended"}
    <3>1. CASE Poll(p)  BY <2>1, <3>1 DEF Poll, Links
    <3>2. CASE PollOverflows(p)  BY <3>2 DEF PollOverflows, Ended, Links
    <3>3. CASE PollBackpressured(p)  BY <3>3 DEF PollBackpressured, Links
    <3> QED BY <1>6, <3>1, <3>2, <3>3 DEF PollStep
  <2> QED BY <2>1, <2>2, LinkStays
<1>7. CASE QueryFails(p)
  BY <1>7, LinkStays DEF QueryFails, Ended, LinkKeeps, Links
<1>8. CASE LinkBreaks(p)
  BY <1>8, LinkStays DEF LinkBreaks, LinkKeeps, Links
<1>9. ASSUME NEW id \in Events, CheckAnswers(p, id)  PROVE Attended(p)'
  BY <1>9 DEF CheckAnswers, PanelsAttended, Attended
<1>10. ASSUME NEW id \in Events, CheckFails(p, id)  PROVE Attended(p)'
  BY <1>10 DEF CheckFails, PanelsAttended, Attended
<1> QED BY <1>1, <1>2, <1>3, <1>4, <1>5, <1>6, <1>7, <1>8, <1>9, <1>10
        DEF PanelStep

\* Whatever ends a connection (an error, an overflow, a refused id, a restored
\* database), a panel that is open has one or will ask for one, and one that was
\* closed never does, although its questions about an id are answered later:
\* the part of CatchesUp that is a matter of safety (startConnection, the
\* listener for errors, releaseEntry).
THEOREM OpenPanelsAreAttended == EventSpec => []PanelsAttended
<1>1. EventInit => PanelsAttended
  BY DEF EventInit, PanelsAttended, Attended, NoLink
<1>2. EventTypeOK /\ PanelsAttended /\ [EventNext]_eventVars => PanelsAttended'
  <2> SUFFICES ASSUME EventTypeOK, PanelsAttended, [EventNext]_eventVars
               PROVE  PanelsAttended'
    OBVIOUS
  <2>1. CASE UNCHANGED eventVars
    BY <2>1 DEF eventVars, PanelsAttended, Attended
  <2>2. CASE JournalRestored \/ \E e \in Events : Persist(e)
    BY <2>2 DEF JournalRestored, Persist, PanelsAttended, Attended
  <2>3. ASSUME NEW p \in Panels, PanelStep(p)  PROVE PanelsAttended'
    <3>1. Attended(p)'  BY <2>3, StepAttends
    <3>2. ASSUME NEW q \in Panels \ {p}  PROVE Attended(q)'
      BY <2>3, OnePanel DEF PanelsAttended, Attended
    <3> QED BY <3>1, <3>2 DEF PanelsAttended
  <2> QED BY <2>1, <2>2, <2>3 DEF EventNext
<1> QED BY <1>1, <1>2, EventTypes, PTL DEF EventSpec
=============================================================================
