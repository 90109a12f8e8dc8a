---------------------------- MODULE EventStream -----------------------------
(***************************************************************************)
(* The events of one task on their way from EventJournal to the panels of   *)
(* one browser that show the task.  A panel asks for the events after the   *)
(* id that localStorage keeps for the task, for all panels in common        *)
(* (useSharedTaskEventStream); the server resolves the id to a cursor,      *)
(* reads the rows after it every second and writes them (streamTaskEvents).  *)
(* Either side may end the connection at any time; the panel then asks again *)
(* and, beside that, whether its id is gone (cursorGone).                   *)
(*                                                                         *)
(* The number of an event is its place in the order of (emittedAt, id).     *)
(* Events are recorded in any order.                                        *)
(***************************************************************************)
EXTENDS Naturals, FiniteSets

CONSTANTS
  Panels,      \* lives of a StreamEntry, each opened and closed at most once
  MaxEvents,   \* bound: events of the task
  Unreadable,  \* events that eventJournalRowToEnvelope refuses
  BufferLimit, \* EVENT_STREAM_BUFFER_LIMIT
  MaxBreaks,   \* bound: failures, reconnects by hand and restored databases
  MaxChecks    \* bound: questions of a panel about one id under way

ASSUME EventAssumption ==
  /\ MaxEvents \in Nat /\ MaxBreaks \in Nat /\ MaxChecks \in Nat \ {0}
  /\ BufferLimit \in Nat \ {0} /\ Unreadable \subseteq 1..MaxEvents

VARIABLES
  recorded,    \* the rows of EventJournal
  lastEventId, \* of localStorage; 0 is none
  panel,       \* new, open or closed
  reconnectTimer,  \* armed or not, per panel
  link,        \* the EventSource of a panel and the stream that serves it
  checks,      \* calls of cursorGone under way, per panel and id
  born,        \* history: events that were recorded at some time
  given,         \* history: events some panel was given
  excused,     \* history: events the code does not promise (see NothingLost)
  breaks

eventVars == <<recorded, lastEventId, panel, reconnectTimer, link, checks, born,
               given, excused, breaks>>

Events == 1..MaxEvents
Ids == 0..MaxEvents
Links == [at : {"none", "asked", "open", "ended"}, since : Ids, cursor : Ids,
          wire : SUBSET Events]
NoLink == [at |-> "none", since |-> 0, cursor |-> 0, wire |-> {}]
Asking(id) == [at |-> "asked", since |-> id, cursor |-> 0, wire |-> {}]

EventTypeOK ==
  /\ recorded \subseteq born /\ born \subseteq Events
  /\ given \subseteq Events /\ excused \subseteq Events
  /\ lastEventId \in Ids
  /\ panel \in [Panels -> {"new", "open", "closed"}]
  /\ reconnectTimer \in [Panels -> BOOLEAN]
  /\ link \in [Panels -> Links]
  /\ checks \in [Panels -> [Events -> 0..MaxChecks]]
  /\ breaks \in 0..MaxBreaks

EventInit ==
  /\ recorded = {} /\ born = {} /\ given = {} /\ excused = {}
  /\ lastEventId = 0 /\ breaks = 0
  /\ panel = [p \in Panels |-> "new"]
  /\ reconnectTimer = [p \in Panels |-> FALSE]
  /\ link = [p \in Panels |-> NoLink]
  /\ checks = [p \in Panels |-> [e \in Events |-> 0]]

Break == breaks < MaxBreaks /\ breaks' = breaks + 1

(***************************************************************************)
(* The journal.                                                            *)
(***************************************************************************)
\* A place that a stream or an id has reached: what is recorded before it later
\* is not sent from it.
Behind(e) ==
  \/ e =< lastEventId
  \/ \E p \in Panels : \/ link[p].at = "asked" /\ e =< link[p].since
                       \/ link[p].at \in {"open", "ended"} /\ e =< link[p].cursor

\* persistEventJournal: emittedAt is the sender's, so that rows appear in any
\* order.  A second submission of an event finds the row and changes nothing.
Persist(e) ==
  /\ e \notin born
  /\ born' = born \cup {e} /\ recorded' = recorded \cup {e}
  /\ excused' = IF Behind(e) THEN excused \cup {e} ELSE excused
  /\ UNCHANGED <<lastEventId, panel, reconnectTimer, link, checks, given, breaks>>

\* An older copy of the database is put in its place.
JournalRestored ==
  /\ Break
  /\ \E older \in SUBSET recorded \ {recorded} :
       /\ recorded' = older
       /\ excused' = excused \cup (recorded \ older)
  /\ UNCHANGED <<lastEventId, panel, reconnectTimer, link, checks, born, given>>

(***************************************************************************)
(* The panel.                                                              *)
(***************************************************************************)
\* startConnection: the old source is closed, the id is read and asked for.
StartConnection(p) ==
  /\ reconnectTimer' = [reconnectTimer EXCEPT ![p] = FALSE]
  /\ link' = [link EXCEPT ![p] = Asking(lastEventId)]

OpenPanel(p) ==
  /\ panel[p] = "new" /\ panel' = [panel EXCEPT ![p] = "open"]
  /\ StartConnection(p)
  /\ UNCHANGED <<recorded, lastEventId, checks, born, given, excused, breaks>>

\* releaseEntry: checks under way go on.
ClosePanel(p) ==
  /\ panel[p] = "open" /\ panel' = [panel EXCEPT ![p] = "closed"]
  /\ reconnectTimer' = [reconnectTimer EXCEPT ![p] = FALSE]
  /\ link' = [link EXCEPT ![p] = NoLink]
  /\ UNCHANGED <<recorded, lastEventId, checks, born, given, excused, breaks>>

ReconnectFires(p) ==
  /\ reconnectTimer[p] /\ StartConnection(p)
  /\ UNCHANGED <<recorded, lastEventId, panel, checks, born, given, excused,
                 breaks>>

\* reconnectSharedTaskEventStream.
UserReconnects(p) ==
  /\ panel[p] = "open" /\ Break /\ StartConnection(p)
  /\ UNCHANGED <<recorded, lastEventId, panel, checks, born, given, excused>>

\* The listener for messages: the id is kept, then the subscribers are told.
Receive(p) ==
  /\ \E e \in link[p].wire :
       /\ \A f \in link[p].wire : e =< f
       /\ lastEventId' = e /\ given' = given \cup {e}
       /\ link' = [link EXCEPT ![p].wire = @ \ {e}]
  /\ UNCHANGED <<recorded, panel, reconnectTimer, checks, born, excused, breaks>>

\* The listener for errors: the source is closed, a check of the id it was
\* opened with begins and the retry is armed.
LinkErrs(p) ==
  LET id == link[p].since IN
  /\ link[p].at = "ended" /\ link[p].wire = {}
  /\ id # 0 => checks[p][id] < MaxChecks
  /\ checks' = IF id = 0 THEN checks ELSE [checks EXCEPT ![p][id] = @ + 1]
  /\ link' = [link EXCEPT ![p] = NoLink]
  /\ reconnectTimer' = [reconnectTimer EXCEPT ![p] = TRUE]
  /\ UNCHANGED <<recorded, lastEventId, panel, born, given, excused, breaks>>

CheckPending(p, id) == id \in Events /\ checks[p][id] > 0
Answered(p, id) == checks' = [checks EXCEPT ![p][id] = @ - 1]

\* Mutant of CheckAnswers: an id that is gone is kept.
CheckAnswersKept(p, id) ==
  /\ CheckPending(p, id) /\ Answered(p, id)
  /\ UNCHANGED <<recorded, lastEventId, panel, reconnectTimer, link, born, given,
                 excused, breaks>>

\* cursorGone has an answer: when it is 410, the id that is kept by then is
\* dropped and the panel, when still open, connects anew.
CheckAnswers(p, id) ==
  /\ CheckPending(p, id) /\ Answered(p, id)
  /\ IF id \in recorded THEN UNCHANGED <<lastEventId, reconnectTimer>>
     ELSE /\ lastEventId' = 0
          /\ reconnectTimer' = [reconnectTimer EXCEPT ![p] = @ \/ panel[p] = "open"]
  /\ UNCHANGED <<recorded, panel, link, born, given, excused, breaks>>

CheckFails(p, id) ==
  /\ CheckPending(p, id) /\ Answered(p, id) /\ Break
  /\ UNCHANGED <<recorded, lastEventId, panel, reconnectTimer, link, born, given,
                 excused>>

(***************************************************************************)
(* The stream that serves a panel.                                         *)
(***************************************************************************)
Ended(p) == link' = [link EXCEPT ![p].at = "ended"]
LinkKeeps == UNCHANGED <<recorded, lastEventId, panel, reconnectTimer, checks,
                         born, given>>

IsLast(e, S) == e \in S /\ \A f \in S : f =< e

\* resolveEventStreamCursor without an id: the cursor is the newest row.
ResolveNewest(p) ==
  /\ link[p].at = "asked" /\ link[p].since = 0
  /\ \E newest \in Ids :
       /\ IsLast(newest, recorded \cup {0})
       /\ link' = [link EXCEPT ![p].at = "open", ![p].cursor = newest]
  /\ excused' = excused \cup recorded
  /\ LinkKeeps /\ UNCHANGED breaks

\* resolveEventStreamCursor with an id: the row that has it, or 410.
ResolveId(p) ==
  LET since == link[p].since IN
  /\ link[p].at = "asked" /\ since # 0
  /\ IF since \in recorded
     THEN link' = [link EXCEPT ![p].at = "open", ![p].cursor = since]
     ELSE Ended(p)
  /\ LinkKeeps /\ UNCHANGED <<excused, breaks>>

\* Mutant of Rows: the rows are read in descending order.
RowsNewestFirst(cursor) ==
  LET later == {e \in recorded : e > cursor}
  IN  {e \in later : Cardinality({f \in later : f >= e}) =< BufferLimit + 1}

\* findMany of a poll: up to BufferLimit + 1 rows after the cursor.
Rows(cursor) ==
  LET later == {e \in recorded : e > cursor}
  IN  {e \in later : Cardinality({f \in later : f =< e}) =< BufferLimit + 1}
Buffer(cursor) == Rows(cursor) \ Unreadable
Overflows(cursor) == Cardinality(Buffer(cursor)) > BufferLimit

\* The cursor passes every row, the readable ones are written.
Poll(p) ==
  LET cursor == link[p].cursor IN
  /\ link[p].at = "open" /\ ~Overflows(cursor)
  /\ \E last \in Rows(cursor) :
       /\ IsLast(last, Rows(cursor))
       /\ link' = [link EXCEPT ![p].cursor = last,
                               ![p].wire = @ \cup Buffer(cursor)]
  /\ LinkKeeps /\ UNCHANGED <<excused, breaks>>

\* More than the buffer holds: the stream ends with none of it written.
PollOverflows(p) ==
  /\ link[p].at = "open" /\ Overflows(link[p].cursor) /\ Ended(p)
  /\ LinkKeeps /\ UNCHANGED <<excused, breaks>>

\* write answers false for an event: it was written, the stream ends after it.
PollBackpressured(p) ==
  LET cursor == link[p].cursor IN
  /\ link[p].at = "open" /\ ~Overflows(cursor)
  /\ \E last \in Buffer(cursor) :
       link' = [link EXCEPT ![p].at = "ended", ![p].cursor = last,
                            ![p].wire = @ \cup {e \in Buffer(cursor) : e =< last}]
  /\ LinkKeeps /\ UNCHANGED <<excused, breaks>>

\* The query fails, of the request or of a poll.
QueryFails(p) ==
  /\ link[p].at \in {"asked", "open"} /\ Break /\ Ended(p)
  /\ LinkKeeps /\ UNCHANGED excused

\* The connection is lost, with what was under way.
LinkBreaks(p) ==
  /\ link[p].at \in {"open", "ended"} /\ Break
  /\ link' = [link EXCEPT ![p].at = "ended", ![p].wire = {}]
  /\ LinkKeeps /\ UNCHANGED excused

ResolveCursor(p) == ResolveNewest(p) \/ ResolveId(p)
PollStep(p) == Poll(p) \/ PollOverflows(p) \/ PollBackpressured(p)

PanelStep(p) ==
  \/ OpenPanel(p) \/ ClosePanel(p) \/ ReconnectFires(p) \/ UserReconnects(p)
  \/ Receive(p) \/ LinkErrs(p) \/ ResolveCursor(p) \/ PollStep(p)
  \/ QueryFails(p) \/ LinkBreaks(p)
  \/ \E id \in Events : CheckAnswers(p, id) \/ CheckFails(p, id)

EventNext ==
  \/ \E e \in Events : Persist(e)
  \/ JournalRestored
  \/ \E p \in Panels : PanelStep(p)

\* The server answers and polls, bytes arrive, timers fire, fetches end.
EventFairness == \A p \in Panels :
  /\ WF_eventVars(ResolveCursor(p)) /\ WF_eventVars(PollStep(p))
  /\ WF_eventVars(Receive(p)) /\ WF_eventVars(LinkErrs(p))
  /\ WF_eventVars(ReconnectFires(p))
  /\ \A id \in Events : WF_eventVars(CheckAnswers(p, id))

EventSpec == EventInit /\ [][EventNext]_eventVars
FairEventSpec == EventSpec /\ EventFairness

(***************************************************************************)
(* Properties.                                                             *)
(***************************************************************************)
\* What the browser is owed: rows that can be read, except those that appeared
\* behind a place already reached, that were there when a stream began without
\* an id, or that a restored database no longer has.
Owed == recorded \ (Unreadable \cup excused)

\* Every event owed up to the id that is kept was given to some panel: polls
\* that fail or overflow, writes that stop half-way, lost connections, other
\* panels and dropped ids never make the next stream begin after an event that
\* nobody was given (cursor of streamTaskEvents, lastEventId of the message
\* listener, resolveEventStreamCursor).
NothingLost == \A e \in Owed : e =< lastEventId => e \in given

\* A panel that stays open brings the browser everything it is owed, if no
\* more is waiting than the buffer of a poll holds.
Waiting == {e \in recorded \ Unreadable : e > lastEventId}
FitsOnePoll == lastEventId = 0 \/ Cardinality(Waiting) =< BufferLimit
CatchesUp == \A p \in Panels :
  <>[](panel[p] = "open" /\ FitsOnePoll) => <>[](Owed \subseteq given)
=============================================================================
