------------------------- MODULE PrimitiveExecutor -------------------------
(***************************************************************************)
(* primitiveExecutor.run: every change of state goes through it and leaves a *)
(* row in the table primitiveAudit.  A call with an idempotency key looks    *)
(* for a completed row and answers what is kept there; else it joins the run *)
(* of that key under way in this process; else it inserts a row, runs and    *)
(* completes the row.  That the audit cannot be written is only logged.  A   *)
(* call inside a transaction does the same in the transaction, without       *)
(* looking at runs under way; a call inside another's run has no key.        *)
(*                                                                         *)
(* The look at the table reads there and decides later: SQLite is in WAL     *)
(* mode behind several connections, so that what it read may be older than   *)
(* the row when the call goes on, and than the runs under way.               *)
(***************************************************************************)
EXTENDS Naturals

CONSTANTS
  Calls, NoCall,
  Keys,
  TxKeys,     \* those of the call sites that run in a transaction
  NoKey,      \* no key, or a primitive that is not to be cached
  MaxRuns,    \* bound: runs that succeed
  MaxTroubles \* bound: failures of the database, and crashes

ASSUME ExecutorAssumption ==
  /\ NoCall \notin Calls /\ NoKey \notin Keys /\ TxKeys \subseteq Keys
  /\ MaxRuns \in Nat /\ MaxTroubles \in Nat

VARIABLES
  call,      \* each call's step, key, own row, the run it answers, its form
  audit,     \* each key's row: its status, the run and the form of its result
  inFlight,  \* inFlightIdempotentRuns: the call that runs each key
  runs, ran, \* each key's runs that succeeded; how many did
  troubles

executorVars == <<call, audit, inFlight, runs, ran, troubles>>

\* resultJson: whole; cut off at 50 KB; null when the run returned nothing.
Forms == {"whole", "cut", "void"}
AuditStatuses == {"none", "running", "completed", "failed"}
NewCall == [at |-> "idle", key |-> NoKey, row |-> FALSE, answer |-> 0,
            form |-> "void"]
NewRow == [status |-> "none", run |-> 0, form |-> "void"]

ExecutorTypeOK ==
  /\ call \in [Calls -> [at : {"idle", "lookup", "decide", "insert", "run",
                               "complete", "fail", "joined", "answered", "threw"},
                         key : Keys \union {NoKey}, row : BOOLEAN,
                         answer : 0..MaxRuns, form : Forms]]
  /\ audit \in [Keys -> [status : AuditStatuses, run : 0..MaxRuns, form : Forms]]
  /\ inFlight \in [Keys -> Calls \union {NoCall}]
  /\ runs \in [Keys -> SUBSET (1..MaxRuns)] /\ ran \in 0..MaxRuns
  /\ troubles \in 0..MaxTroubles

ExecutorInit ==
  /\ call = [c \in Calls |-> NewCall]
  /\ audit = [k \in Keys |-> NewRow]
  /\ inFlight = [k \in Keys |-> NoCall]
  /\ runs = [k \in Keys |-> {}] /\ ran = 0 /\ troubles = 0

Trouble == troubles < MaxTroubles /\ troubles' = troubles + 1
NoTrouble == UNCHANGED troubles
Goes(c, at) == call' = [call EXCEPT ![c].at = at]

\* cached?.status === "completed" && cached.resultJson
Cached(k) == audit[k].status = "completed" /\ audit[k].form # "void"

\* What a run that returned form f leaves in the row of its key.
Kept(f, r) == [status |-> "completed", run |-> r, form |-> f]

(***************************************************************************)
(* runPrimitiveWithAudit.                                                  *)
(***************************************************************************)
Begin(c, k) ==
  /\ call[c].at = "idle"
  /\ call' = [call EXCEPT ![c] =
       [at |-> IF k = NoKey THEN "insert" ELSE "lookup", key |-> k,
        row |-> FALSE, answer |-> 0, form |-> "void"]]
  /\ UNCHANGED <<audit, inFlight, runs, ran, troubles>>

\* Mutant of Lookup: the table is searched by something coarser than the key,
\* which two keys share.
LookupAnyRow(c) ==
  /\ call[c].at = "lookup"
  /\ \/ /\ \A k \in Keys : ~Cached(k)
        /\ call' = [call EXCEPT ![c].at = "decide"]
     \/ \E k \in Keys :
          /\ Cached(k)
          /\ call' = [call EXCEPT ![c] = [@ EXCEPT !.at = "decide",
                         !.answer = audit[k].run, !.form = audit[k].form]]
  /\ NoTrouble /\ UNCHANGED <<audit, inFlight, runs, ran>>

\* The database reads the row of the key: what is kept there, or nothing.
Lookup(c) ==
  LET k == call[c].key IN
  /\ call[c].at = "lookup"
  /\ call' = [call EXCEPT ![c] = [@ EXCEPT !.at = "decide",
                 !.answer = IF Cached(k) THEN audit[k].run ELSE 0,
                 !.form = IF Cached(k) THEN audit[k].form ELSE "void"]]
  /\ NoTrouble /\ UNCHANGED <<audit, inFlight, runs, ran>>

\* Mutant of Decide: runs under way are not looked at.
DecideByTable(c) ==
  /\ call[c].at = "decide"
  /\ IF call[c].answer # 0
       THEN Goes(c, "answered") /\ UNCHANGED inFlight
       ELSE Goes(c, "insert") /\ inFlight' = [inFlight EXCEPT ![call[c].key] = c]
  /\ NoTrouble /\ UNCHANGED <<audit, runs, ran>>

\* The call goes on with what was read, and with the runs under way now.
Decide(c) ==
  LET k == call[c].key IN
  /\ call[c].at = "decide"
  /\ IF call[c].answer # 0
       THEN Goes(c, "answered") /\ UNCHANGED inFlight
     ELSE IF inFlight[k] # NoCall
       THEN Goes(c, "joined") /\ UNCHANGED inFlight
     ELSE Goes(c, "insert") /\ inFlight' = [inFlight EXCEPT ![k] = c]
  /\ NoTrouble /\ UNCHANGED <<audit, runs, ran>>

LookupFails(c) ==
  /\ call[c].at = "lookup" /\ Trouble /\ Goes(c, "threw")
  /\ UNCHANGED <<audit, inFlight, runs, ran>>

\* startAuditInsert: the key is unique, so a row of an earlier run stays and
\* this run has none.
InsertAudit(c) ==
  LET k == call[c].key IN
  /\ call[c].at = "insert" /\ NoTrouble
  /\ call' = [call EXCEPT ![c] = [@ EXCEPT !.at = "run",
                 !.row = k = NoKey \/ audit[k].status = "none"]]
  /\ audit' = IF k # NoKey /\ audit[k].status = "none"
                THEN [audit EXCEPT ![k].status = "running"] ELSE audit
  /\ UNCHANGED <<inFlight, runs, ran>>

InsertFails(c) ==
  /\ call[c].at = "insert" /\ Trouble /\ Goes(c, "run")
  /\ UNCHANGED <<audit, inFlight, runs, ran>>

\* input.run(): whatever it changes, it has changed now.
RunSucceeds(c) ==
  LET k == call[c].key IN
  /\ call[c].at = "run" /\ ran < MaxRuns /\ ran' = ran + 1
  /\ runs' = IF k = NoKey THEN runs ELSE [runs EXCEPT ![k] = @ \union {ran + 1}]
  /\ \E f \in Forms :
       call' = [call EXCEPT ![c] = [@ EXCEPT !.at = "complete",
                                             !.answer = ran + 1, !.form = f]]
  /\ UNCHANGED <<audit, inFlight, troubles>>

RunFails(c) == call[c].at = "run" /\ Goes(c, "fail")
               /\ UNCHANGED <<audit, inFlight, runs, ran, troubles>>

\* Mutant of Settles: only the caller is answered.
SettlesCaller(c, at, answer, form) ==
  /\ call' = [call EXCEPT ![c] = [@ EXCEPT !.at = at, !.answer = answer,
                                           !.form = form]]
  /\ inFlight' = [k \in Keys |-> IF inFlight[k] = c THEN NoCall ELSE inFlight[k]]

\* The run's promise is settled: for its caller, for those that joined it, and
\* no longer under way.
Settles(c, at, answer, form) ==
  /\ call' = [d \in Calls |->
       IF d = c \/ (call[d].at = "joined" /\ inFlight[call[d].key] = c)
         THEN [call[d] EXCEPT !.at = at, !.answer = answer, !.form = form]
         ELSE call[d]]
  /\ inFlight' = [k \in Keys |-> IF inFlight[k] = c THEN NoCall ELSE inFlight[k]]

\* markAuditCompleted.
Complete(c) ==
  LET k == call[c].key IN
  /\ call[c].at = "complete"
  /\ \/ /\ NoTrouble
        /\ audit' = IF call[c].row /\ k # NoKey
                      THEN [audit EXCEPT ![k] = Kept(call[c].form, call[c].answer)]
                      ELSE audit
     \/ UNCHANGED audit /\ Trouble
  /\ Settles(c, "answered", call[c].answer, "whole")
  /\ UNCHANGED <<runs, ran>>

\* markAuditFailed, and the error is thrown again.
Fail(c) ==
  LET k == call[c].key IN
  /\ call[c].at = "fail"
  /\ \/ /\ NoTrouble
        /\ audit' = IF call[c].row /\ k # NoKey
                      THEN [audit EXCEPT ![k].status = "failed"] ELSE audit
     \/ UNCHANGED audit /\ Trouble
  /\ Settles(c, "threw", 0, "void")
  /\ UNCHANGED <<runs, ran>>

Leaves(c) ==
  /\ call[c].at \in {"answered", "threw"}
  /\ call' = [call EXCEPT ![c] = NewCall]
  /\ UNCHANGED <<audit, inFlight, runs, ran, troubles>>

(***************************************************************************)
(* runWithTransactionAudit: SQLite has one writer, so that the transaction   *)
(* is one step; one that is rolled back leaves nothing.                      *)
(***************************************************************************)
RunInTransaction(c, k) ==
  /\ call[c].at = "idle"
  /\ IF Cached(k)
       THEN /\ call' = [call EXCEPT ![c] = [at |-> "answered", key |-> k,
                  row |-> FALSE, answer |-> audit[k].run, form |-> audit[k].form]]
            /\ UNCHANGED <<audit, runs, ran>>
       ELSE /\ ran < MaxRuns /\ ran' = ran + 1
            /\ runs' = [runs EXCEPT ![k] = @ \union {ran + 1}]
            /\ call' = [call EXCEPT ![c] = [at |-> "answered", key |-> k,
                  row |-> TRUE, answer |-> ran + 1, form |-> "whole"]]
            /\ \E f \in Forms :
                 audit' = IF audit[k].status = "none"
                            THEN [audit EXCEPT ![k] = Kept(f, ran + 1)] ELSE audit
  /\ UNCHANGED <<inFlight, troubles>>

\* The process ends; the table stays.
CrashExecutor ==
  /\ Trouble
  /\ call' = [c \in Calls |-> NewCall]
  /\ inFlight' = [k \in Keys |-> NoCall]
  /\ UNCHANGED <<audit, runs, ran>>

CallStep(c) == \/ Lookup(c) \/ LookupFails(c) \/ Decide(c)
               \/ InsertAudit(c) \/ InsertFails(c)
               \/ RunSucceeds(c) \/ RunFails(c) \/ Complete(c) \/ Fail(c)

ExecutorNext ==
  \/ \E c \in Calls : \/ \E k \in (Keys \ TxKeys) \union {NoKey} : Begin(c, k)
                      \/ \E k \in TxKeys : RunInTransaction(c, k)
                      \/ CallStep(c) \/ Leaves(c)
  \/ CrashExecutor

\* Every promise a call awaits is settled: the database's and input.run's.
ExecutorFairness == \A c \in Calls : WF_executorVars(CallStep(c))

ExecutorSpec == ExecutorInit /\ [][ExecutorNext]_executorVars
FairExecutorSpec == ExecutorSpec /\ ExecutorFairness

(***************************************************************************)
(* Properties.                                                             *)
(***************************************************************************)
\* A call that read that nothing is kept, until its run has ended or another's
\* is to answer it.
Seeks(c) == \/ call[c].at = "decide" /\ call[c].answer = 0
            \/ call[c].at \in {"insert", "run"}

Once == INSTANCE RunOnce WITH
  Callers <- Calls, NoCaller <- NoCall, running <- inFlight,
  seeking <- [c \in Calls |-> IF Seeks(c) THEN call[c].key ELSE NoKey],
  kept <- [k \in Keys |-> IF Cached(k) THEN audit[k].run ELSE 0]

\* In this process one call at a time runs a key.  A result that the audit keeps
\* is that of the key's newest run, and from then on the key is run only by calls
\* whose look at the table was under way, each of them once; not by later calls,
\* retries or after a crash in any step (runPrimitiveWithAudit, startAuditInsert).
ImplementsRunOnce == Once!Spec

\* A call is answered with a run of its own key and never with that of another,
\* also when it joined another call or found the answer in the table, and a call
\* without a key with none of theirs; an answer that is cut off comes only from
\* the table (the result of Settles, of the look-up and of the transaction).
AnswersAreRuns == \A c \in Calls :
  call[c].at = "answered" =>
    /\ call[c].answer \in 1..ran
    /\ \A k \in Keys : call[c].answer \in runs[k] <=> call[c].key = k
    /\ call[c].form = "cut" => Cached(call[c].key)

\* Nobody waits for ever for a run that has ended: each call is answered or
\* gets an error (the finally of runPrimitiveWithAudit).
EveryCallSettles ==
  \A c \in Calls : []<>(call[c].at \notin {"lookup", "decide", "joined"})
=============================================================================
