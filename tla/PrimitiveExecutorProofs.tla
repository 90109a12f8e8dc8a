---------------------- MODULE PrimitiveExecutorProofs -----------------------
(***************************************************************************)
(* For any number of calls and keys, one call at a time runs a key, at most  *)
(* one run of a key is kept, and answers are runs of the key.  The inductive *)
(* invariant says that a key which is being run outside a transaction is run *)
(* by the one call that inFlight names (Runners, InFlightRuns), that only a  *)
(* call whose insert found no row can complete it (OwnRow), that no number   *)
(* belongs to two keys (Numbers), that what a look found is kept (Found) and  *)
(* that a run that ends is the newest of its key (RunsEnd).                  *)
(***************************************************************************)
EXTENDS PrimitiveExecutor, TLAPS

Active == {"insert", "run", "complete", "fail"}

\* A call with a key that runs is the one inFlight names; one that joined has
\* one to wait for.
Runners == \A c \in Calls :
  /\ call[c].at \in {"lookup", "decide", "joined"} => call[c].key \in Keys \ TxKeys
  /\ call[c].at = "joined" => inFlight[call[c].key] # NoCall
  /\ call[c].at \in Active =>
       \/ call[c].key = NoKey
       \/ call[c].key \in Keys \ TxKeys /\ inFlight[call[c].key] = c

InFlightRuns == \A k \in Keys : inFlight[k] # NoCall =>
  call[inFlight[k]].key = k /\ call[inFlight[k]].at \in Active

OwnRow == \A c \in Calls :
  /\ call[c].at \in {"lookup", "decide", "insert"} => ~call[c].row
  /\ call[c].row /\ call[c].key # NoKey /\ call[c].at \in {"run", "complete", "fail"}
       => audit[call[c].key].status = "running"

Numbers ==
  /\ \A k \in Keys : runs[k] \subseteq 1..ran
  /\ \A j, k \in Keys : j # k => runs[j] \cap runs[k] = {}

Found == \A c \in Calls : call[c].at = "decide" /\ call[c].answer # 0 =>
  Cached(call[c].key) /\ call[c].answer \in runs[call[c].key]

RunsEnd == \A c \in Calls : call[c].at = "complete" =>
  /\ call[c].answer \in 1..ran
  /\ \A k \in Keys : call[c].answer \in runs[k] <=> call[c].key = k
  /\ call[c].key # NoKey => \A r \in runs[call[c].key] : r <= call[c].answer

KeptIsRun == \A k \in Keys : Cached(k) => audit[k].run \in runs[k]

\* Only the table answers with a result that is cut off.
CutHasKey == \A c \in Calls :
  call[c].at = "answered" /\ call[c].form = "cut" => call[c].key \in Keys

EInv == /\ ExecutorTypeOK /\ Runners /\ InFlightRuns /\ OwnRow /\ Numbers
        /\ Found /\ RunsEnd /\ KeptIsRun /\ CutHasKey /\ AnswersAreRuns

Steps == {"idle", "lookup", "decide", "insert", "run", "complete",
          "fail", "joined", "answered", "threw"}
CallSet == [at : Steps, key : Keys \union {NoKey}, row : BOOLEAN,
            answer : 0..MaxRuns, form : Forms]
RowSet == [status : AuditStatuses, run : 0..MaxRuns, form : Forms]

LEMMA ExecutorInitInv == ExecutorInit => EInv
<1> SUFFICES ASSUME ExecutorInit PROVE EInv
  OBVIOUS
<1> USE ExecutorAssumption DEF ExecutorInit
<1>1. ExecutorTypeOK
  BY DEF ExecutorTypeOK, NewCall, NewRow, Forms, AuditStatuses
<1>2. \A c \in Calls : call[c].at = "idle"
  BY DEF NewCall
<1>3. \A k \in Keys : ~Cached(k) /\ inFlight[k] = NoCall /\ runs[k] = {}
  BY DEF Cached, NewRow
<1> QED
  BY <1>1, <1>2, <1>3 DEF EInv, Runners, InFlightRuns, OwnRow, Numbers, Found,
     RunsEnd, KeptIsRun, CutHasKey, AnswersAreRuns, Active

LEMMA ExecutorBeginKeeps ==
  ASSUME EInv, NEW c \in Calls, NEW k \in (Keys \ TxKeys) \union {NoKey}, Begin(c, k)
  PROVE  EInv'
<1> USE ExecutorAssumption DEF EInv, Begin
<1>1. call' \in [Calls -> CallSet]
  BY DEF ExecutorTypeOK, CallSet, Steps, NewCall, Forms
<1>2. \A d \in Calls : d # c => call'[d] = call[d]
  BY DEF ExecutorTypeOK
<1>3. call'[c].key = k /\ ~call'[c].row /\ call'[c].answer = 0
      /\ call'[c].at = IF k = NoKey THEN "insert" ELSE "lookup"
  BY DEF ExecutorTypeOK, NewCall
<1>4. \A d \in Keys : inFlight[d] # c
  BY DEF InFlightRuns, Active, ExecutorTypeOK
<1>5. ExecutorTypeOK'
  BY <1>1 DEF ExecutorTypeOK, CallSet, Steps
<1>6. Runners'
  BY <1>2, <1>3 DEF Runners, Active
<1>7. InFlightRuns'
  BY <1>2, <1>4 DEF InFlightRuns, Cached, ExecutorTypeOK
<1>8. OwnRow' /\ Numbers' /\ Found' /\ RunsEnd'
  BY <1>2, <1>3 DEF OwnRow, Numbers, Found, RunsEnd, Cached
<1>9. KeptIsRun' /\ CutHasKey' /\ AnswersAreRuns'
  BY <1>2, <1>3 DEF KeptIsRun, CutHasKey, AnswersAreRuns, Cached
<1> QED
  BY <1>5, <1>6, <1>7, <1>8, <1>9

\* A run that succeeds gets a number that none has, and none loses its own.
LEMMA NewNumber ==
  ASSUME EInv, NEW key \in Keys \union {NoKey}, ran' = ran + 1,
         runs' = IF key = NoKey THEN runs ELSE [runs EXCEPT ![key] = @ \union {ran + 1}]
  PROVE  /\ Numbers'
         /\ \A k \in Keys : \A r \in runs'[k] : r <= ran + 1
         /\ ran + 1 \in 1..ran' /\ \A k \in Keys : ran + 1 \in runs'[k] <=> key = k
         /\ \A n \in 1..ran : /\ n \in 1..ran'
                             /\ \A k \in Keys : n \in runs'[k] <=> n \in runs[k]
<1> USE ExecutorAssumption DEF EInv
<1>1. ran \in Nat /\ runs \in [Keys -> SUBSET (1..MaxRuns)]
  BY DEF ExecutorTypeOK
<1>2. \A k \in Keys : runs'[k] = IF k = key THEN runs[k] \union {ran + 1} ELSE runs[k]
  BY <1>1
<1>3. \A k \in Keys : \A n \in runs[k] : n \in 1..ran
  BY DEF Numbers
<1>4. 1..ran \subseteq 1..ran' /\ ran + 1 \in 1..ran' /\ ran + 1 \notin 1..ran
  BY <1>1
<1>5. Numbers'
  <2>1. \A k \in Keys : \A n \in runs'[k] : n \in 1..ran'
    BY <1>2, <1>3, <1>4
  <2>2. ASSUME NEW j \in Keys, NEW k \in Keys, j # k PROVE runs'[j] \cap runs'[k] = {}
    BY <1>2, <1>3, <1>4, <2>2 DEF Numbers
  <2> QED
    BY <2>1, <2>2 DEF Numbers
<1>6. \A k \in Keys : \A r \in runs'[k] : r <= ran + 1
  BY <1>1, <1>5 DEF Numbers
<1>7. \A k \in Keys : ran + 1 \in runs'[k] <=> key = k
  BY <1>2, <1>3, <1>4
<1>8. \A n \in 1..ran : \A k \in Keys : n \in runs'[k] <=> n \in runs[k]
  BY <1>2, <1>4
<1> QED
  BY <1>4, <1>5, <1>6, <1>7, <1>8

LEMMA LookupKeeps ==
  ASSUME EInv, NEW c \in Calls, Lookup(c)
  PROVE  EInv'
<1> DEFINE k == call[c].key
           r == [call[c] EXCEPT !.at = "decide",
                   !.answer = IF Cached(k) THEN audit[k].run ELSE 0,
                   !.form = IF Cached(k) THEN audit[k].form ELSE "void"]
<1> USE ExecutorAssumption DEF EInv
<1>1. k \in Keys \ TxKeys /\ call[c].at = "lookup" /\ ~call[c].row
  BY DEF Runners, OwnRow, Lookup
<1>2. \A d \in Keys : inFlight[d] # c
  BY <1>1 DEF InFlightRuns, Active, ExecutorTypeOK
<1>3. /\ call \in [Calls -> CallSet] /\ UNCHANGED <<audit, inFlight, runs, ran, troubles>>
      /\ call' = [call EXCEPT ![c] = r]
  BY DEF ExecutorTypeOK, CallSet, Steps, Lookup, NoTrouble
<1>4. /\ r \in CallSet /\ r.at = "decide" /\ r.key = k /\ r.row = call[c].row
      /\ r.answer = IF Cached(k) THEN audit[k].run ELSE 0
  <2>1. (IF Cached(k) THEN audit[k].run ELSE 0) \in 0..MaxRuns
    BY <1>1 DEF ExecutorTypeOK
  <2>2. (IF Cached(k) THEN audit[k].form ELSE "void") \in Forms
    BY <1>1 DEF ExecutorTypeOK, Forms
  <2> QED
    BY <1>3, <2>1, <2>2 DEF CallSet, Steps
<1> HIDE DEF r
<1>5. call' \in [Calls -> CallSet] /\ call'[c] = r
      /\ \A d \in Calls : d # c => call'[d] = call[d]
  BY <1>3, <1>4
<1>6. ExecutorTypeOK'
  BY <1>3, <1>5 DEF ExecutorTypeOK, CallSet, Steps
<1>7. Runners' /\ InFlightRuns'
  <2>1. Runners'
    BY <1>1, <1>3, <1>4, <1>5 DEF Runners, Active
  <2>2. InFlightRuns'
    BY <1>2, <1>3, <1>5 DEF InFlightRuns, Active, ExecutorTypeOK
  <2> QED
    BY <2>1, <2>2
<1>8. Found'
  BY <1>1, <1>3, <1>4, <1>5 DEF Found, KeptIsRun, Cached
<1>9. OwnRow' /\ Numbers' /\ RunsEnd' /\ KeptIsRun' /\ CutHasKey' /\ AnswersAreRuns'
  BY <1>1, <1>3, <1>4, <1>5
  DEF OwnRow, Numbers, RunsEnd, KeptIsRun, CutHasKey, AnswersAreRuns, Cached
<1> QED
  BY <1>6, <1>7, <1>8, <1>9

LEMMA DecideKeeps ==
  ASSUME EInv, NEW c \in Calls, Decide(c)
  PROVE  EInv'
<1> DEFINE k == call[c].key
<1> USE ExecutorAssumption DEF EInv
<1>1. k \in Keys \ TxKeys /\ call[c].at = "decide" /\ ~call[c].row
  BY DEF Runners, OwnRow, Decide
<1>2. \A d \in Keys : inFlight[d] # c
  BY <1>1 DEF InFlightRuns, Active, ExecutorTypeOK
<1>3. call \in [Calls -> CallSet] /\ UNCHANGED <<audit, runs, ran, troubles>>
  BY DEF ExecutorTypeOK, CallSet, Steps, Decide, NoTrouble
<1>4. PICK at \in {"answered", "joined", "insert"} :
        /\ call' = [call EXCEPT ![c].at = at]
        /\ at = "answered" => call[c].answer # 0 /\ UNCHANGED inFlight
        /\ at = "joined" => inFlight[k] # NoCall /\ UNCHANGED inFlight
        /\ at = "insert" => inFlight[k] = NoCall /\ inFlight' = [inFlight EXCEPT ![k] = c]
  BY DEF Decide, Goes
<1>5. /\ call' \in [Calls -> CallSet] /\ call'[c].at = at
      /\ call'[c].key = k /\ call'[c].row = call[c].row
      /\ call'[c].answer = call[c].answer /\ call'[c].form = call[c].form
      /\ \A d \in Calls : d # c => call'[d] = call[d]
  BY <1>3, <1>4 DEF CallSet, Steps
<1>6. /\ inFlight' \in [Keys -> Calls \union {NoCall}]
      /\ \A d \in Keys : inFlight'[d] = IF at = "insert" /\ d = k THEN c ELSE inFlight[d]
  BY <1>1, <1>4 DEF ExecutorTypeOK
<1>7. ExecutorTypeOK'
  BY <1>3, <1>5, <1>6 DEF ExecutorTypeOK, CallSet, Steps
<1>8. Runners'
  <2> SUFFICES ASSUME NEW d \in Calls
               PROVE  /\ call'[d].at \in {"lookup", "decide", "joined"}
                           => call'[d].key \in Keys \ TxKeys
                      /\ call'[d].at = "joined" => inFlight'[call'[d].key] # NoCall
                      /\ call'[d].at \in Active =>
                           \/ call'[d].key = NoKey
                           \/ /\ call'[d].key \in Keys \ TxKeys
                              /\ inFlight'[call'[d].key] = d
    BY DEF Runners
  <2>1. CASE d = c
    BY <1>1, <1>4, <1>5, <1>6, <2>1 DEF Active
  <2>2. CASE d # c
    <3>1. call'[d] = call[d]
      BY <1>5, <2>2
    <3>2. ASSUME call[d].at \in Active, call[d].key # NoKey
          PROVE  call[d].key \in Keys \ TxKeys /\ inFlight'[call[d].key] = d
      BY <1>4, <1>6, <3>2 DEF Runners
    <3>3. call[d].at = "joined" => inFlight'[call[d].key] # NoCall
      BY <1>6 DEF Runners
    <3> QED
      BY <3>1, <3>2, <3>3 DEF Runners
  <2> QED
    BY <2>1, <2>2
<1>9. InFlightRuns'
  BY <1>1, <1>2, <1>5, <1>6 DEF InFlightRuns, Active, ExecutorTypeOK
<1>10. OwnRow' /\ Numbers' /\ Found' /\ RunsEnd' /\ KeptIsRun'
  BY <1>1, <1>3, <1>4, <1>5 DEF OwnRow, Numbers, Found, RunsEnd, KeptIsRun, Cached
<1>11. at = "answered" =>
         /\ Cached(k) /\ call[c].answer \in 1..ran
         /\ \A d \in Keys : call[c].answer \in runs[d] <=> k = d
  <2> SUFFICES ASSUME at = "answered"
               PROVE  /\ Cached(k) /\ call[c].answer \in 1..ran
                      /\ \A d \in Keys : call[c].answer \in runs[d] <=> k = d
    OBVIOUS
  <2>1. Cached(k) /\ call[c].answer \in runs[k]
    BY <1>1, <1>4 DEF Found
  <2> QED
    BY <1>1, <2>1 DEF Numbers
<1>12. CutHasKey' /\ AnswersAreRuns'
  BY <1>1, <1>3, <1>5, <1>11 DEF CutHasKey, AnswersAreRuns, Cached
<1> QED
  BY <1>7, <1>8, <1>9, <1>10, <1>12

LEMMA LookupFailsKeeps ==
  ASSUME EInv, NEW c \in Calls, LookupFails(c)
  PROVE  EInv'
<1> USE ExecutorAssumption DEF EInv, LookupFails, Goes
<1>1. \A d \in Keys : inFlight[d] # c
  BY DEF InFlightRuns, Active, ExecutorTypeOK
<1>2. /\ call' \in [Calls -> CallSet] /\ \A d \in Calls : d # c => call'[d] = call[d]
      /\ call'[c].key = call[c].key /\ call'[c].at = "threw"
  <2>1. call \in [Calls -> CallSet]
    BY DEF ExecutorTypeOK, CallSet, Steps
  <2> QED
    BY <2>1 DEF CallSet, Steps
<1>3. ExecutorTypeOK'
  BY <1>2 DEF ExecutorTypeOK, CallSet, Steps, Trouble
<1>4. Runners' /\ InFlightRuns'
  BY <1>1, <1>2 DEF Runners, InFlightRuns, Cached, Active, ExecutorTypeOK
<1>5. OwnRow' /\ Numbers' /\ Found' /\ RunsEnd' /\ KeptIsRun' /\ CutHasKey' /\ AnswersAreRuns'
  BY <1>2 DEF OwnRow, Numbers, Found, RunsEnd, KeptIsRun, CutHasKey, AnswersAreRuns, Cached
<1> QED
  BY <1>3, <1>4, <1>5

LEMMA InsertAuditKeeps ==
  ASSUME EInv, NEW c \in Calls, InsertAudit(c)
  PROVE  EInv'
<1> DEFINE k == call[c].key
<1> USE ExecutorAssumption DEF EInv
<1>1. call \in [Calls -> CallSet] /\ call[c].at = "insert"
      /\ UNCHANGED <<inFlight, runs, ran, troubles>>
  BY DEF ExecutorTypeOK, CallSet, Steps, InsertAudit, NoTrouble
<1>2. k = NoKey \/ (k \in Keys \ TxKeys /\ inFlight[k] = c)
  BY <1>1 DEF Runners, Active
<1>3. /\ call' \in [Calls -> CallSet] /\ call'[c].key = k /\ call'[c].at = "run"
      /\ call'[c].row = (k = NoKey \/ audit[k].status = "none")
      /\ \A d \in Calls : d # c => call'[d] = call[d]
  BY <1>1 DEF CallSet, Steps, InsertAudit
<1>4. k = NoKey \/ audit[k].status # "none" => audit' = audit
  BY DEF InsertAudit
<1>5. k # NoKey /\ audit[k].status = "none" =>
        audit' = [audit EXCEPT ![k].status = "running"]
  BY DEF InsertAudit
<1>6. /\ audit' \in [Keys -> [status : AuditStatuses, run : 0..MaxRuns, form : Forms]]
      /\ \A d \in Keys : d # k \/ audit[d].status # "none" => audit'[d] = audit[d]
      /\ k # NoKey /\ audit[k].status = "none" => audit'[k].status = "running"
  BY <1>2, <1>4, <1>5 DEF ExecutorTypeOK, AuditStatuses
<1>7. \A d \in Keys : Cached(d)' = Cached(d) /\ (Cached(d) => audit'[d] = audit[d])
  BY <1>6 DEF Cached
<1>8. ExecutorTypeOK'
  BY <1>1, <1>3, <1>6 DEF ExecutorTypeOK, CallSet, Steps
<1>9. Runners' /\ InFlightRuns'
  BY <1>1, <1>2, <1>3, <1>7 DEF Runners, InFlightRuns, Active, ExecutorTypeOK
<1>10. OwnRow'
  <2> SUFFICES ASSUME NEW d \in Calls, call'[d].row, call'[d].key # NoKey,
                      call'[d].at \in {"run", "complete", "fail"}
               PROVE  audit'[call'[d].key].status = "running"
    BY <1>3 DEF OwnRow
  <2>1. CASE d = c
    BY <1>3, <1>6, <2>1
  <2>2. CASE d # c
    <3>1. call'[d] = call[d]
      BY <1>3, <2>2
    <3>2. call[d].key \in Keys /\ audit[call[d].key].status = "running"
      BY <3>1 DEF OwnRow, Runners, Active
    <3> QED
      BY <1>6, <3>1, <3>2
  <2> QED
    BY <2>1, <2>2
<1>11. Numbers' /\ Found' /\ RunsEnd' /\ KeptIsRun'
  <2>1. \A d \in Calls : call'[d].at \in {"decide", "complete"} => call'[d] = call[d]
    BY <1>3
  <2>2. Found'
    BY <1>1, <1>7, <2>1 DEF Found, Runners
  <2> QED
    BY <1>1, <1>7, <2>1, <2>2 DEF Numbers, RunsEnd, KeptIsRun
<1>12. CutHasKey' /\ AnswersAreRuns'
  <2>1. \A d \in Calls : call'[d].at = "answered" => d # c /\ call'[d] = call[d]
    BY <1>3
  <2>2. CutHasKey'
    BY <2>1 DEF CutHasKey
  <2> QED
    BY <1>1, <1>7, <2>1 DEF AnswersAreRuns, CutHasKey
<1> QED
  BY <1>8, <1>9, <1>10, <1>11, <1>12

LEMMA InsertFailsKeeps ==
  ASSUME EInv, NEW c \in Calls, InsertFails(c)
  PROVE  EInv'
<1> USE ExecutorAssumption DEF EInv
<1>1. call \in [Calls -> CallSet] /\ call[c].at = "insert"
      /\ UNCHANGED <<audit, inFlight, runs, ran>>
      /\ troubles' \in 0..MaxTroubles
  BY DEF ExecutorTypeOK, CallSet, Steps, InsertFails, Trouble
<1>2. call' \in [Calls -> CallSet] /\ call'[c].at = "run"
      /\ call'[c].key = call[c].key /\ call'[c].row = call[c].row
      /\ \A d \in Calls : d # c => call'[d] = call[d]
  BY <1>1 DEF CallSet, Steps, InsertFails, Goes
<1>3. ~call[c].row
  BY <1>1 DEF OwnRow
<1>4. ExecutorTypeOK'
  BY <1>1, <1>2 DEF ExecutorTypeOK, CallSet, Steps
<1>5. Runners' /\ InFlightRuns'
  BY <1>1, <1>2 DEF Runners, InFlightRuns, Cached, Active, ExecutorTypeOK
<1>6. OwnRow' /\ Numbers' /\ Found' /\ RunsEnd' /\ KeptIsRun' /\ CutHasKey' /\ AnswersAreRuns'
  BY <1>1, <1>2, <1>3 DEF OwnRow, Numbers, Found, RunsEnd, KeptIsRun, CutHasKey, AnswersAreRuns, Cached
<1> QED
  BY <1>4, <1>5, <1>6

LEMMA RunSucceedsKeeps ==
  ASSUME EInv, NEW c \in Calls, RunSucceeds(c)
  PROVE  EInv'
<1> DEFINE k == call[c].key
<1> USE ExecutorAssumption DEF EInv
<1>1. call \in [Calls -> CallSet] /\ call[c].at = "run" /\ k \in Keys \union {NoKey}
      /\ UNCHANGED <<audit, inFlight, troubles>>
      /\ ran \in Nat /\ ran' = ran + 1 /\ ran' \in 0..MaxRuns
  BY DEF ExecutorTypeOK, CallSet, Steps, RunSucceeds
<1>2. k = NoKey \/ (k \in Keys \ TxKeys /\ inFlight[k] = c)
  BY <1>1 DEF Runners, Active
<1>3. PICK f \in Forms : call' = [call EXCEPT ![c] =
        [call[c] EXCEPT !.at = "complete", !.answer = ran + 1, !.form = f]]
  BY DEF RunSucceeds
<1>4. /\ call' \in [Calls -> CallSet] /\ call'[c].key = k /\ call'[c].row = call[c].row
      /\ call'[c].at = "complete" /\ call'[c].answer = ran + 1
      /\ \A d \in Calls : d # c => call'[d] = call[d]
  BY <1>1, <1>3 DEF CallSet, Steps
<1>5. runs' = IF k = NoKey THEN runs ELSE [runs EXCEPT ![k] = @ \union {ran + 1}]
  BY DEF RunSucceeds
<1>6. /\ Numbers'
      /\ \A d \in Keys : \A r \in runs'[d] : r <= ran + 1
      /\ ran + 1 \in 1..ran' /\ \A d \in Keys : ran + 1 \in runs'[d] <=> k = d
      /\ \A n \in 1..ran : /\ n \in 1..ran'
                          /\ \A d \in Keys : n \in runs'[d] <=> n \in runs[d]
  BY <1>1, <1>5, NewNumber
<1>7. runs' \in [Keys -> SUBSET (1..MaxRuns)]
  BY <1>1, <1>5 DEF ExecutorTypeOK
<1>8. ExecutorTypeOK'
  BY <1>1, <1>4, <1>7 DEF ExecutorTypeOK, CallSet, Steps
<1>9. Runners' /\ InFlightRuns' /\ OwnRow'
  <2>1. Runners'
    BY <1>1, <1>4 DEF Runners, Active
  <2>2. InFlightRuns'
    BY <1>1, <1>4 DEF InFlightRuns, Active, ExecutorTypeOK
  <2>3. OwnRow'
    BY <1>1, <1>4 DEF OwnRow
  <2> QED
    BY <2>1, <2>2, <2>3
<1>10. \A d \in Calls : d # c =>
         call'[d] = call[d] /\ (call[d].at = "complete" => call[d].key = NoKey \/ call[d].key # k)
  BY <1>2, <1>4 DEF Runners, Active
<1>11. RunsEnd'
  <2> SUFFICES ASSUME NEW d \in Calls, call'[d].at = "complete"
               PROVE  /\ call'[d].answer \in 1..ran'
                      /\ \A e \in Keys : call'[d].answer \in runs'[e] <=> call'[d].key = e
                      /\ call'[d].key # NoKey =>
                           \A r \in runs'[call'[d].key] : r <= call'[d].answer
    BY DEF RunsEnd
  <2>1. CASE d = c
    BY <1>1, <1>4, <1>6, <2>1
  <2>2. CASE d # c
    <3>1. call'[d] = call[d] /\ call[d].at = "complete"
      BY <1>10, <2>2
    <3>2. call[d].answer \in 1..ran /\ call[d].key \in Keys \union {NoKey}
      BY <1>1, <3>1 DEF RunsEnd, CallSet
    <3>3. call[d].key # NoKey => runs'[call[d].key] = runs[call[d].key]
      BY <1>5, <1>7, <1>10, <2>2, <3>1, <3>2 DEF ExecutorTypeOK
    <3> QED
      BY <1>6, <3>1, <3>2, <3>3 DEF RunsEnd
  <2> QED
    BY <2>1, <2>2
<1>12. Found' /\ KeptIsRun'
  <2>1. \A d \in Keys : runs[d] \subseteq runs'[d]
    BY <1>5 DEF ExecutorTypeOK
  <2>2. \A d \in Calls : call'[d].at = "decide" => call'[d] = call[d] /\ call[d].key \in Keys
    BY <1>4 DEF Runners
  <2> QED
    BY <1>1, <2>1, <2>2 DEF Found, KeptIsRun, Cached
<1>13. CutHasKey' /\ AnswersAreRuns'
  <2>1. \A d \in Calls : call'[d].at = "answered" => d # c /\ call'[d] = call[d]
    BY <1>4
  <2>2. CutHasKey'
    BY <2>1 DEF CutHasKey
  <2>3. \A d \in Keys : Cached(d)' = Cached(d)
    BY <1>1 DEF Cached
  <2> QED
    BY <1>6, <2>1, <2>2, <2>3 DEF AnswersAreRuns, CutHasKey
<1> QED
  BY <1>6, <1>8, <1>9, <1>11, <1>12, <1>13

LEMMA RunFailsKeeps ==
  ASSUME EInv, NEW c \in Calls, RunFails(c)
  PROVE  EInv'
<1> USE ExecutorAssumption DEF EInv
<1>1. call \in [Calls -> CallSet] /\ call[c].at = "run"
      /\ UNCHANGED <<audit, inFlight, runs, ran, troubles>>
  BY DEF ExecutorTypeOK, CallSet, Steps, RunFails
<1>2. call' \in [Calls -> CallSet] /\ call'[c].at = "fail"
      /\ call'[c].key = call[c].key /\ call'[c].row = call[c].row
      /\ \A d \in Calls : d # c => call'[d] = call[d]
  BY <1>1 DEF CallSet, Steps, RunFails, Goes
<1>3. ExecutorTypeOK'
  BY <1>1, <1>2 DEF ExecutorTypeOK, CallSet, Steps
<1>4. Runners' /\ InFlightRuns'
  BY <1>1, <1>2 DEF Runners, InFlightRuns, Cached, Active, ExecutorTypeOK
<1>5. OwnRow' /\ Numbers' /\ Found' /\ RunsEnd' /\ KeptIsRun' /\ CutHasKey' /\ AnswersAreRuns'
  BY <1>1, <1>2 DEF OwnRow, Numbers, Found, RunsEnd, KeptIsRun, CutHasKey, AnswersAreRuns, Cached
<1> QED
  BY <1>3, <1>4, <1>5

\* The end of a run: the calls that get its result, and what is no longer
\* under way.
LEMMA SettledCalls ==
  ASSUME EInv, NEW c \in Calls, call[c].at \in {"complete", "fail"},
         NEW at \in {"answered", "threw"}, NEW answer \in 0..MaxRuns,
         NEW form \in Forms, Settles(c, at, answer, form)
  PROVE  /\ call' \in [Calls -> CallSet] /\ inFlight' \in [Keys -> Calls \union {NoCall}]
         /\ \A d \in Calls :
              \/ /\ call'[d].at = at /\ call'[d].answer = answer
                 /\ call'[d].form = form /\ call'[d].key = call[d].key
                 /\ d = c \/ (call[d].at = "joined" /\ call[d].key = call[c].key
                             /\ call[c].key \in Keys)
              \/ /\ call'[d] = call[d] /\ d # c
                 /\ call[d].at = "joined" => inFlight[call[d].key] # c
         /\ \A k \in Keys : inFlight'[k] = IF inFlight[k] = c THEN NoCall ELSE inFlight[k]
<1> USE ExecutorAssumption DEF EInv, Settles
<1>1. call \in [Calls -> CallSet] /\ inFlight \in [Keys -> Calls \union {NoCall}]
  BY DEF ExecutorTypeOK, CallSet, Steps
<1> DEFINE got(d) == d = c \/ (call[d].at = "joined" /\ inFlight[call[d].key] = c)
           new(d) == [call[d] EXCEPT !.at = at, !.answer = answer, !.form = form]
<1>2. \A d \in Calls :
        /\ new(d) \in CallSet /\ new(d).at = at /\ new(d).answer = answer
        /\ new(d).form = form /\ new(d).key = call[d].key
  BY <1>1 DEF CallSet, Steps
<1>3. call' = [d \in Calls |-> IF got(d) THEN new(d) ELSE call[d]]
  OBVIOUS
<1> HIDE DEF new
<1>4. ASSUME NEW d \in Calls, call[d].at = "joined", inFlight[call[d].key] = c
      PROVE  call[d].key = call[c].key /\ call[c].key \in Keys
  <2>1. call[d].key \in Keys
    BY <1>4 DEF Runners
  <2> QED
    BY <1>4, <2>1 DEF InFlightRuns
<1>5. \A d \in Calls : call'[d] = IF got(d) THEN new(d) ELSE call[d]
  BY <1>3
<1>6. call' \in [Calls -> CallSet]
  BY <1>1, <1>2, <1>3
<1>7. \A k \in Keys : inFlight'[k] = IF inFlight[k] = c THEN NoCall ELSE inFlight[k]
  OBVIOUS
<1>8. inFlight' \in [Keys -> Calls \union {NoCall}]
  BY <1>1
<1>9. ASSUME NEW d \in Calls
      PROVE  \/ /\ call'[d].at = at /\ call'[d].answer = answer
                /\ call'[d].form = form /\ call'[d].key = call[d].key
                /\ d = c \/ (call[d].at = "joined" /\ call[d].key = call[c].key
                            /\ call[c].key \in Keys)
             \/ /\ call'[d] = call[d] /\ d # c
                /\ call[d].at = "joined" => inFlight[call[d].key] # c
  <2>1. CASE got(d)
    BY <1>2, <1>4, <1>5, <2>1
  <2>2. CASE ~got(d)
    BY <1>5, <2>2
  <2> QED
    BY <2>1, <2>2
<1> QED
  BY <1>6, <1>7, <1>8, <1>9

\* The row of a run that succeeded: it keeps the result, or nothing changes.
LEMMA CompletedRow ==
  ASSUME EInv, NEW c \in Calls, Complete(c)
  PROVE  /\ audit' \in [Keys -> [status : AuditStatuses, run : 0..MaxRuns, form : Forms]]
         /\ \A d \in Keys : d # call[c].key => audit'[d] = audit[d]
         /\ \A d \in Keys : Cached(d) => audit'[d] = audit[d]
         /\ \A d \in Keys : audit'[d] # audit[d] =>
              /\ audit'[d].run \in runs[d]
              /\ \A r \in runs[d] : r <= audit'[d].run
         /\ troubles' \in 0..MaxTroubles /\ UNCHANGED <<runs, ran>>
<1> DEFINE k == call[c].key
<1> USE ExecutorAssumption DEF EInv
<1>1. /\ call[c].at = "complete" /\ call[c].key \in Keys \union {NoKey}
      /\ call[c].answer \in 0..MaxRuns /\ call[c].form \in Forms
  BY DEF Complete, ExecutorTypeOK
<1>2. troubles' \in 0..MaxTroubles /\ UNCHANGED <<runs, ran>>
  BY DEF Complete, NoTrouble, Trouble, ExecutorTypeOK
<1>3. \/ UNCHANGED audit
      \/ /\ k # NoKey /\ call[c].row
         /\ audit' = [audit EXCEPT ![k] = Kept(call[c].form, call[c].answer)]
  BY DEF Complete
<1>4. CASE UNCHANGED audit
  BY <1>2, <1>4 DEF ExecutorTypeOK
<1>5. CASE /\ k # NoKey /\ call[c].row
           /\ audit' = [audit EXCEPT ![k] = Kept(call[c].form, call[c].answer)]
  <2>1. /\ k \in Keys /\ ~Cached(k) /\ call[c].answer \in runs[k]
        /\ \A r \in runs[k] : r <= call[c].answer
    BY <1>1, <1>5 DEF OwnRow, Cached, RunsEnd
  <2>2. Kept(call[c].form, call[c].answer)
          \in [status : AuditStatuses, run : 0..MaxRuns, form : Forms]
        /\ Kept(call[c].form, call[c].answer).run = call[c].answer
    BY <1>1, <2>1 DEF Kept, AuditStatuses
  <2> QED
    BY <1>2, <1>5, <2>1, <2>2 DEF ExecutorTypeOK
<1> QED
  BY <1>3, <1>4, <1>5

\* The row of a run that failed is not completed, and was not.
LEMMA FailedRow ==
  ASSUME EInv, NEW c \in Calls, Fail(c)
  PROVE  /\ audit' \in [Keys -> [status : AuditStatuses, run : 0..MaxRuns, form : Forms]]
         /\ \A d \in Keys : d # call[c].key => audit'[d] = audit[d]
         /\ \A d \in Keys : Cached(d)' = Cached(d) /\ (Cached(d) => audit'[d] = audit[d])
         /\ troubles' \in 0..MaxTroubles /\ UNCHANGED <<runs, ran>>
<1> DEFINE k == call[c].key
<1> USE ExecutorAssumption DEF EInv
<1>1. call[c].at = "fail" /\ call[c].key \in Keys \union {NoKey}
  BY DEF Fail, ExecutorTypeOK
<1>2. troubles' \in 0..MaxTroubles /\ UNCHANGED <<runs, ran>>
  BY DEF Fail, NoTrouble, Trouble, ExecutorTypeOK
<1>3. \/ UNCHANGED audit
      \/ k # NoKey /\ call[c].row /\ audit' = [audit EXCEPT ![k].status = "failed"]
  BY DEF Fail
<1>4. CASE UNCHANGED audit
  BY <1>2, <1>4 DEF ExecutorTypeOK, Cached
<1>5. CASE k # NoKey /\ call[c].row /\ audit' = [audit EXCEPT ![k].status = "failed"]
  <2>1. k \in Keys /\ ~Cached(k)
    BY <1>1, <1>5 DEF OwnRow, Cached
  <2>2. /\ audit' \in [Keys -> [status : AuditStatuses, run : 0..MaxRuns, form : Forms]]
        /\ audit'[k].status = "failed"
        /\ \A d \in Keys : d # k => audit'[d] = audit[d]
    BY <1>5, <2>1 DEF ExecutorTypeOK, AuditStatuses
  <2> QED
    BY <1>2, <2>1, <2>2 DEF Cached
<1> QED
  BY <1>3, <1>4, <1>5

\* The end of a run keeps the invariant, whatever it leaves in its own row that
\* is not completed or keeps the newest run.
LEMMA SettleKeeps ==
  ASSUME EInv, NEW c \in Calls, call[c].at \in {"complete", "fail"},
         NEW at \in {"answered", "threw"}, NEW answer \in 0..MaxRuns,
         NEW form \in Forms, Settles(c, at, answer, form),
         at = "answered" =>
           /\ answer \in 1..ran /\ form = "whole"
           /\ \A k \in Keys : answer \in runs[k] <=> call[c].key = k,
         audit' \in [Keys -> [status : AuditStatuses, run : 0..MaxRuns, form : Forms]],
         \A d \in Keys : d # call[c].key => audit'[d] = audit[d],
         \A d \in Keys : Cached(d) => audit'[d] = audit[d],
         \A d \in Keys : Cached(d)' => audit'[d].run \in runs[d],
         troubles' \in 0..MaxTroubles, UNCHANGED <<runs, ran>>
  PROVE  EInv'
<1> USE ExecutorAssumption DEF EInv
<1>1. /\ call \in [Calls -> CallSet] /\ call' \in [Calls -> CallSet]
      /\ inFlight' \in [Keys -> Calls \union {NoCall}]
      /\ \A k \in Keys : inFlight'[k] = IF inFlight[k] = c THEN NoCall ELSE inFlight[k]
  BY SettledCalls DEF ExecutorTypeOK, CallSet, Steps
<1>2. ASSUME NEW d \in Calls
      PROVE  \/ /\ call'[d].at = at /\ call'[d].answer = answer
                /\ call'[d].form = form /\ call'[d].key = call[d].key
                /\ d = c \/ (call[d].at = "joined" /\ call[d].key = call[c].key
                            /\ call[c].key \in Keys)
             \/ /\ call'[d] = call[d] /\ d # c
                /\ call[d].at = "joined" => inFlight[call[d].key] # c
  BY SettledCalls
<1>3. call[c].key = NoKey \/ (call[c].key \in Keys \ TxKeys /\ inFlight[call[c].key] = c)
  BY DEF Runners, Active
<1>4. ExecutorTypeOK'
  BY <1>1 DEF ExecutorTypeOK, CallSet, Steps
<1>5. Runners'
  <2> SUFFICES ASSUME NEW d \in Calls
               PROVE  /\ call'[d].at \in {"lookup", "decide", "joined"}
                           => call'[d].key \in Keys \ TxKeys
                      /\ call'[d].at = "joined" => inFlight'[call'[d].key] # NoCall
                      /\ call'[d].at \in Active =>
                           \/ call'[d].key = NoKey
                           \/ /\ call'[d].key \in Keys \ TxKeys
                              /\ inFlight'[call'[d].key] = d
    BY DEF Runners
  <2>1. CASE call'[d].at = at
    BY <2>1 DEF Active
  <2>2. CASE /\ call'[d] = call[d] /\ d # c
             /\ call[d].at = "joined" => inFlight[call[d].key] # c
    BY <1>1, <2>2 DEF Runners, Active
  <2> QED
    BY <1>2, <2>1, <2>2
<1>6. InFlightRuns'
  <2> SUFFICES ASSUME NEW k \in Keys, inFlight'[k] # NoCall
               PROVE  call'[inFlight'[k]].key = k /\ call'[inFlight'[k]].at \in Active
    BY DEF InFlightRuns
  <2> DEFINE e == inFlight[k]
  <2>1. inFlight'[k] = e /\ e # c /\ e \in Calls
    BY <1>1 DEF ExecutorTypeOK
  <2>2. call[e].key = k /\ call[e].at \in Active
    BY <2>1 DEF InFlightRuns
  <2>3. call'[e] = call[e]
    BY <1>2, <2>1, <2>2 DEF Active
  <2> QED
    BY <2>1, <2>2, <2>3
<1>7. OwnRow'
  <2> SUFFICES ASSUME NEW d \in Calls
               PROVE  /\ call'[d].at \in {"lookup", "decide", "insert"} => ~call'[d].row
                      /\ (/\ call'[d].row /\ call'[d].key # NoKey
                          /\ call'[d].at \in {"run", "complete", "fail"})
                         => audit'[call'[d].key].status = "running"
    BY DEF OwnRow
  <2>1. CASE call'[d].at = at
    BY <2>1
  <2>2. CASE call'[d] = call[d] /\ d # c
    <3>1. CASE call[d].key # NoKey /\ call[d].at \in {"run", "complete", "fail"}
      <4>1. call[d].key \in Keys /\ inFlight[call[d].key] = d
        BY <3>1 DEF Runners, Active
      <4>2. call[d].key # call[c].key
        BY <1>3, <2>2, <3>1, <4>1
      <4> QED
        BY <2>2, <3>1, <4>1, <4>2 DEF OwnRow
    <3>2. CASE ~(call[d].key # NoKey /\ call[d].at \in {"run", "complete", "fail"})
      BY <2>2, <3>2 DEF OwnRow
    <3> QED
      BY <3>1, <3>2
  <2> QED
    BY <1>2, <2>1, <2>2
<1>8. Numbers' /\ Found' /\ RunsEnd'
  <2>1. \A d \in Calls : call'[d].at \in {"decide", "complete"} => call'[d] = call[d]
    BY <1>2
  <2>2. \A d \in Keys : Cached(d) => Cached(d)'
    BY DEF Cached
  <2> QED
    BY <2>1, <2>2 DEF Numbers, Found, RunsEnd, Runners
<1>9. KeptIsRun'
  BY DEF KeptIsRun
<1>10. ASSUME NEW d \in Calls, call'[d].at = "answered"
       PROVE  /\ call'[d].answer \in 1..ran'
              /\ \A k \in Keys : call'[d].answer \in runs'[k] <=> call'[d].key = k
              /\ call'[d].form = "cut" => call'[d].key \in Keys /\ Cached(call[d].key)'
  <2>1. CASE /\ call'[d].at = at /\ call'[d].answer = answer
             /\ call'[d].form = form /\ call'[d].key = call[d].key
             /\ d = c \/ call[d].key = call[c].key
    BY <1>10, <2>1
  <2>2. CASE call'[d] = call[d]
    <3>1. call[d].form = "cut" => call[d].key \in Keys /\ Cached(call[d].key)
      BY <1>10, <2>2 DEF CutHasKey, AnswersAreRuns
    <3>2. call[d].form = "cut" => Cached(call[d].key)'
      BY <2>2, <3>1 DEF Cached
    <3> QED
      BY <1>10, <2>2, <3>1, <3>2 DEF AnswersAreRuns
  <2> QED
    BY <1>2, <2>1, <2>2
<1>11. CutHasKey' /\ AnswersAreRuns'
  <2>1. \A d \in Calls : call'[d].key = call[d].key \/ call'[d] = call[d]
    BY <1>2
  <2> QED
    BY <1>10, <2>1 DEF CutHasKey, AnswersAreRuns
<1> QED
  BY <1>4, <1>5, <1>6, <1>7, <1>8, <1>9, <1>11

LEMMA CompleteKeeps ==
  ASSUME EInv, NEW c \in Calls, Complete(c)
  PROVE  EInv'
<1> USE ExecutorAssumption DEF EInv
<1>1. /\ call[c].at = "complete" /\ call[c].answer \in 0..MaxRuns
      /\ "whole" \in Forms /\ Settles(c, "answered", call[c].answer, "whole")
  BY DEF Complete, ExecutorTypeOK, Forms
<1>2. /\ call[c].answer \in 1..ran
      /\ \A k \in Keys : call[c].answer \in runs[k] <=> call[c].key = k
  BY <1>1 DEF RunsEnd
<1>3. \A d \in Keys : Cached(d)' => audit'[d].run \in runs[d]
  BY CompletedRow DEF KeptIsRun, Cached
<1> QED
  BY <1>1, <1>2, <1>3, CompletedRow, SettleKeeps

LEMMA FailKeeps ==
  ASSUME EInv, NEW c \in Calls, Fail(c)
  PROVE  EInv'
<1> USE ExecutorAssumption DEF EInv
<1>1. call[c].at = "fail" /\ "void" \in Forms /\ 0 \in 0..MaxRuns
      /\ Settles(c, "threw", 0, "void")
  BY DEF Fail, Forms
<1>2. \A d \in Keys : Cached(d)' => audit'[d].run \in runs[d]
  BY FailedRow DEF KeptIsRun
<1> QED
  BY <1>1, <1>2, FailedRow, SettleKeeps

LEMMA LeavesKeeps ==
  ASSUME EInv, NEW c \in Calls, Leaves(c)
  PROVE  EInv'
<1> USE ExecutorAssumption DEF EInv
<1>1. call \in [Calls -> CallSet] /\ call[c].at \in {"answered", "threw"}
      /\ UNCHANGED <<audit, inFlight, runs, ran, troubles>>
  BY DEF ExecutorTypeOK, CallSet, Steps, Leaves
<1>2. call' \in [Calls -> CallSet] /\ call'[c].at = "idle"
      /\ \A d \in Calls : d # c => call'[d] = call[d]
  BY <1>1 DEF CallSet, Steps, Leaves, NewCall, Forms
<1>3. ExecutorTypeOK'
  BY <1>1, <1>2 DEF ExecutorTypeOK, CallSet, Steps
<1>4. Runners' /\ InFlightRuns'
  <2>1. \A k \in Keys : inFlight[k] # c /\ inFlight[k] \in Calls \union {NoCall}
    BY <1>1 DEF InFlightRuns, Active, ExecutorTypeOK
  <2>2. Runners'
    BY <1>1, <1>2 DEF Runners, Active
  <2>3. InFlightRuns'
    BY <1>1, <1>2, <2>1 DEF InFlightRuns, Cached
  <2> QED
    BY <2>2, <2>3
<1>5. OwnRow' /\ Numbers' /\ Found' /\ RunsEnd' /\ KeptIsRun' /\ CutHasKey' /\ AnswersAreRuns'
  BY <1>1, <1>2 DEF OwnRow, Numbers, Found, RunsEnd, KeptIsRun, CutHasKey, AnswersAreRuns, Cached
<1> QED
  BY <1>3, <1>4, <1>5

LEMMA ExecutorCrashKeeps == ASSUME EInv, CrashExecutor PROVE EInv'
<1> USE ExecutorAssumption DEF EInv, CrashExecutor
<1>1. call' \in [Calls -> CallSet] /\ \A c \in Calls : call'[c].at = "idle"
  BY DEF NewCall, CallSet, Steps, Forms
<1>2. inFlight' \in [Keys -> Calls \union {NoCall}] /\ \A k \in Keys : inFlight'[k] = NoCall
  OBVIOUS
<1>3. ExecutorTypeOK'
  BY <1>1, <1>2 DEF ExecutorTypeOK, CallSet, Steps, Trouble
<1>4. Runners' /\ InFlightRuns'
  <2>1. Runners'
    BY <1>1 DEF Runners, Active
  <2>2. InFlightRuns'
    BY <1>2 DEF InFlightRuns
  <2> QED
    BY <2>1, <2>2
<1>5. OwnRow' /\ Numbers' /\ Found' /\ RunsEnd' /\ KeptIsRun' /\ CutHasKey' /\ AnswersAreRuns'
  BY <1>1 DEF OwnRow, Numbers, Found, RunsEnd, KeptIsRun, CutHasKey, AnswersAreRuns, Cached
<1> QED
  BY <1>3, <1>4, <1>5

\* A transaction that runs: what it leaves of runs, rows and calls.
LEMMA TransactionRow ==
  ASSUME EInv, NEW c \in Calls, NEW k \in TxKeys, RunInTransaction(c, k), ~Cached(k)
  PROVE  /\ audit' \in [Keys -> RowSet] /\ runs' \in [Keys -> SUBSET (1..MaxRuns)]
         /\ \A d \in Keys : d # k => audit'[d] = audit[d] /\ runs'[d] = runs[d]
         /\ \/ audit'[k] = audit[k]
            \/ audit[k].status = "none" /\ audit'[k].run = ran + 1
         /\ runs' = [runs EXCEPT ![k] = @ \union {ran + 1}] /\ ran + 1 \in runs'[k]
         /\ ran \in Nat /\ ran' = ran + 1 /\ ran' \in 0..MaxRuns
<1> USE ExecutorAssumption DEF EInv
<1>1. /\ ran < MaxRuns /\ ran' = ran + 1 /\ k \in Keys /\ ran \in 0..MaxRuns
      /\ runs' = [runs EXCEPT ![k] = @ \union {ran + 1}]
  BY DEF RunInTransaction, ExecutorTypeOK
<1>2. PICK f \in Forms : audit' = IF audit[k].status = "none"
                           THEN [audit EXCEPT ![k] = Kept(f, ran + 1)] ELSE audit
  BY DEF RunInTransaction
<1>3. Kept(f, ran + 1) \in RowSet /\ Kept(f, ran + 1).run = ran + 1
  BY <1>1 DEF Kept, AuditStatuses, RowSet
<1>4. /\ audit' \in [Keys -> RowSet]
      /\ \A d \in Keys : d # k => audit'[d] = audit[d]
      /\ \/ audit'[k] = audit[k]
         \/ audit[k].status = "none" /\ audit'[k].run = ran + 1
  <2>1. audit \in [Keys -> RowSet]
    BY DEF ExecutorTypeOK, RowSet
  <2>2. CASE audit[k].status = "none"
    <3> DEFINE row == Kept(f, ran + 1)
    <3>1. row \in RowSet /\ row.run = ran + 1 /\ audit' = [audit EXCEPT ![k] = row]
      BY <1>2, <1>3, <2>2
    <3> HIDE DEF row
    <3> QED
      BY <1>1, <2>1, <2>2, <3>1
  <2>3. CASE audit[k].status # "none"
    <3>1. audit' = audit
      BY <1>2, <2>3
    <3> QED
      BY <2>1, <3>1
  <2> QED
    BY <2>2, <2>3
<1>5. /\ runs' \in [Keys -> SUBSET (1..MaxRuns)] /\ ran + 1 \in runs'[k]
      /\ \A d \in Keys : d # k => runs'[d] = runs[d]
  <2>1. runs[k] \union {ran + 1} \in SUBSET (1..MaxRuns)
    BY <1>1 DEF ExecutorTypeOK
  <2> QED
    BY <1>1, <2>1 DEF ExecutorTypeOK
<1> QED
  BY <1>1, <1>4, <1>5

LEMMA TransactionKeeps ==
  ASSUME EInv, NEW c \in Calls, NEW k \in TxKeys, RunInTransaction(c, k)
  PROVE  EInv'
<1> USE ExecutorAssumption DEF EInv
<1>1. call \in [Calls -> CallSet] /\ call[c].at = "idle" /\ k \in Keys
      /\ UNCHANGED <<inFlight, troubles>>
  BY DEF ExecutorTypeOK, CallSet, Steps, RunInTransaction
<1>2. \A d \in Keys : inFlight[d] # c /\ inFlight[d] \in Calls \union {NoCall}
  BY <1>1 DEF InFlightRuns, Active, ExecutorTypeOK
<1>3. CASE Cached(k)
  <2> DEFINE r == [at |-> "answered", key |-> k, row |-> FALSE,
                   answer |-> audit[k].run, form |-> audit[k].form]
  <2>1. call' = [call EXCEPT ![c] = r] /\ UNCHANGED <<audit, runs, ran>>
    BY <1>3 DEF RunInTransaction
  <2>2. r \in CallSet
    BY <1>1 DEF CallSet, Steps, ExecutorTypeOK
  <2>3. r.at = "answered" /\ r.key = k /\ r.answer = audit[k].run /\ r.form = audit[k].form
    OBVIOUS
  <2> HIDE DEF r
  <2>4. /\ call' \in [Calls -> CallSet] /\ call'[c] = r
        /\ \A d \in Calls : d # c => call'[d] = call[d]
    BY <1>1, <2>1, <2>2
  <2>5. ExecutorTypeOK'
    BY <1>1, <2>1, <2>4 DEF ExecutorTypeOK, CallSet, Steps
  <2>6. Runners'
    BY <1>1, <2>3, <2>4 DEF Runners, Active
  <2>7. InFlightRuns'
    BY <1>1, <1>2, <2>4 DEF InFlightRuns
  <2>8. OwnRow' /\ Numbers' /\ Found' /\ RunsEnd' /\ KeptIsRun'
    BY <1>1, <2>1, <2>3, <2>4 DEF OwnRow, Numbers, Found, RunsEnd, KeptIsRun, Cached
  <2>9. CutHasKey' /\ AnswersAreRuns'
    <3>1. r.answer \in 1..ran /\ \A d \in Keys : r.answer \in runs[d] <=> r.key = d
      <4>1. r.answer \in runs[k]
        BY <1>1, <1>3, <2>3 DEF KeptIsRun
      <4> QED
        BY <1>1, <2>3, <4>1 DEF Numbers
    <3> QED
      BY <1>1, <1>3, <2>1, <2>3, <2>4, <3>1 DEF CutHasKey, AnswersAreRuns, Cached
  <2> QED
    BY <2>5, <2>6, <2>7, <2>8, <2>9
<1>4. CASE ~Cached(k)
  <2> DEFINE r == [at |-> "answered", key |-> k, row |-> TRUE,
                   answer |-> ran + 1, form |-> "whole"]
  <2>1. call' = [call EXCEPT ![c] = r]
    BY <1>4 DEF RunInTransaction
  <2>2. /\ audit' \in [Keys -> RowSet] /\ runs' \in [Keys -> SUBSET (1..MaxRuns)]
        /\ \A d \in Keys : d # k => audit'[d] = audit[d] /\ runs'[d] = runs[d]
        /\ \/ audit'[k] = audit[k]
           \/ audit[k].status = "none" /\ audit'[k].run = ran + 1
        /\ runs' = [runs EXCEPT ![k] = @ \union {ran + 1}] /\ ran + 1 \in runs'[k]
        /\ ran \in Nat /\ ran' = ran + 1 /\ ran' \in 0..MaxRuns
    BY <1>4, TransactionRow
  <2>3. r \in CallSet
    BY <1>1, <2>2 DEF CallSet, Steps, Forms
  <2>4. r.at = "answered" /\ r.key = k /\ r.answer = ran + 1 /\ r.form = "whole"
    OBVIOUS
  <2> HIDE DEF r
  <2>5. /\ call' \in [Calls -> CallSet] /\ call'[c] = r
        /\ \A d \in Calls : d # c => call'[d] = call[d]
    BY <1>1, <2>1, <2>3
  <2>6. /\ Numbers'
        /\ ran + 1 \in 1..ran' /\ \A d \in Keys : ran + 1 \in runs'[d] <=> k = d
        /\ \A n \in 1..ran : /\ n \in 1..ran'
                            /\ \A d \in Keys : n \in runs'[d] <=> n \in runs[d]
    <3>1. /\ k \in Keys \union {NoKey} /\ k # NoKey
          /\ runs' = IF k = NoKey THEN runs ELSE [runs EXCEPT ![k] = @ \union {ran + 1}]
      BY <1>1, <2>2
    <3> QED
      BY <2>2, <3>1, NewNumber
  <2>7. ExecutorTypeOK'
    BY <1>1, <2>2, <2>5 DEF ExecutorTypeOK, CallSet, Steps, RowSet
  <2>8. Runners'
    BY <1>1, <2>4, <2>5 DEF Runners, Active
  <2>9. InFlightRuns'
    BY <1>1, <1>2, <2>5 DEF InFlightRuns
  <2>10. ASSUME NEW d \in Calls, d # c, call[d].at \in Active \union {"decide"}
         PROVE  /\ call'[d] = call[d]
                /\ call[d].key # NoKey => /\ call[d].key \in Keys \ {k}
                                          /\ audit'[call[d].key] = audit[call[d].key]
                                          /\ runs'[call[d].key] = runs[call[d].key]
    BY <1>1, <2>2, <2>5, <2>10 DEF Runners, Active
  <2>11. OwnRow'
    BY <2>4, <2>5, <2>10 DEF OwnRow, Active
  <2>12. Found'
    <3> SUFFICES ASSUME NEW d \in Calls, call'[d].at = "decide", call'[d].answer # 0
                 PROVE  /\ audit'[call'[d].key].status = "completed"
                        /\ audit'[call'[d].key].form # "void"
                        /\ call'[d].answer \in runs'[call'[d].key]
      BY DEF Found, Cached
    <3>1. d # c /\ call'[d] = call[d] /\ call[d].key \in Keys /\ call[d].key # NoKey
      BY <2>4, <2>5 DEF Runners
    <3> QED
      BY <2>10, <3>1 DEF Found, Cached
  <2>13. RunsEnd'
    <3> SUFFICES ASSUME NEW d \in Calls, call'[d].at = "complete"
                 PROVE  /\ call'[d].answer \in 1..ran'
                        /\ \A e \in Keys : call'[d].answer \in runs'[e] <=> call'[d].key = e
                        /\ call'[d].key # NoKey =>
                             \A n \in runs'[call'[d].key] : n <= call'[d].answer
      BY DEF RunsEnd
    <3>1. d # c /\ call'[d] = call[d] /\ call[d].at = "complete"
      BY <2>4, <2>5
    <3>2. /\ call[d].answer \in 1..ran
          /\ \A e \in Keys : call[d].answer \in runs[e] <=> call[d].key = e
          /\ call[d].key # NoKey => \A n \in runs[call[d].key] : n <= call[d].answer
      BY <3>1 DEF RunsEnd
    <3>3. call[d].key # NoKey => runs'[call[d].key] = runs[call[d].key]
      BY <2>10, <3>1 DEF Active
    <3> QED
      BY <2>6, <3>1, <3>2, <3>3
  <2>14. KeptIsRun'
    BY <1>4, <2>2 DEF KeptIsRun, Cached
  <2>15. CutHasKey' /\ AnswersAreRuns'
    <3> SUFFICES ASSUME NEW d \in Calls, call'[d].at = "answered"
                 PROVE  /\ call'[d].answer \in 1..ran'
                        /\ \A e \in Keys : call'[d].answer \in runs'[e] <=> call'[d].key = e
                        /\ call'[d].form = "cut" =>
                             /\ call'[d].key \in Keys
                             /\ audit'[call'[d].key].status = "completed"
                             /\ audit'[call'[d].key].form # "void"
      BY DEF CutHasKey, AnswersAreRuns, Cached
    <3>1. CASE d = c
      BY <1>1, <2>4, <2>5, <2>6, <3>1
    <3>2. CASE d # c
      <4>1. call'[d] = call[d] /\ call[d].at = "answered"
        BY <2>5, <3>2
      <4>2. \A e \in Keys : Cached(e) => audit'[e] = audit[e]
        BY <1>4, <2>2 DEF Cached
      <4>3. call[d].form = "cut" => call[d].key \in Keys /\ Cached(call[d].key)
        BY <4>1 DEF CutHasKey, AnswersAreRuns
      <4> QED
        BY <2>6, <4>1, <4>2, <4>3 DEF AnswersAreRuns, Cached
    <3> QED
      BY <3>1, <3>2
  <2> QED
    BY <2>6, <2>7, <2>8, <2>9, <2>11, <2>12, <2>13, <2>14, <2>15
<1> QED
  BY <1>3, <1>4

LEMMA ExecutorNextKeeps == ASSUME EInv, [ExecutorNext]_executorVars PROVE EInv'
<1>1. CASE UNCHANGED executorVars
  BY <1>1 DEF executorVars, EInv, ExecutorTypeOK, Runners, InFlightRuns, OwnRow,
     Numbers, Found, RunsEnd, KeptIsRun, CutHasKey, AnswersAreRuns, Cached
<1>2. CASE CrashExecutor
  BY <1>2, ExecutorCrashKeeps
<1>3. ASSUME NEW c \in Calls, CallStep(c) PROVE EInv'
  BY <1>3, LookupKeeps, LookupFailsKeeps, DecideKeeps, InsertAuditKeeps, InsertFailsKeeps,
     RunSucceedsKeeps, RunFailsKeeps, CompleteKeeps, FailKeeps DEF CallStep
<1>4. ASSUME NEW c \in Calls, NEW k \in (Keys \ TxKeys) \union {NoKey}, Begin(c, k)
      PROVE  EInv'
  BY <1>4, ExecutorBeginKeeps
<1>5. ASSUME NEW c \in Calls, NEW k \in TxKeys, RunInTransaction(c, k) PROVE EInv'
  BY <1>5, TransactionKeeps
<1>6. ASSUME NEW c \in Calls, Leaves(c) PROVE EInv'
  BY <1>6, LeavesKeeps
<1> QED
  BY <1>1, <1>2, <1>3, <1>4, <1>5, <1>6 DEF ExecutorNext

LEMMA ExecutorAlways == ExecutorSpec => []EInv
<1> QED
  BY ExecutorInitInv, ExecutorNextKeeps, PTL DEF ExecutorSpec

\* The variables keep their types, for any number of calls, keys, runs and
\* troubles.
THEOREM ExecutorTypes == ExecutorSpec => []ExecutorTypeOK
<1>1. EInv => ExecutorTypeOK
  BY DEF EInv
<1> QED
  BY <1>1, ExecutorAlways, PTL

\* A call is answered with a run of its own key that succeeded and with that of
\* no other, a call without a key with none of theirs, and a result that is cut
\* off comes only from the table (the answer of Settles, Lookup and of
\* runWithTransactionAudit).
THEOREM ExecutorAnswers == ExecutorSpec => []AnswersAreRuns
<1>1. EInv => AnswersAreRuns
  BY DEF EInv
<1> QED
  BY <1>1, ExecutorAlways, PTL

\* The call that joined another waits for runs its key, and has a step to take.
WaitsForARun(c) ==
  LET runner == inFlight[call[c].key] IN
  /\ runner \in Calls \ {c} /\ call[runner].key = call[c].key
  /\ call[runner].at \in Active
JoinedWait == \A c \in Calls : call[c].at = "joined" => WaitsForARun(c)

\* A call that joined waits for a run of its own key that is under way, one that
\* this process has not lost: the part of EveryCallSettles that is a matter of
\* safety (inFlightIdempotentRuns, and the finally of runPrimitiveWithAudit).
THEOREM JoinedWaitForARun == ExecutorSpec => []JoinedWait
<1>1. ASSUME EInv PROVE JoinedWait
  <2> SUFFICES ASSUME NEW c \in Calls, call[c].at = "joined"
               PROVE  WaitsForARun(c)
    BY DEF JoinedWait
  <2> DEFINE k == call[c].key
             runner == inFlight[k]
  <2>1. k \in Keys /\ runner # NoCall  BY <1>1 DEF EInv, Runners
  <2>2. runner \in Calls  BY <1>1, <2>1 DEF EInv, ExecutorTypeOK
  <2>3. call[runner].key = k /\ call[runner].at \in Active
    BY <1>1, <2>1 DEF EInv, InFlightRuns
  <2>4. runner # c  BY <2>3 DEF Active
  <2> QED BY <2>2, <2>3, <2>4 DEF WaitsForARun
<1> QED BY <1>1, ExecutorAlways, PTL

\* The seeking callers and the kept runs that the refinement maps to RunOnce's.
Seeking == [c \in Calls |-> IF Seeks(c) THEN call[c].key ELSE NoKey]
KeptRun == [k \in Keys |-> IF Cached(k) THEN audit[k].run ELSE 0]

LEMMA SameKept ==
  ASSUME \A k \in Keys : Cached(k)' = Cached(k) /\ (Cached(k) => audit'[k] = audit[k])
  PROVE  KeptRun' = KeptRun
<1>1. \A k \in Keys : (IF Cached(k)' THEN audit'[k].run ELSE 0)
                      = (IF Cached(k) THEN audit[k].run ELSE 0)
  OBVIOUS
<1> QED
  BY <1>1 DEF KeptRun, Cached

\* A call that takes a step alone is the only one whose seeking may change.
LEMMA SeekingAlone ==
  ASSUME NEW c \in Calls, \A d \in Calls : d # c => call'[d] = call[d]
  PROVE  Seeking' = [Seeking EXCEPT ![c] = IF Seeks(c)' THEN call'[c].key ELSE NoKey]
<1>1. \A d \in Calls : d # c => Seeks(d)' = Seeks(d)
  BY DEF Seeks
<1>2. \A d \in Calls : (IF Seeks(d)' THEN call'[d].key ELSE NoKey)
        = IF d = c THEN (IF Seeks(c)' THEN call'[c].key ELSE NoKey)
          ELSE IF Seeks(d) THEN call[d].key ELSE NoKey
  BY <1>1
<1>3. Seeking' = [d \in Calls |->
          IF d = c THEN (IF Seeks(c)' THEN call'[c].key ELSE NoKey)
          ELSE IF Seeks(d) THEN call[d].key ELSE NoKey]
  BY <1>2 DEF Seeking, Seeks
<1> QED
  BY <1>3 DEF Seeking

\* The same, when c seeks after the step what it sought before.
LEMMA SeekingSame ==
  ASSUME NEW c \in Calls, \A d \in Calls : d # c => call'[d] = call[d],
         (IF Seeks(c)' THEN call'[c].key ELSE NoKey) = Seeking[c]
  PROVE  Seeking' = Seeking
<1>1. Seeking' = [Seeking EXCEPT ![c] = Seeking[c]]
  BY SeekingAlone
<1> QED
  BY <1>1 DEF Seeking

LEMMA OnceStutters ==
  ASSUME Seeking' = Seeking, KeptRun' = KeptRun, UNCHANGED <<inFlight, runs, ran>>
  PROVE  UNCHANGED Once!vars
BY DEF Once!vars, Seeking, KeptRun

LEMMA OnceSteps ==
  ASSUME NEW c \in Calls, NEW k \in Keys,
         \/ Once!Look(c, k) \/ Once!Start(c, k) \/ Once!Run(c, k) \/ Once!GiveUp(c)
         \/ Once!Stop(k) \/ Once!Transaction(k)
  PROVE  Once!Next
BY DEF Once!Next

LEMMA SameAudit ==
  ASSUME UNCHANGED audit
  PROVE  KeptRun' = KeptRun
BY DEF KeptRun, Cached

LEMMA BeginRuns ==
  ASSUME EInv, NEW c \in Calls, NEW k \in (Keys \ TxKeys) \union {NoKey}, Begin(c, k)
  PROVE  UNCHANGED Once!vars
<1> USE ExecutorAssumption
<1>1. /\ call[c].at = "idle" /\ UNCHANGED <<audit, inFlight, runs, ran>>
      /\ \A d \in Calls : d # c => call'[d] = call[d]
      /\ call'[c].key = k /\ call'[c].at = IF k = NoKey THEN "insert" ELSE "lookup"
  BY DEF Begin, EInv, ExecutorTypeOK
<1>2. Seeking[c] = NoKey /\ (IF Seeks(c)' THEN call'[c].key ELSE NoKey) = NoKey
  BY <1>1 DEF Seeking, Seeks
<1> QED
  BY <1>1, <1>2, SeekingSame, SameAudit, OnceStutters

LEMMA LookupRuns ==
  ASSUME EInv, NEW c \in Calls, Lookup(c)
  PROVE  Once!Next \/ UNCHANGED Once!vars
<1> DEFINE k == call[c].key
<1> USE ExecutorAssumption
<1>1. /\ call[c].at = "lookup" /\ k \in Keys /\ UNCHANGED <<audit, inFlight, runs, ran>>
      /\ \A d \in Calls : d # c => call'[d] = call[d]
      /\ call'[c].key = k /\ call'[c].at = "decide"
      /\ call'[c].answer = IF Cached(k) THEN audit[k].run ELSE 0
  BY DEF Lookup, EInv, ExecutorTypeOK, Runners
<1>2. KeptRun' = KeptRun /\ Seeking[c] = NoKey
  BY <1>1, SameAudit DEF Seeking, Seeks
<1>3. CASE Cached(k)
  <2>1. call'[c].answer # 0
    BY <1>1, <1>3 DEF EInv, KeptIsRun, Numbers, ExecutorTypeOK
  <2>2. ~Seeks(c)'
    BY <1>1, <2>1 DEF Seeks
  <2> QED
    BY <1>1, <1>2, <2>2, SeekingSame, OnceStutters
<1>4. CASE ~Cached(k)
  <2>1. Seeks(c)'
    BY <1>1, <1>4 DEF Seeks
  <2>2. Seeking' = [Seeking EXCEPT ![c] = k]
    BY <1>1, <2>1, SeekingAlone
  <2>3. KeptRun[k] = 0
    BY <1>1, <1>4 DEF KeptRun
  <2>4. PICK q \in Keys : q = k
    BY <1>1
  <2>5. Once!Look(c, q)
    BY <1>1, <1>2, <2>2, <2>3, <2>4 DEF Once!Look, Seeking, KeptRun
  <2> QED
    BY <2>5, OnceSteps
<1> QED
  BY <1>3, <1>4

LEMMA DecideRuns ==
  ASSUME EInv, NEW c \in Calls, Decide(c)
  PROVE  Once!Next \/ UNCHANGED Once!vars
<1> DEFINE k == call[c].key
<1> USE ExecutorAssumption
<1>1. /\ call[c].at = "decide" /\ k \in Keys /\ UNCHANGED <<audit, runs, ran>>
      /\ \A d \in Calls : d # c => call'[d] = call[d]
      /\ call'[c].key = k
  BY DEF Decide, Goes, EInv, ExecutorTypeOK, Runners
<1>2. KeptRun' = KeptRun
  BY <1>1, SameAudit
<1>3. CASE call[c].answer # 0
  <2>1. call'[c].at = "answered" /\ UNCHANGED inFlight
    BY <1>3 DEF Decide, Goes, EInv, ExecutorTypeOK
  <2>2. ~Seeks(c)' /\ Seeking[c] = NoKey
    BY <1>1, <1>3, <2>1 DEF Seeking, Seeks
  <2> QED
    BY <1>1, <1>2, <2>1, <2>2, SeekingSame, OnceStutters
<1>4. CASE call[c].answer = 0 /\ inFlight[k] # NoCall
  <2>1. call'[c].at = "joined" /\ UNCHANGED inFlight
    BY <1>4 DEF Decide, Goes, EInv, ExecutorTypeOK
  <2>2. ~Seeks(c)'
    BY <2>1 DEF Seeks
  <2>3. Seeking' = [Seeking EXCEPT ![c] = NoKey]
    BY <1>1, <2>2, SeekingAlone
  <2>4. Once!GiveUp(c)
    BY <1>1, <1>2, <2>1, <2>3 DEF Once!GiveUp, Seeking, KeptRun
  <2> QED
    BY <2>4 DEF Once!Next
<1>5. CASE call[c].answer = 0 /\ inFlight[k] = NoCall
  <2>1. call'[c].at = "insert" /\ inFlight' = [inFlight EXCEPT ![k] = c]
    BY <1>5 DEF Decide, Goes, EInv, ExecutorTypeOK
  <2>2. Seeks(c)' /\ Seeking[c] = k
    BY <1>1, <1>5, <2>1 DEF Seeking, Seeks
  <2>3. Seeking' = Seeking
    BY <1>1, <2>2, SeekingSame
  <2>4. Once!Start(c, k)
    BY <1>1, <1>2, <1>5, <2>1, <2>2, <2>3 DEF Once!Start, Seeking, KeptRun
  <2> QED
    BY <1>1, <2>4, OnceSteps
<1> QED
  BY <1>3, <1>4, <1>5

\* The row is inserted, or could not be: nothing is kept by that.
LEMMA InsertRuns ==
  ASSUME EInv, NEW c \in Calls, InsertAudit(c) \/ InsertFails(c)
  PROVE  UNCHANGED Once!vars
<1> DEFINE k == call[c].key
<1> USE ExecutorAssumption
<1>1. /\ call[c].at = "insert" /\ k \in Keys \union {NoKey}
      /\ UNCHANGED <<inFlight, runs, ran>>
      /\ \A d \in Calls : d # c => call'[d] = call[d]
      /\ call'[c].key = k /\ call'[c].at = "run"
  <2>1. call \in [Calls -> CallSet] /\ call[c] \in CallSet
    BY DEF EInv, ExecutorTypeOK, CallSet, Steps
  <2>2. CASE InsertAudit(c)
    BY <2>1, <2>2 DEF InsertAudit, CallSet
  <2>3. CASE InsertFails(c)
    BY <2>1, <2>3 DEF InsertFails, Goes, CallSet
  <2> QED
    BY <2>2, <2>3
<1>2. Seeking' = Seeking
  <2>1. Seeks(c)' /\ Seeking[c] = k
    BY <1>1 DEF Seeking, Seeks
  <2> QED
    BY <1>1, <2>1, SeekingSame
<1>3. \/ UNCHANGED audit
      \/ k \in Keys /\ audit[k].status = "none"
         /\ audit' = [audit EXCEPT ![k].status = "running"]
  BY <1>1 DEF InsertAudit, InsertFails
<1>4. ASSUME NEW d \in Keys
      PROVE  \/ audit'[d] = audit[d]
             \/ audit[d].status = "none" /\ audit'[d].status = "running"
  <2>1. audit \in [Keys -> RowSet]
    BY DEF EInv, ExecutorTypeOK, RowSet
  <2>2. CASE UNCHANGED audit
    BY <2>2
  <2>3. CASE /\ k \in Keys /\ audit[k].status = "none"
             /\ audit' = [audit EXCEPT ![k].status = "running"]
    <3>1. audit'[k].status = "running" /\ \A e \in Keys : e # k => audit'[e] = audit[e]
      BY <2>1, <2>3 DEF RowSet
    <3> QED
      BY <2>3, <3>1
  <2> QED
    BY <1>3, <2>2, <2>3
<1>5. ASSUME NEW d \in Keys
      PROVE  Cached(d)' = Cached(d) /\ (Cached(d) => audit'[d] = audit[d])
  <2>1. CASE audit'[d] = audit[d]
    BY <2>1 DEF Cached
  <2>2. CASE audit[d].status = "none" /\ audit'[d].status = "running"
    BY <2>2 DEF Cached
  <2> QED
    BY <1>4, <2>1, <2>2
<1> QED
  BY <1>1, <1>2, <1>5, SameKept, OnceStutters

LEMMA RunSucceedsRuns ==
  ASSUME EInv, NEW c \in Calls, RunSucceeds(c)
  PROVE  Once!Next
<1> DEFINE k == call[c].key
<1> USE ExecutorAssumption
<1>1. /\ call[c].at = "run" /\ UNCHANGED <<audit, inFlight>> /\ ran' = ran + 1
      /\ runs' = IF k = NoKey THEN runs ELSE [runs EXCEPT ![k] = @ \union {ran + 1}]
      /\ \A d \in Calls : d # c => call'[d] = call[d]
      /\ call'[c].at = "complete"
  BY DEF RunSucceeds, EInv, ExecutorTypeOK
<1>2. KeptRun' = KeptRun
  BY <1>1, SameAudit
<1>3. ~Seeks(c)' /\ Seeking[c] = k
  BY <1>1 DEF Seeks, Seeking
<1>4. CASE k = NoKey
  <2>1. Seeking' = Seeking
    BY <1>1, <1>3, <1>4, SeekingSame
  <2>2. Once!RunUnkeyed
    BY <1>1, <1>2, <1>4, <2>1 DEF Once!RunUnkeyed, Seeking, KeptRun
  <2> QED
    BY <2>2 DEF Once!Next
<1>5. CASE k # NoKey
  <2>1. k \in Keys /\ inFlight[k] = c
    BY <1>1, <1>5 DEF EInv, Runners, Active
  <2>2. Seeking' = [Seeking EXCEPT ![c] = NoKey]
    BY <1>1, <1>3, SeekingAlone
  <2>3. PICK q \in Keys : q = k
    BY <2>1
  <2>4. Once!Run(c, q)
    BY <1>1, <1>2, <1>3, <1>5, <2>1, <2>2, <2>3 DEF Once!Run, Seeking, KeptRun
  <2> QED
    BY <2>4, OnceSteps
<1> QED
  BY <1>4, <1>5

LEMMA RunFailsRuns ==
  ASSUME EInv, NEW c \in Calls, RunFails(c)
  PROVE  Once!Next
<1>1. /\ call[c].at = "run" /\ UNCHANGED <<audit, inFlight, runs, ran>>
      /\ \A d \in Calls : d # c => call'[d] = call[d]
      /\ call'[c].at = "fail"
  BY DEF RunFails, Goes, EInv, ExecutorTypeOK
<1>2. ~Seeks(c)'
  BY <1>1 DEF Seeks
<1>3. Seeking' = [Seeking EXCEPT ![c] = NoKey] /\ KeptRun' = KeptRun
  BY <1>1, <1>2, SeekingAlone, SameAudit
<1>4. Once!GiveUp(c)
  BY <1>1, <1>3 DEF Once!GiveUp, Seeking, KeptRun
<1> QED
  BY <1>4 DEF Once!Next

\* The end of a run: nobody seeks more or less than before, and its key, if it
\* has one, is not run any more.
LEMMA SettleRuns ==
  ASSUME EInv, NEW c \in Calls, call[c].at \in {"complete", "fail"},
         NEW at \in {"answered", "threw"}, NEW answer \in 0..MaxRuns,
         NEW form \in Forms, Settles(c, at, answer, form)
  PROVE  /\ Seeking' = Seeking
         /\ inFlight' = IF call[c].key = NoKey THEN inFlight
                        ELSE [inFlight EXCEPT ![call[c].key] = NoCall]
<1> DEFINE k == call[c].key
<1> USE ExecutorAssumption
<1>1. ASSUME NEW d \in Calls
      PROVE  (IF Seeks(d)' THEN call'[d].key ELSE NoKey)
             = IF Seeks(d) THEN call[d].key ELSE NoKey
  <2>1. CASE call'[d].at = at /\ (d = c \/ call[d].at = "joined")
    BY <2>1 DEF Seeks
  <2>2. CASE call'[d] = call[d]
    BY <2>2 DEF Seeks
  <2>3. \/ call'[d].at = at /\ (d = c \/ call[d].at = "joined")
        \/ call'[d] = call[d]
    BY SettledCalls
  <2> QED
    BY <2>1, <2>2, <2>3
<1>2. Seeking' = Seeking
  BY <1>1 DEF Seeking, Seeks
<1>3. inFlight' = [d \in Keys |-> IF inFlight[d] = c THEN NoCall ELSE inFlight[d]]
      /\ inFlight \in [Keys -> Calls \union {NoCall}]
  BY DEF Settles, EInv, ExecutorTypeOK
<1>4. \A d \in Keys : inFlight[d] = c => d = k
  BY DEF EInv, InFlightRuns
<1>5. k = NoKey \/ (k \in Keys /\ inFlight[k] = c)
  BY DEF EInv, Runners, Active
<1>6. CASE k = NoKey
  <2>1. \A d \in Keys : inFlight[d] # c
    BY <1>4, <1>6
  <2> QED
    BY <1>2, <1>3, <1>6, <2>1
<1>7. CASE k # NoKey
  <2>1. \A d \in Keys : inFlight'[d] = IF d = k THEN NoCall ELSE inFlight[d]
    BY <1>3, <1>4, <1>5, <1>7
  <2> QED
    BY <1>2, <1>3, <1>5, <1>7, <2>1
<1> QED
  BY <1>6, <1>7

LEMMA CompleteRuns ==
  ASSUME EInv, NEW c \in Calls, Complete(c)
  PROVE  Once!Next \/ UNCHANGED Once!vars
<1> DEFINE k == call[c].key
<1> USE ExecutorAssumption
<1>1. /\ \A d \in Keys : d # k => audit'[d] = audit[d]
      /\ \A d \in Keys : Cached(d) => audit'[d] = audit[d]
      /\ \A d \in Keys : audit'[d] # audit[d] =>
           audit'[d].run \in runs[d] /\ \A r \in runs[d] : r <= audit'[d].run
      /\ UNCHANGED <<runs, ran>>
  BY CompletedRow
<1>2. /\ call[c].at = "complete" /\ k \in Keys \union {NoKey}
      /\ call[c].answer \in 0..MaxRuns /\ "whole" \in Forms
      /\ Settles(c, "answered", call[c].answer, "whole")
  BY DEF Complete, EInv, ExecutorTypeOK, Forms
<1>3. /\ Seeking' = Seeking
      /\ inFlight' = IF k = NoKey THEN inFlight ELSE [inFlight EXCEPT ![k] = NoCall]
  BY <1>2, SettleRuns
<1>4. KeptRun' = KeptRun \/ (/\ k \in Keys /\ KeptRun[k] = 0
                             /\ \E r \in runs[k] : /\ \A s \in runs[k] : s <= r
                                                   /\ KeptRun' = [KeptRun EXCEPT ![k] = r])
  <2>1. CASE \A d \in Keys : Cached(d)' = Cached(d)
    BY <1>1, <2>1, SameKept
  <2>2. CASE \E d \in Keys : Cached(d)' # Cached(d)
    <3>1. PICK d \in Keys : Cached(d)' # Cached(d)
      BY <2>2
    <3>2. d = k /\ audit'[d] # audit[d] /\ ~Cached(d) /\ Cached(d)'
      BY <1>1, <3>1 DEF Cached
    <3> DEFINE r == audit'[d].run
    <3>3. r \in runs[d] /\ \A s \in runs[d] : s <= r
      BY <1>1, <3>2
    <3>4. \A e \in Keys : e # d => audit'[e] = audit[e] /\ Cached(e)' = Cached(e)
      BY <1>1, <3>2 DEF Cached
    <3>5. \A e \in Keys : (IF Cached(e)' THEN audit'[e].run ELSE 0)
                          = IF e = d THEN r ELSE IF Cached(e) THEN audit[e].run ELSE 0
      BY <3>2, <3>4
    <3>6. KeptRun' = [e \in Keys |-> IF e = d THEN r
                                   ELSE IF Cached(e) THEN audit[e].run ELSE 0]
      BY <3>5 DEF KeptRun, Cached
    <3> HIDE DEF r
    <3>7. KeptRun' = [KeptRun EXCEPT ![d] = r] /\ KeptRun[d] = 0
      BY <3>2, <3>6 DEF KeptRun
    <3> QED
      BY <3>2, <3>3, <3>7
  <2> QED
    BY <2>1, <2>2
<1>5. CASE k = NoKey
  <2>1. KeptRun' = KeptRun
    BY <1>4, <1>5
  <2> QED
    BY <1>1, <1>3, <1>5, <2>1, OnceStutters
<1>6. CASE k # NoKey
  <2>1. k \in Keys /\ inFlight' = [inFlight EXCEPT ![k] = NoCall]
    BY <1>2, <1>3, <1>6
  <2>2. PICK q \in Keys : q = k
    BY <2>1
  <2>3. Once!Stop(q)
    BY <1>1, <1>3, <1>4, <2>1, <2>2 DEF Once!Stop, Seeking, KeptRun
  <2> QED
    BY <2>3, OnceSteps
<1> QED
  BY <1>5, <1>6

LEMMA FailRuns ==
  ASSUME EInv, NEW c \in Calls, Fail(c)
  PROVE  Once!Next \/ UNCHANGED Once!vars
<1> DEFINE k == call[c].key
<1> USE ExecutorAssumption
<1>1. /\ call[c].at = "fail" /\ k \in Keys \union {NoKey} /\ 0 \in 0..MaxRuns
      /\ "void" \in Forms /\ Settles(c, "threw", 0, "void")
  BY DEF Fail, EInv, ExecutorTypeOK, Forms
<1>2. KeptRun' = KeptRun /\ UNCHANGED <<runs, ran>>
  BY FailedRow, SameKept
<1>3. /\ Seeking' = Seeking
      /\ inFlight' = IF k = NoKey THEN inFlight ELSE [inFlight EXCEPT ![k] = NoCall]
  BY <1>1, SettleRuns
<1>4. CASE k = NoKey
  BY <1>2, <1>3, <1>4, OnceStutters
<1>5. CASE k # NoKey
  <2>1. k \in Keys /\ inFlight' = [inFlight EXCEPT ![k] = NoCall]
    BY <1>1, <1>3, <1>5
  <2>2. PICK q \in Keys : q = k
    BY <2>1
  <2>3. Once!Stop(q)
    BY <1>2, <1>3, <2>1, <2>2 DEF Once!Stop, Seeking, KeptRun
  <2> QED
    BY <2>3, OnceSteps
<1> QED
  BY <1>4, <1>5

\* A call that ends alone, or could not look, sought nothing and seeks nothing.
LEMMA LeavesRuns ==
  ASSUME EInv, NEW c \in Calls, LookupFails(c) \/ Leaves(c)
  PROVE  UNCHANGED Once!vars
<1>1. /\ call[c].at \in {"lookup", "answered", "threw"}
      /\ UNCHANGED <<audit, inFlight, runs, ran>>
      /\ \A d \in Calls : d # c => call'[d] = call[d]
      /\ call'[c].at \in {"threw", "idle"}
  BY DEF LookupFails, Leaves, Goes, NewCall, EInv, ExecutorTypeOK
<1>2. ~Seeks(c)' /\ Seeking[c] = NoKey
  BY <1>1 DEF Seeking, Seeks
<1> QED
  BY <1>1, <1>2, SeekingSame, SameAudit, OnceStutters

LEMMA TransactionRuns ==
  ASSUME EInv, NEW c \in Calls, NEW k \in TxKeys, RunInTransaction(c, k)
  PROVE  Once!Next \/ UNCHANGED Once!vars
<1> USE ExecutorAssumption
<1>1. /\ k \in Keys /\ UNCHANGED inFlight /\ call[c].at = "idle"
      /\ \A d \in Calls : d # c => call'[d] = call[d]
      /\ call'[c].at = "answered"
  BY DEF RunInTransaction, EInv, ExecutorTypeOK
<1>2. Seeking' = Seeking
  <2>1. ~Seeks(c)' /\ Seeking[c] = NoKey
    BY <1>1 DEF Seeks, Seeking
  <2> QED
    BY <1>1, <2>1, SeekingSame
<1>3. CASE Cached(k)
  <2>1. UNCHANGED <<audit, runs, ran>>
    BY <1>3 DEF RunInTransaction
  <2> QED
    BY <1>1, <1>2, <2>1, SameAudit, OnceStutters
<1>4. CASE ~Cached(k)
  <2>1. /\ \A d \in Keys : d # k => audit'[d] = audit[d]
        /\ \/ audit'[k] = audit[k]
           \/ audit[k].status = "none" /\ audit'[k].run = ran + 1
        /\ ran' = ran + 1 /\ runs' = [runs EXCEPT ![k] = @ \union {ran + 1}]
    BY <1>4, TransactionRow
  <2>2. inFlight[k] = NoCall
    BY <1>1 DEF EInv, InFlightRuns, Runners, ExecutorTypeOK, Active
  <2>3. KeptRun[k] = 0
    BY <1>1, <1>4 DEF KeptRun
  <2>4. \A d \in Keys : d # k => audit'[d] = audit[d] /\ Cached(d)' = Cached(d)
    BY <2>1 DEF Cached
  <2>5. KeptRun' \in {KeptRun, [KeptRun EXCEPT ![k] = ran + 1]}
    <3>1. CASE Cached(k)'
      <4>1. audit'[k].run = ran + 1
        BY <1>4, <2>1, <3>1 DEF Cached
      <4>2. \A e \in Keys : (IF Cached(e)' THEN audit'[e].run ELSE 0)
                            = IF e = k THEN ran + 1
                              ELSE IF Cached(e) THEN audit[e].run ELSE 0
        BY <2>4, <3>1, <4>1
      <4>3. KeptRun' = [e \in Keys |-> IF e = k THEN ran + 1
                                     ELSE IF Cached(e) THEN audit[e].run ELSE 0]
        BY <4>2 DEF KeptRun, Cached
      <4> QED
        BY <4>3 DEF KeptRun
    <3>2. CASE ~Cached(k)'
      <4>1. \A d \in Keys :
              Cached(d)' = Cached(d) /\ (Cached(d) => audit'[d] = audit[d])
        <5> SUFFICES ASSUME NEW d \in Keys
                     PROVE  Cached(d)' = Cached(d) /\ (Cached(d) => audit'[d] = audit[d])
          OBVIOUS
        <5>1. CASE d = k
          BY <1>4, <3>2, <5>1 DEF Cached
        <5>2. CASE d # k
          BY <2>4, <5>2
        <5> QED
          BY <5>1, <5>2
      <4> QED
        BY <4>1, SameKept
    <3> QED
      BY <3>1, <3>2
  <2>6. Once!Transaction(k)
    BY <1>1, <1>2, <2>1, <2>2, <2>3, <2>5 DEF Once!Transaction, Seeking, KeptRun
  <2> QED
    BY <1>1, <2>6, OnceSteps
<1> QED
  BY <1>3, <1>4

LEMMA CrashRuns ==
  ASSUME CrashExecutor
  PROVE  Once!Next
<1>1. /\ UNCHANGED <<audit, runs, ran>> /\ inFlight' = [k \in Keys |-> NoCall]
      /\ \A d \in Calls : call'[d].at = "idle"
  BY DEF CrashExecutor, NewCall
<1>2. \A d \in Calls : (IF Seeks(d)' THEN call'[d].key ELSE NoKey) = NoKey
  BY <1>1 DEF Seeks
<1>3. Seeking' = [d \in Calls |-> NoKey]
  BY <1>2 DEF Seeking, Seeks
<1>4. Once!Crash
  BY <1>1, <1>3, SameAudit DEF Once!Crash, Seeking, KeptRun
<1> QED
  BY <1>4 DEF Once!Next

\* Every step of the executor is a step of RunOnce or changes nothing of it: one
\* call at a time runs a key, the result that is kept is the key's newest run,
\* and afterwards only calls that looked before run the key, once each.
THEOREM ExecutorRunsOnce == ExecutorSpec => ImplementsRunOnce
<1>1. ExecutorInit => Once!Init
  <2> SUFFICES ASSUME ExecutorInit PROVE Once!Init
    OBVIOUS
  <2>1. (\A c \in Calls : ~Seeks(c)) /\ \A k \in Keys : ~Cached(k)
    BY DEF ExecutorInit, Seeks, NewCall, Cached, NewRow
  <2> QED
    BY <2>1 DEF ExecutorInit, Once!Init
<1>2. EInv /\ [ExecutorNext]_executorVars => [Once!Next]_(Once!vars)
  <2> SUFFICES ASSUME EInv, [ExecutorNext]_executorVars
               PROVE  Once!Next \/ UNCHANGED Once!vars
    OBVIOUS
  <2>1. CASE UNCHANGED executorVars
    <3>1. UNCHANGED <<call, audit, inFlight, runs, ran>>
      BY <2>1 DEF executorVars
    <3> QED
      BY <3>1, SameAudit, OnceStutters DEF Seeking, Seeks
  <2>2. CASE CrashExecutor
    BY <2>2, CrashRuns
  <2>3. ASSUME NEW c \in Calls, CallStep(c) \/ Leaves(c)
        PROVE  Once!Next \/ UNCHANGED Once!vars
    BY <2>3, LookupRuns, DecideRuns, InsertRuns, RunSucceedsRuns, RunFailsRuns,
       CompleteRuns, FailRuns, LeavesRuns DEF CallStep
  <2>4. ASSUME NEW c \in Calls, NEW k \in (Keys \ TxKeys) \union {NoKey}, Begin(c, k)
        PROVE  UNCHANGED Once!vars
    BY <2>4, BeginRuns
  <2>5. ASSUME NEW c \in Calls, NEW k \in TxKeys, RunInTransaction(c, k)
        PROVE  Once!Next \/ UNCHANGED Once!vars
    BY <2>5, TransactionRuns
  <2> QED
    BY <2>1, <2>2, <2>3, <2>4, <2>5 DEF ExecutorNext
<1> QED
  BY <1>1, <1>2, ExecutorAlways, PTL DEF ExecutorSpec, ImplementsRunOnce, Once!Spec
=============================================================================
