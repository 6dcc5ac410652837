------------------------ MODULE DefinitionValidation ------------------------
(***************************************************************************)
(* Validation of a program's definitions, serial or by worker threads      *)
(* (src/src/semantics/SemanticsValidatorPassesDefinitions.cpp).            *)
(*                                                                         *)
(* The main validator (number 0) validates every definition itself, or     *)
(* gives each worker a chunk of them, in stable order, and merges what the *)
(* workers report.  What validating a definition does beyond reporting is  *)
(* abstracted to its behaviour:                                            *)
(*   accepted    it passes;                                                *)
(*   attempts    it passes after an attempt that failed and was taken      *)
(*               back: the message is cleared, the published record stays; *)
(*   rejected    validateDefinition fails with a message;                  *)
(*   calls       its body has bad calls, which collecting validators look  *)
(*               for first, one record for each;                           *)
(*   throws      it raises an exception.                                   *)
(* A message stands for its text and its place.  What accepted definitions *)
(* publish is in SymbolInterner.                                           *)
(***************************************************************************)
EXTENDS SymbolInterner

CONSTANTS
  MaxDefinitions,   \* bound on the number of definitions
  WorkerCounts,     \* benchmarkSemanticDefinitionValidationWorkerCount_
  Publications      \* what the definitions of a program may publish, by their number

ASSUME CountsAssumption == MaxDefinitions \in Nat /\ WorkerCounts \subseteq Nat

\* Something is published of each definition; no two have the same path.
ASSUME PublicationsAssumption ==
  \A n \in 0 .. MaxDefinitions :
    /\ Publications[n] # {}
    /\ \A p \in Publications[n] :
         /\ DOMAIN p = 1 .. n /\ Len(p) = n
         /\ \A d \in 1 .. n : p[d].path \in Nat
         /\ \A d, e \in 1 .. n : d # e => p[d].path # p[e].path

Behaviours == {"accepted", "attempts", "rejected", "calls", "throws"}

VARIABLES
  program,      \* the definitions' behaviours, in stable order
  publications, \* what each of them publishes
  inferred,     \* the record that the stages before this one published, if any
  collect,      \* shouldCollectStructuredDiagnostics
  workerCount,
  phase,        \* "start", "serial", "parallel", "done" or "published"
  validators,   \* the main validator's and the workers' results so far
  finished,     \* the workers in the order in which they finished
  facts,        \* the definitions whose facts are published, in their order
  strings       \* the texts that seed the semantic product's table

input == <<program, publications, inferred, collect, workerCount>>
vars == <<input, phase, validators, finished, facts, strings>>

Main == 0
Definitions == 1 .. Len(program)

Message(kind, d) == [kind |-> kind, definition |-> d]
NoMessage == Message("none", 0)

\* A validator's error, the records in its report, those of the definitions it
\* has rejected so far, the next definition, and whether it goes on.
Validator(first) ==
  [error |-> NoMessage, records |-> inferred, collected |-> <<>>,
   next |-> first, status |-> "running"]

-----------------------------------------------------------------------------
(***************************************************************************)
(* What a validator does with one definition (the loop of                  *)
(* validateDefinitionsFromStableIndexResolver), and its result             *)
(* (SemanticValidationResult.cpp).                                         *)
(***************************************************************************)
Published(v, m) == IF collect THEN <<m>> ELSE v.records

\* Fail: publish, and stop unless diagnostics are collected.
MoveCurrentDiagnostic(v, m) ==
  [v EXCEPT !.collected = Append(@, m), !.error = NoMessage, !.records = <<m>>]
Reject(v, m) ==
  IF collect THEN MoveCurrentDiagnostic(v, m)
             ELSE [v EXCEPT !.error = m, !.status = "failed"]

RememberFirst(v, m) == IF v.error = NoMessage THEN m ELSE v.error

\* Two bad calls in one body: the body's records, then the next definition.
CollectCalls(v, d) ==
  [v EXCEPT !.collected = @ \o <<Message("call", d), Message("laterCall", d)>>,
            !.error = RememberFirst(v, Message("call", d))]

Attempt(v, d) ==
  [v EXCEPT !.error = NoMessage, !.records = Published(v, Message("attempt", d))]

\* runStage catches an exception and fails: what was collected is lost.
Catch(v, m) == [v EXCEPT !.error = m, !.records = Published(v, m), !.status = "failed"]

\* Each worker wraps its chunk, the main validator the whole pass, in a stage.
Stage(w) == IF w = Main THEN "validateDefinitions" ELSE "validateDefinitionsChunk"

ValidateDefinition(v, d, stage) ==
  LET b == program[d]
      after ==
        CASE b = "accepted" -> v
          [] b = "attempts" -> Attempt(v, d)
          [] b = "rejected" -> Reject(v, Message("rejected", d))
          [] b = "calls" -> IF collect THEN CollectCalls(v, d)
                                       ELSE Reject(v, Message("call", d))
          [] b = "throws" -> Catch(v, Message(stage, d))
  IN [after EXCEPT !.next = d + 1]

\* The end of a pass: what was collected becomes the report.  FinalizeQuietly
\* forgets the message.
FinalizeQuietly(v, records) ==
  IF collect /\ records # <<>>
  THEN [v EXCEPT !.records = records, !.status = "failed"]
  ELSE [v EXCEPT !.status = "ok"]
Finalize(v, records) ==
  IF collect /\ records # <<>>
  THEN [v EXCEPT !.records = records, !.error = RememberFirst(v, records[1]),
                 !.status = "failed"]
  ELSE [v EXCEPT !.status = "ok"]

-----------------------------------------------------------------------------
(***************************************************************************)
(* partitionDefinitionsDeterministic: chunks of equal size, the first ones *)
(* one longer.                                                             *)
(***************************************************************************)
\* EvenChunks leaves the remainder out.
EvenChunks(w) == Len(program) \div workerCount
ChunkSize(w) ==
  Len(program) \div workerCount + (IF w <= Len(program) % workerCount THEN 1 ELSE 0)

ChunkOffset(w) ==
  LET extra == Len(program) % workerCount IN
  (w - 1) * (Len(program) \div workerCount) + (IF w - 1 < extra THEN w - 1 ELSE extra)

\* Chunks without definitions get no worker.
Workers == {w \in 1 .. workerCount : ChunkSize(w) > 0}

LastOf(w) == IF w = Main THEN Len(program) ELSE ChunkOffset(w) + ChunkSize(w)

-----------------------------------------------------------------------------
\* Programs that publish take every publication; for the others one will do.
Init ==
  /\ program \in BoundedSeq(Behaviours, MaxDefinitions)
  /\ collect \in BOOLEAN
  /\ inferred \in (IF collect THEN {<<>>, <<Message("attempt", 0)>>} ELSE {<<>>})
  /\ workerCount \in WorkerCounts
  /\ publications \in (IF ~collect /\ \A d \in Definitions : program[d] = "accepted"
                       THEN Publications[Len(program)]
                       ELSE {CHOOSE p \in Publications[Len(program)] : TRUE})
  /\ phase = "start"
  /\ validators = [w \in {Main} |-> Validator(1)]
  /\ finished = <<>>
  /\ facts = <<>>
  /\ strings = <<>>

\* Fewer than two workers or definitions: no threads.
ValidateSerially ==
  /\ phase = "start"
  /\ workerCount <= 1 \/ Len(program) < 2
  /\ phase' = "serial"
  /\ UNCHANGED <<input, validators, finished, facts, strings>>

\* One thread for each chunk with definitions.
LaunchWorkers ==
  /\ phase = "start"
  /\ workerCount > 1 /\ Len(program) >= 2
  /\ phase' = "parallel"
  /\ validators' = [w \in {Main} \cup Workers |->
                      IF w = Main THEN validators[Main] ELSE Validator(ChunkOffset(w) + 1)]
  /\ UNCHANGED <<input, finished, facts, strings>>

Active(w) ==
  /\ w \in DOMAIN validators
  /\ (w = Main) = (phase = "serial")
  /\ phase \in {"serial", "parallel"}

ValidateNext(w) ==
  /\ Active(w)
  /\ validators[w].status = "running"
  /\ validators[w].next <= LastOf(w)
  /\ validators' = [validators EXCEPT
                      ![w] = ValidateDefinition(@, @.next, Stage(w))]
  /\ UNCHANGED <<input, phase, finished, facts, strings>>

\* The pass ends, with a verdict if it has none yet.
FinishPass(w) ==
  /\ Active(w)
  /\ w \notin ToSet(finished)
  /\ \/ /\ validators[w].status = "running"
        /\ validators[w].next > LastOf(w)
        /\ validators' = [validators EXCEPT ![w] = Finalize(@, @.collected)]
     \/ /\ validators[w].status = "failed"
        /\ UNCHANGED validators
  /\ finished' = Append(finished, w)
  /\ phase' = IF w = Main THEN "done" ELSE phase
  /\ UNCHANGED <<input, facts, strings>>

-----------------------------------------------------------------------------
(***************************************************************************)
(* The merge, when every worker has finished: results are gathered in the  *)
(* order of the chunks and sorted by partitionKey, whatever order they     *)
(* arrived in.                                                             *)
(***************************************************************************)
\* ByArrival merges in the order in which the workers finished.
ByArrival == finished
MergeOrder ==
  [i \in 1 .. Cardinality(Workers) |->
     CHOOSE w \in Workers : Cardinality({v \in Workers : v <= w}) = i]

\* A worker's published records, or its error when it published none.
WorkerRecords(w) ==
  IF validators[w].records # <<>> THEN validators[w].records
  ELSE IF validators[w].status = "failed" THEN <<validators[w].error>> ELSE <<>>

MergedRecords ==
  FlattenSeq([i \in DOMAIN MergeOrder |-> WorkerRecords(MergeOrder[i])])

FailedWorkers == {w \in Workers : validators[w].status = "failed"}

\* The first failed worker's error.  LatestFailure takes the last one's.
LatestFailure == validators[Max(FailedWorkers)].error
FirstFailure == validators[Min(FailedWorkers)].error

\* Published facts are sorted by their definitions' paths, which are unique.
ByPath(definitions) ==
  LET NotAfter(d) == {e \in ToSet(definitions) : publications[e].path <= publications[d].path}
  IN [i \in DOMAIN definitions |->
        CHOOSE d \in ToSet(definitions) : Cardinality(NotAfter(d)) = i]

ChunkFacts(w) == [i \in 1 .. ChunkSize(w) |-> ChunkOffset(w) + i]

MergeFacts ==
  ByPath(FlattenSeq([i \in DOMAIN MergeOrder |-> ChunkFacts(MergeOrder[i])]))

\* A worker interns its summaries in stable order, its on-error facts by path.
WorkerSnapshot(w) ==
  AppendPublicationStrings(<<>>, publications, ChunkFacts(w), ByPath(ChunkFacts(w)))

\* The merged snapshots, completed with the merged facts' strings.
MergeStrings ==
  LET merged == MergeSnapshots([i \in DOMAIN MergeOrder |-> WorkerSnapshot(MergeOrder[i])])
  IN TextsOf(AppendPublicationStrings(merged, publications, MergeFacts, MergeFacts))

\* Collected records make the merge fail; then a failed worker does; then the
\* workers' facts and strings are merged.
AllDelivered == phase = "parallel" /\ Workers \subseteq ToSet(finished)

Merge ==
  /\ AllDelivered
  /\ LET merged == Finalize(validators[Main], MergedRecords) IN
     \/ /\ merged.status = "failed"
        /\ validators' = [validators EXCEPT ![Main] = merged]
        /\ UNCHANGED <<facts, strings>>
     \/ /\ merged.status = "ok"
        /\ FailedWorkers # {}
        /\ validators' = [validators EXCEPT
                            ![Main] = [@ EXCEPT !.error = FirstFailure, !.status = "failed"]]
        /\ UNCHANGED <<facts, strings>>
     \/ /\ merged.status = "ok"
        /\ FailedWorkers = {}
        /\ validators' = [validators EXCEPT ![Main] = merged]
        /\ facts' = MergeFacts
        /\ strings' = MergeStrings
  /\ phase' = "done"
  /\ UNCHANGED <<input, finished>>

-----------------------------------------------------------------------------
\* The main validator's own facts and strings, when there are no workers' ones.
OwnFacts == ByPath([d \in Definitions |-> d])
OwnStrings == TextsOf(AppendPublicationStrings(<<>>, publications, OwnFacts, OwnFacts))

\* An accepted program's semantic product takes the merged facts and strings,
\* or collects and interns them now.
Publish ==
  /\ phase = "done"
  /\ validators[Main].status = "ok"
  /\ phase' = "published"
  /\ \/ /\ Main \notin ToSet(finished)
        /\ UNCHANGED <<facts, strings>>
     \/ /\ Main \in ToSet(finished)
        /\ facts' = OwnFacts
        /\ strings' = OwnStrings
  /\ UNCHANGED <<input, validators, finished>>

\* WorkUnlessFailed never delivers a failed pass.
WorkUnlessFailed(w) ==
  \/ ValidateNext(w)
  \/ Active(w) /\ validators[w].status = "running" /\ FinishPass(w)
Work(w) == ValidateNext(w) \/ FinishPass(w)

Next ==
  \/ ValidateSerially
  \/ LaunchWorkers
  \/ \E w \in DOMAIN validators : Work(w)
  \/ Merge
  \/ Publish

\* Threads are scheduled, and validating a definition ends.  Merge is enabled
\* when AllDelivered is, and the only action that then ends the phase.
Fairness ==
  /\ WF_vars(ValidateSerially) /\ WF_vars(LaunchWorkers)
  /\ WF_phase(AllDelivered /\ phase' = "done")
  /\ \A w \in 0 .. MaxDefinitions : WF_vars(Work(w))

Spec == Init /\ [][Next]_vars
FairSpec == Spec /\ Fairness
-----------------------------------------------------------------------------
(***************************************************************************)
(* Properties.                                                             *)
(***************************************************************************)
Messages ==
  {NoMessage, Message("attempt", 0)} \cup
  {Message(kind, d) : kind \in {"rejected", "call", "laterCall", "attempt",
                                "validateDefinitions", "validateDefinitionsChunk"},
                      d \in Definitions}

\* Validators stay in their chunks and report definitions of this program only;
\* one that has failed says why, in a record too when it collects.
TypeOK ==
  /\ program \in Seq(Behaviours)
  /\ collect \in BOOLEAN
  /\ workerCount \in WorkerCounts
  /\ Len(publications) = Len(program)
  /\ phase \in {"start", "serial", "parallel", "done", "published"}
  /\ {Main} \subseteq DOMAIN validators
  /\ \A w \in DOMAIN validators :
       /\ validators[w].error \in Messages
       /\ validators[w].records \in Seq(Messages)
       /\ validators[w].collected \in Seq(Messages)
       /\ validators[w].next \in 1 .. LastOf(w) + 1
       /\ validators[w].status \in {"running", "ok", "failed"}
       /\ validators[w].status = "failed" =>
            /\ validators[w].error # NoMessage
            /\ collect => validators[w].records # <<>>
  /\ finished \in Seq(DOMAIN validators)
  /\ facts \in Seq(Definitions)

\* What the serial pass makes of the same program.
Serial ==
  LET after[d \in 0 .. Len(program)] ==
        IF d = 0 THEN Validator(1)
        ELSE IF after[d - 1].status = "running"
             THEN ValidateDefinition(after[d - 1], d, Stage(Main))
             ELSE after[d - 1]
      passed == after[Len(program)]
  IN IF passed.status = "running" THEN Finalize(passed, passed.collected) ELSE passed

Outcome == validators[Main]
Throws == \E d \in Definitions : program[d] = "throws"
Attempts == inferred # <<>> \/ \E d \in Definitions : program[d] = "attempts"

\* However many workers there are and in whatever order they finish, the verdict
\* is the serial pass's, and so are the error without collected diagnostics and
\* the records with them: unless a definition throws, or an attempt was taken
\* back while diagnostics are collected (validateDefinitions).
SameAsSerial ==
  phase = "done" /\ ~Throws /\ ~(collect /\ Attempts) =>
    /\ Outcome.status = Serial.status
    /\ ~collect => Outcome.error = Serial.error
    /\ collect /\ Outcome.status = "failed" => Outcome.records = Serial.records

\* Whatever happens in the workers, exceptions included, they never accept a
\* program that the serial pass rejects.
NeverMorePermissive ==
  phase = "done" /\ Serial.status = "failed" => Outcome.status = "failed"

\* Where a published text is named, and the first of these places.
PlacesOf(text) ==
  {s.origin : s \in {t \in UNION {ToSet(SummaryStrings(d, publications[d])) \cup
                                 ToSet(OnErrorStrings(d, publications[d])) : d \in Definitions} :
                    t.text = text}}
FirstPlace(text) ==
  CHOOSE o \in PlacesOf(text) : \A other \in PlacesOf(text) : ~OriginLess(other, o)

\* An effect comes before the handler that shares its place.  No text is less than
\* itself.
TextLess(s, t) ==
  \/ OriginLess(FirstPlace(s), FirstPlace(t))
  \/ /\ FirstPlace(s) = FirstPlace(t) /\ s # t
     /\ s \in {publications[d].effect : d \in Definitions}

IncreasingSeq(seq, Less(_, _)) == \A i, j \in DOMAIN seq : i < j => Less(seq[i], seq[j])

\* Every definition's facts are published once, by path.
FactsByPath ==
  /\ ToSet(facts) = Definitions
  /\ IncreasingSeq(facts, LAMBDA d, e : publications[d].path < publications[e].path)

\* Nothing is published of a rejected program.  Of an accepted one all facts are,
\* and the table that workers make has the texts by their first places in the
\* program: it does not depend on the chunks or on who finished first
\* (mergeWorkerPublicationFacts, mergeWorkerPublicationSeedStrings).
PublicationIndependent ==
  /\ facts # <<>> => Outcome.status = "ok"
  /\ phase = "published" =>
       /\ FactsByPath
       /\ Main \notin ToSet(finished) => IncreasingSeq(strings, TextLess)
       /\ ToSet(strings) = ToSet(OwnStrings)

\* The pass ends, with no worker left running: the merge waits for all of them.
Terminates ==
  <>(/\ phase = "done"
     /\ \A w \in DOMAIN validators : validators[w].status # "running")

(***************************************************************************)
(* What docs/Semantics_Multithread_Design.md says, and the code does not.  *)
(***************************************************************************)
\* "multithread mode must produce the same diagnostics ... as single-thread
\* mode": without exceptions, the same programs are accepted.
SameVerdict ==
  phase = "done" /\ ~Throws => Outcome.status = Serial.status
=============================================================================
