------------------------- MODULE ExactPayloadProofs -------------------------
(* That a bound payload verifies and stays bound, for any sets of tasks,     *)
(* texts and processes.  The files alone are not enough for an induction:    *)
(* what a call at work has already checked or written must still hold when   *)
(* it goes on, whatever the others wrote meanwhile.                          *)
EXTENDS ExactPayload, TLAPS

CallRecords == [pc : Working \union Results, task : Tasks,
                text : Texts \union {NoText}, contract : Texts \union {NoText}]

Writing == {"artifact", "manifest", "binding"}

\* A digest directory holds files of its own text only, and a binding is there
\* only with both of them.
FilesOK ==
    /\ artifact \in [Texts -> Texts \union {NoText}]
    /\ manifest \in [Texts -> Texts \union {NoText}]
    /\ binding \in [Tasks -> Texts \union {NoText}]
    /\ \A x \in Texts : artifact[x] \in {NoText, x} /\ manifest[x] \in {NoText, x}
    /\ \A t \in Tasks : binding[t] # NoText =>
            artifact[binding[t]] = binding[t] /\ manifest[binding[t]] = binding[t]

\* What a call has found out or written so far.
CallOK(c) ==
    \/ c = NoCall
    \/ /\ c \in CallRecords
       /\ c.pc \in Writing \union {"check"} => c.text \in Texts
       /\ c.pc \in Writing => binding[c.task] \in {NoText, c.text}
       /\ c.pc \in {"manifest", "binding"} => artifact[c.text] = c.text
       /\ c.pc = "binding" => manifest[c.text] = c.text
       /\ c.pc \in {"read", "readManifest", "readArtifact", "verified"} =>
              c.text = NoText \/ binding[c.task] = c.text
       /\ c.pc \in {"readManifest", "readArtifact", "verified"} =>
              c.contract \in Texts /\ binding[c.task] = c.contract
       /\ c.pc # "failed"

\* Calls at work for one task agree on the text.
OneTextAtWork ==
    \A p, q \in Calls : AtWork(p) /\ AtWork(q) /\ call[p].task = call[q].task =>
        call[p].text = call[q].text \/ call[p].text = NoText \/ call[q].text = NoText

PayloadInv ==
    /\ FilesOK
    /\ call \in [Calls -> CallRecords \union {NoCall}]
    /\ \A p \in Calls : CallOK(call[p])
    /\ OneTextAtWork

----------------------------------------------------------------------------

\* A step leaves what is written in place, and binds a task only to the text of
\* a call that is about to bind it.
LEMMA FilesStay ==
    ASSUME PayloadInv, NEW p \in Calls, CallStep(p)
    PROVE  /\ FilesOK'
           /\ \A x \in Texts : artifact[x] = x => artifact'[x] = x
           /\ \A x \in Texts : manifest[x] = x => manifest'[x] = x
           /\ \A t \in Tasks : \/ binding'[t] = binding[t]
                               \/ /\ At(p, "binding") /\ call[p].task = t
                                  /\ binding[t] \in {NoText, call[p].text}
                                  /\ binding'[t] = call[p].text
  <1>1. CallOK(call[p])
    BY DEF PayloadInv
  <1>2. ASSUME NEW pc, At(p, pc), pc \in Working
        PROVE  call[p] \in CallRecords /\ call[p].task \in Tasks
    BY <1>1, <1>2 DEF CallOK, At, NoCall, Working, CallRecords
  <1>3. CASE WriteArtifact(p)
    <2>1. call[p].text \in Texts
      BY <1>1, <1>2, <1>3 DEF WriteArtifact, At, CallOK, Writing, Working, NoCall
    <2> QED
      BY <1>3, <2>1, TextsAssumption DEF WriteArtifact, PayloadInv, FilesOK
  <1>4. CASE WriteManifest(p)
    <2>1. call[p].text \in Texts
      BY <1>1, <1>2, <1>4 DEF WriteManifest, At, CallOK, Writing, Working, NoCall
    <2> QED
      BY <1>4, <2>1, TextsAssumption DEF WriteManifest, PayloadInv, FilesOK
  <1>5. CASE WriteBinding(p)
    <2>1. /\ call[p].text \in Texts /\ call[p].task \in Tasks
          /\ artifact[call[p].text] = call[p].text
          /\ manifest[call[p].text] = call[p].text
          /\ binding[call[p].task] \in {NoText, call[p].text}
      BY <1>1, <1>2, <1>5 DEF WriteBinding, At, CallOK, Writing, Working, NoCall
    <2> QED
      BY <1>5, <2>1 DEF WriteBinding, PayloadInv, FilesOK
  <1>6. CASE CheckBinding(p) \/ ReadBinding(p) \/ ReadManifest(p) \/ ReadArtifact(p)
    BY <1>6 DEF CheckBinding, ReadBinding, ReadManifest, ReadArtifact, PayloadInv, FilesOK
  <1> QED
    BY <1>3, <1>4, <1>5, <1>6 DEF CallStep

\* What another call has found out stays true: it agrees with the one that
\* binds its task.
LEMMA OthersStay ==
    ASSUME PayloadInv, NEW p \in Calls, CallStep(p), NEW q \in Calls,
           call'[q] = call[q]
    PROVE  CallOK(call[q])'
  <1>1. CASE call[q] = NoCall
    BY <1>1 DEF CallOK
  <1>2. CASE call[q] # NoCall
    <2>1. CallOK(call[q]) /\ call[q] \in CallRecords
      BY <1>2 DEF PayloadInv, CallOK
    <2>2. /\ call[q].task \in Tasks
          /\ call[q].text \in Texts \union {NoText}
          /\ binding[call[q].task] \in Texts \union {NoText}
      BY <2>1 DEF CallRecords, PayloadInv, FilesOK
    <2>3. /\ call[q].text \in Texts /\ artifact[call[q].text] = call[q].text =>
                 artifact'[call[q].text] = call[q].text
          /\ call[q].text \in Texts /\ manifest[call[q].text] = call[q].text =>
                 manifest'[call[q].text] = call[q].text
      BY FilesStay
    <2>4. \/ binding'[call[q].task] = binding[call[q].task]
          \/ /\ At(p, "binding") /\ call[p].task = call[q].task
             /\ binding[call[q].task] \in {NoText, call[p].text}
             /\ binding'[call[q].task] = call[p].text
      BY <2>2, FilesStay
    <2>5. CASE binding'[call[q].task] = binding[call[q].task]
      BY <1>2, <2>1, <2>3, <2>5 DEF CallOK, Writing
    <2>6. CASE /\ At(p, "binding") /\ call[p].task = call[q].task
               /\ binding[call[q].task] \in {NoText, call[p].text}
               /\ binding'[call[q].task] = call[p].text
      <3>1. call[p].text \in Texts
        <4>1. CallOK(call[p])
          BY DEF PayloadInv
        <4> QED
          BY <4>1, <2>6 DEF CallOK, At, NoCall, Writing
      <3>2. call[q].pc \in Writing => call[q].text = call[p].text
        <4> SUFFICES ASSUME call[q].pc \in Writing
                     PROVE  call[q].text = call[p].text
          OBVIOUS
        <4>1. AtWork(q) /\ AtWork(p) /\ call[q].text \in Texts
          BY <1>2, <2>1, <2>6 DEF AtWork, At, Working, Writing, CallOK
        <4> QED
          BY <4>1, <2>6, <3>1, TextsAssumption DEF PayloadInv, OneTextAtWork
      <3>3. binding[call[q].task] # NoText => binding'[call[q].task] = binding[call[q].task]
        BY <2>6
      <3>4. /\ call[q].pc \in Writing => binding'[call[q].task] \in {NoText, call[q].text}
            /\ call[q].pc \in {"read", "readManifest", "readArtifact", "verified"} =>
                   call[q].text = NoText \/ binding'[call[q].task] = call[q].text
            /\ call[q].pc \in {"readManifest", "readArtifact", "verified"} =>
                   call[q].contract \in Texts /\ binding'[call[q].task] = call[q].contract
        BY <1>2, <2>1, <2>2, <2>6, <3>2, <3>3, TextsAssumption DEF CallOK
      <3> QED
        BY <1>2, <2>1, <2>3, <3>4 DEF CallOK, Writing
    <2> QED
      BY <2>4, <2>5, <2>6
  <1> QED
    BY <1>1, <1>2

\* The call that takes the step keeps its task and text, and what it goes on
\* with is what it has just found out or written.
LEMMA StepperStays ==
    ASSUME PayloadInv, NEW p \in Calls, CallStep(p)
    PROVE  /\ \A q \in Calls \ {p} : call'[q] = call[q]
           /\ call'[p] \in CallRecords
           /\ call'[p].task = call[p].task /\ call'[p].text = call[p].text
           /\ call[p].pc \in Working
           /\ CallOK(call[p])'
  <1>1. CallOK(call[p]) /\ call \in [Calls -> CallRecords \union {NoCall}]
    BY DEF PayloadInv
  <1>2. call[p].pc \in Working /\ call[p] # NoCall
    BY DEF CallStep, CheckBinding, WriteArtifact, WriteManifest, WriteBinding, ReadBinding,
           ReadManifest, ReadArtifact, At, Working, NoCall
  <1>3. call[p] \in CallRecords
    BY <1>1, <1>2 DEF CallOK
  <1>4. /\ call[p].task \in Tasks /\ call[p].text \in Texts \union {NoText}
        /\ call[p].contract \in Texts \union {NoText}
        /\ binding[call[p].task] \in Texts \union {NoText}
    BY <1>3 DEF CallRecords, PayloadInv, FilesOK
  <1>5. FilesOK
    BY DEF PayloadInv
  <1>6. CASE CheckBinding(p)
    <2>1. call[p].text \in Texts
      BY <1>1, <1>2, <1>6 DEF CheckBinding, At, CallOK
    <2> QED
      BY <1>1, <1>2, <1>3, <1>4, <1>6, <2>1, TextsAssumption
         DEF CheckBinding, At, Goes, CallOK, CallRecords, Working, Results, Writing
  <1>7. CASE WriteArtifact(p)
    BY <1>1, <1>2, <1>3, <1>4, <1>5, <1>7, TextsAssumption
       DEF WriteArtifact, At, Goes, CallOK, CallRecords, Working, Results, Writing, FilesOK
  <1>8. CASE WriteManifest(p)
    BY <1>1, <1>2, <1>3, <1>4, <1>5, <1>8, TextsAssumption
       DEF WriteManifest, At, Goes, CallOK, CallRecords, Working, Results, Writing, FilesOK
  <1>9. CASE WriteBinding(p)
    BY <1>1, <1>2, <1>3, <1>4, <1>5, <1>9, TextsAssumption
       DEF WriteBinding, At, Goes, CallOK, CallRecords, Working, Results, Writing, FilesOK
  <1>10. CASE ReadBinding(p)
    BY <1>1, <1>2, <1>3, <1>4, <1>5, <1>10, TextsAssumption
       DEF ReadBinding, At, Goes, CallOK, CallRecords, Working, Results, Writing, FilesOK
  <1>11. CASE ReadManifest(p)
    <2>1. manifest[call[p].contract] = call[p].contract
      BY <1>1, <1>2, <1>4, <1>5, <1>11, TextsAssumption DEF ReadManifest, At, CallOK, FilesOK
    <2> QED
      BY <1>1, <1>2, <1>3, <1>4, <1>11, <2>1
         DEF ReadManifest, At, Goes, CallOK, CallRecords, Working, Results, Writing
  <1>12. CASE ReadArtifact(p)
    <2>1. artifact[call[p].contract] = call[p].contract
      BY <1>1, <1>2, <1>4, <1>5, <1>12, TextsAssumption DEF ReadArtifact, At, CallOK, FilesOK
    <2> QED
      BY <1>1, <1>2, <1>3, <1>4, <1>12, <2>1
         DEF ReadArtifact, At, Goes, CallOK, CallRecords, Working, Results, Writing
  <1> QED
    BY <1>6, <1>7, <1>8, <1>9, <1>10, <1>11, <1>12 DEF CallStep

LEMMA PayloadInvInductive == PayloadInv /\ [PayloadNext]_payloadVars => PayloadInv'
  <1> SUFFICES ASSUME PayloadInv, [PayloadNext]_payloadVars
               PROVE  PayloadInv'
    OBVIOUS
  <1>1. call \in [Calls -> CallRecords \union {NoCall}]
    BY DEF PayloadInv
  <1>2. CASE UNCHANGED payloadVars
    BY <1>2 DEF payloadVars, PayloadInv, FilesOK, CallOK, OneTextAtWork, AtWork
  <1>3. ASSUME NEW p \in Calls, CallStep(p)
        PROVE  PayloadInv'
    <2>1. FilesOK'
      BY <1>3, FilesStay
    <2>2. call' \in [Calls -> CallRecords \union {NoCall}]
      <3>1. \E c : call' = [call EXCEPT ![p] = c]
        BY <1>3 DEF CallStep, CheckBinding, WriteArtifact, WriteManifest, WriteBinding,
                    ReadBinding, ReadManifest, ReadArtifact, Goes
      <3> QED
        BY <1>1, <1>3, <3>1, StepperStays
    <2>3. \A q \in Calls : CallOK(call[q])'
      <3> SUFFICES ASSUME NEW q \in Calls
                   PROVE  CallOK(call[q])'
        OBVIOUS
      <3>1. CASE q = p
        BY <1>3, <3>1, StepperStays
      <3>2. CASE q # p
        BY <1>3, <3>2, StepperStays, OthersStay
      <3> QED
        BY <3>1, <3>2
    <2>4. OneTextAtWork'
      BY <1>3, StepperStays DEF PayloadInv, OneTextAtWork, AtWork
    <2> QED
      BY <2>1, <2>2, <2>3, <2>4 DEF PayloadInv
  <1>4. ASSUME NEW p \in Calls, NEW t \in Tasks, NEW x \in Texts \union {NoText},
               \/ CreateBegins(p, t, x) /\ x \in Texts
               \/ ReadBegins(p, t) /\ x = NoText
        PROVE  PayloadInv'
    <2>1. PICK pc \in {"check", "read"} :
              /\ call' = [call EXCEPT ![p] = Call(pc, t, x)]
              /\ pc = "check" => x \in Texts
              /\ pc = "read" => x = NoText
      BY <1>4 DEF CreateBegins, ReadBegins
    <2>2. UNCHANGED <<artifact, manifest, binding>>
      BY <1>4 DEF CreateBegins, ReadBegins
    <2>3. /\ Call(pc, t, x) \in CallRecords
          /\ Call(pc, t, x).pc = pc /\ Call(pc, t, x).task = t /\ Call(pc, t, x).text = x
      BY <2>1 DEF Call, CallRecords, Working, Results
    <2>4. \A q \in Calls : CallOK(call[q])'
      BY <1>1, <2>1, <2>2, <2>3 DEF PayloadInv, CallOK, Writing
    <2>5. \A q \in Calls \ {p} : AtWork(q) /\ call[q].task = t =>
              call[q].text = x \/ call[q].text = NoText \/ x = NoText
      BY <1>4 DEF CreateBegins
    <2>6. OneTextAtWork'
      BY <1>1, <2>1, <2>3, <2>5 DEF PayloadInv, OneTextAtWork, AtWork
    <2> QED
      BY <1>1, <2>1, <2>2, <2>3, <2>4, <2>6 DEF PayloadInv, FilesOK
  <1>5. ASSUME NEW p \in Calls, Abandoned(p)
        PROVE  PayloadInv'
    <2>1. call' = [call EXCEPT ![p] = NoCall] /\ UNCHANGED <<artifact, manifest, binding>>
      BY <1>5 DEF Abandoned
    <2>2. NoCall.pc \notin Working
      BY DEF NoCall, Working
    <2>3. \A q \in Calls : CallOK(call[q])'
      BY <1>1, <2>1 DEF PayloadInv, CallOK
    <2>4. OneTextAtWork'
      BY <1>1, <2>1, <2>2 DEF PayloadInv, OneTextAtWork, AtWork
    <2> QED
      BY <1>1, <2>1, <2>3, <2>4 DEF PayloadInv, FilesOK
  <1> QED
    BY <1>2, <1>3, <1>4, <1>5 DEF PayloadNext

LEMMA PayloadInvariant == PayloadSpec => []PayloadInv
  <1>1. PayloadInit => PayloadInv
    BY DEF PayloadInit, PayloadInv, FilesOK, CallOK, OneTextAtWork, AtWork, NoCall, Working
  <1> QED
    BY <1>1, PayloadInvInductive, PTL DEF PayloadSpec

----------------------------------------------------------------------------

\* Files hold a text or nothing, and calls are somewhere in the code.
THEOREM PayloadTypeCorrect == PayloadSpec => []PayloadTypeOK
  <1>1. PayloadInv => PayloadTypeOK
    BY DEF PayloadInv, PayloadTypeOK, FilesOK, CallOK, CallRecords
  <1> QED
    BY <1>1, PayloadInvariant, PTL

\* Whoever finds a binding can verify it, through deaths between the writes and
\* while other tasks with the same text write artifact and manifest again.
THEOREM BoundPayloadsVerify == PayloadSpec => []EveryReadVerifies
  <1>1. PayloadInv => EveryReadVerifies
    BY DEF PayloadInv, EveryReadVerifies, CallOK, At, NoCall
  <1> QED
    BY <1>1, PayloadInvariant, PTL

\* A verified payload is the one bound to the task, and the one asked for.
THEOREM VerifiedPayloadsAreBound == PayloadSpec => []VerifiedIsBound
  <1>1. PayloadInv => VerifiedIsBound
    BY DEF PayloadInv, VerifiedIsBound, CallOK, At, NoCall
  <1> QED
    BY <1>1, PayloadInvariant, PTL

\* No call ever binds a task to another text.
THEOREM BindingsAreStable == PayloadSpec => BindingIsStable
  <1> DEFINE Stable == \A t \in Tasks : binding[t] # NoText => binding'[t] = binding[t]
  <1>1. PayloadInv /\ [PayloadNext]_payloadVars => [Stable]_payloadVars
    <2>1. ASSUME PayloadInv, NEW p \in Calls, CallStep(p)
          PROVE  Stable
      BY <2>1, FilesStay
    <2>2. ASSUME NEW p \in Calls, NEW t \in Tasks, NEW x \in Texts,
                 ReadBegins(p, t) \/ CreateBegins(p, t, x) \/ Abandoned(p)
          PROVE  UNCHANGED binding
      BY <2>2 DEF ReadBegins, CreateBegins, Abandoned
    <2>3. ASSUME NEW p \in Calls, NEW t \in Tasks, ReadBegins(p, t)
          PROVE  UNCHANGED binding
      BY <2>3 DEF ReadBegins
    <2>4. ASSUME NEW p \in Calls, Abandoned(p)
          PROVE  UNCHANGED binding
      BY <2>4 DEF Abandoned
    <2> QED
      BY <2>1, <2>2, <2>3, <2>4 DEF PayloadNext
  <1> QED
    BY <1>1, PayloadInvariant, PTL DEF PayloadSpec, BindingIsStable
=============================================================================
