---------------------------- MODULE ExactPayload ----------------------------
(* exact_payload.py: the text a task must use verbatim is kept in three files *)
(* that are written one after the other.  Artifact and manifest lie under the *)
(* digest of the text, so tasks with the same text share them; the binding    *)
(* belongs to one task.  Each write puts a complete file into place; a read   *)
(* opens the three one by one and compares them.                              *)
EXTENDS Naturals

CONSTANTS Tasks,
          Texts,     \* what a caller may want delivered verbatim
          NoText,    \* a file that does not exist
          Torn,      \* a file only partly written
          Calls      \* processes that create or read payloads

ASSUME TextsAssumption == NoText \notin Texts /\ Torn \notin Texts /\ NoText # Torn

VARIABLES artifact,   \* per digest, the body file
          manifest,   \* per digest, the text whose contract the manifest holds
          binding,    \* per task, the text whose contract is bound to it
          call        \* per process, the call it is executing or has finished

payloadVars == <<artifact, manifest, binding, call>>

Working == {"check", "artifact", "manifest", "binding",
            "read", "readManifest", "readArtifact"}

Results == {"none", "verified", "refused", "failed"}

\* task and text as given, contract as read from the binding; a read alone has
\* no text.
NoCall == [pc |-> "idle"]

Call(pc, t, x) == [pc |-> pc, task |-> t, text |-> x, contract |-> NoText]

At(p, pc) == call[p].pc = pc

Goes(p, pc) == call' = [call EXCEPT ![p].pc = pc]

AtWork(p) == call[p].pc \in Working

----------------------------------------------------------------------------

\* The same tool call may be at work twice, with the same text; a call with
\* another text for the task comes later, if ever.
CreateBegins(p, t, x) ==
    /\ ~AtWork(p)
    /\ \A q \in Calls : AtWork(q) /\ call[q].task = t => call[q].text \in {x, NoText}
    /\ call' = [call EXCEPT ![p] = Call("check", t, x)]
    /\ UNCHANGED <<artifact, manifest, binding>>

\* agent_task_status, the runner, and a start call that was recognised.
ReadBegins(p, t) ==
    /\ ~AtWork(p)
    /\ call' = [call EXCEPT ![p] = Call("read", t, NoText)]
    /\ UNCHANGED <<artifact, manifest, binding>>

----------------------------------------------------------------------------
(* create_exact_text_payload.                                                 *)

\* Faulty: another text for a bound task replaces the first.
CheckBindingNever(p) ==
    /\ At(p, "check")
    /\ Goes(p, IF binding[call[p].task] = call[p].text THEN "read" ELSE "artifact")
    /\ UNCHANGED <<artifact, manifest, binding>>

CheckBinding(p) ==
    LET bound == binding[call[p].task]
    IN  /\ At(p, "check")
        /\ Goes(p, CASE bound = NoText       -> "artifact"
                     [] bound = call[p].text -> "read"
                     [] OTHER                -> "refused")
        /\ UNCHANGED <<artifact, manifest, binding>>

\* Faulty: the body is written where others may read it.
WriteArtifactInPlace(p) ==
    /\ At(p, "artifact")
    /\ \/ artifact' = [artifact EXCEPT ![call[p].text] = Torn] /\ UNCHANGED call
       \/ artifact' = [artifact EXCEPT ![call[p].text] = call[p].text] /\ Goes(p, "manifest")
    /\ UNCHANGED <<manifest, binding>>

\* _atomic_write puts a complete file into place, over one that may be there.
WriteArtifact(p) ==
    /\ At(p, "artifact")
    /\ artifact' = [artifact EXCEPT ![call[p].text] = call[p].text]
    /\ Goes(p, "manifest")
    /\ UNCHANGED <<manifest, binding>>

\* Faulty: the manifest is written where others may read it.
WriteManifestInPlace(p) ==
    /\ At(p, "manifest")
    /\ \/ manifest' = [manifest EXCEPT ![call[p].text] = Torn] /\ UNCHANGED call
       \/ manifest' = [manifest EXCEPT ![call[p].text] = call[p].text] /\ Goes(p, "binding")
    /\ UNCHANGED <<artifact, binding>>

WriteManifest(p) ==
    /\ At(p, "manifest")
    /\ manifest' = [manifest EXCEPT ![call[p].text] = call[p].text]
    /\ Goes(p, "binding")
    /\ UNCHANGED <<artifact, binding>>

WriteBinding(p) ==
    /\ At(p, "binding")
    /\ binding' = [binding EXCEPT ![call[p].task] = call[p].text]
    /\ Goes(p, "read")
    /\ UNCHANGED <<artifact, manifest>>

----------------------------------------------------------------------------
(* read_exact_text_payload, also the end of every successful creation.        *)

ReadBinding(p) ==
    LET bound == binding[call[p].task]
    IN  /\ At(p, "read")
        /\ call' = [call EXCEPT ![p].contract = bound,
                                ![p].pc = IF bound = NoText THEN "none" ELSE "readManifest"]
        /\ UNCHANGED <<artifact, manifest, binding>>

ReadManifest(p) ==
    /\ At(p, "readManifest")
    /\ Goes(p, IF manifest[call[p].contract] = call[p].contract THEN "readArtifact" ELSE "failed")
    /\ UNCHANGED <<artifact, manifest, binding>>

\* Digest and length of the bytes are those of the contract.
ReadArtifact(p) ==
    /\ At(p, "readArtifact")
    /\ Goes(p, IF artifact[call[p].contract] = call[p].contract THEN "verified" ELSE "failed")
    /\ UNCHANGED <<artifact, manifest, binding>>

----------------------------------------------------------------------------

\* A process dies, or a write or read raises: the files stay as they are.
Abandoned(p) ==
    /\ AtWork(p)
    /\ call' = [call EXCEPT ![p] = NoCall]
    /\ UNCHANGED <<artifact, manifest, binding>>

PayloadInit ==
    /\ artifact = [x \in Texts |-> NoText]
    /\ manifest = [x \in Texts |-> NoText]
    /\ binding = [t \in Tasks |-> NoText]
    /\ call = [p \in Calls |-> NoCall]

CallStep(p) ==
    \/ CheckBinding(p)
    \/ WriteArtifact(p)
    \/ WriteManifest(p)
    \/ WriteBinding(p)
    \/ ReadBinding(p)
    \/ ReadManifest(p)
    \/ ReadArtifact(p)

PayloadNext ==
    \E p \in Calls :
        \/ \E t \in Tasks : ReadBegins(p, t) \/ \E x \in Texts : CreateBegins(p, t, x)
        \/ CallStep(p)
        \/ Abandoned(p)

PayloadSpec == PayloadInit /\ [][PayloadNext]_payloadVars

----------------------------------------------------------------------------

\* Files hold a text or nothing, and calls are somewhere in the code.
PayloadTypeOK ==
    /\ artifact \in [Texts -> Texts \union {NoText, Torn}]
    /\ manifest \in [Texts -> Texts \union {NoText}]
    /\ binding \in [Tasks -> Texts \union {NoText}]
    /\ \A p \in Calls :
        \/ call[p] = NoCall
        \/ call[p] \in [pc : Working \union Results, task : Tasks,
                        text : Texts \union {NoText}, contract : Texts \union {NoText}]

\* Who finds a binding can verify it, from the moment it exists: through deaths
\* between the writes, and while other tasks write the same files again.
EveryReadVerifies == \A p \in Calls : ~At(p, "failed")

\* What is verified for a task is what is bound to it, and what the call that
\* asks for it gave: no call hands out the text of another.
VerifiedIsBound ==
    \A p \in Calls : At(p, "verified") =>
        /\ binding[call[p].task] = call[p].contract
        /\ call[p].text \in {call[p].contract, NoText}

\* Once a task is bound to a text, it stays so: whoever dispatched, reads or
\* repeats the call later gets the same text.
BindingIsStable ==
    [][\A t \in Tasks : binding[t] # NoText => binding'[t] = binding[t]]_payloadVars
=============================================================================
