----------------------------- MODULE AtomicStore -----------------------------
(***************************************************************************)
(* What the transaction journal promises to its callers, with no journal   *)
(* in it: a set of documents that change only by whole requests.  A caller *)
(* asks for several documents to be replaced or deleted together; at one   *)
(* instant all of them change, or the request never takes effect; and what *)
(* the caller is told afterwards is true.                                  *)
(*                                                                         *)
(* AuditJournal implements this with one file written at a time.           *)
(***************************************************************************)
CONSTANTS
  Callers,    \* whoever asks for a change
  Files,      \* the documents
  Contents,   \* what an existing document may hold
  Missing     \* what is read of a document that does not exist

VARIABLES
  value,      \* the document contents every reader agrees on
  request,    \* the change each caller has asked for
  stage,      \* how far each caller's request is
  answer      \* what each caller was told about its latest request

vars == <<value, request, stage, answer>>

Images == Contents \cup {Missing}
NoRequest == [targets |-> {}, after |-> [f \in Files |-> Missing]]
Requests == [targets : SUBSET Files, after : [Files -> Images]]

TypeOK ==
  /\ value \in [Files -> Images]
  /\ request \in [Callers -> Requests]
  /\ stage \in [Callers -> {"idle", "asked", "applied"}]
  /\ answer \in [Callers -> {"none", "committed", "failed", "raised"}]

Init ==
  /\ value \in [Files -> Images]
  /\ request = [c \in Callers |-> NoRequest]
  /\ stage = [c \in Callers |-> "idle"]
  /\ answer = [c \in Callers |-> "none"]

\* A caller asks for a change of the documents in S.
Ask(c) ==
  /\ stage[c] = "idle"
  /\ \E S \in SUBSET Files \ {{}} : \E new \in [Files -> Images] :
       request' = [request EXCEPT ![c] = [targets |-> S, after |-> new]]
  /\ stage' = [stage EXCEPT ![c] = "asked"]
  /\ answer' = [answer EXCEPT ![c] = "none"]
  /\ UNCHANGED value

\* The whole change takes effect.
Apply(c) ==
  /\ stage[c] = "asked"
  /\ value' = [f \in Files |->
                 IF f \in request[c].targets THEN request[c].after[f] ELSE value[f]]
  /\ stage' = [stage EXCEPT ![c] = "applied"]
  /\ UNCHANGED <<request, answer>>

\* The caller is told.  "committed" and "failed" are promises; "raised" is an
\* error that says nothing about the change.
Answer(c) ==
  /\ \/ stage[c] = "applied" /\ answer' = [answer EXCEPT ![c] = "committed"]
     \/ stage[c] = "asked" /\ answer' = [answer EXCEPT ![c] = "failed"]
     \/ stage[c] # "idle" /\ answer' = [answer EXCEPT ![c] = "raised"]
  /\ stage' = [stage EXCEPT ![c] = "idle"]
  /\ request' = [request EXCEPT ![c] = NoRequest]
  /\ UNCHANGED value

\* Callers stop, crash or begin anew: a request that was not applied is
\* forgotten for good, one that was applied stays applied.
Forget(S) ==
  /\ request' = [c \in Callers |-> IF c \in S THEN NoRequest ELSE request[c]]
  /\ stage' = [c \in Callers |-> IF c \in S THEN "idle" ELSE stage[c]]
  /\ answer' = [c \in Callers |-> IF c \in S THEN "none" ELSE answer[c]]
  /\ UNCHANGED value

Next ==
  \/ \E c \in Callers : Ask(c) \/ Apply(c) \/ Answer(c)
  \/ \E S \in SUBSET Callers : Forget(S)

Spec == Init /\ [][Next]_vars
==============================================================================
