---------------------------- MODULE GatewayProofs ----------------------------
(***************************************************************************)
(* Theorems about the front ends: about Gateway, for any set of callers,   *)
(* whatever they send, and any rows that the tables can hold at the start, *)
(* and about Ontology, which the MCP server serves, for any schema files,  *)
(* tables, rows that arrive, searches, calls and offers.                   *)
(***************************************************************************)
EXTENDS Gateway, Ontology, FiniteSetTheorems, SequenceTheorems, TLAPS

-----------------------------------------------------------------------------
(* What the constants are.                                                 *)

Ops == ApiOps \cup McpOps

\* Where a request is after its first step.
Later == {"apply", "propose", "cancel", "mark", "each", "insert", "status", "proposals"}

Places == Ops \cup Later \cup {"idle", "answered", "gone"}

\* What can be written on the way to an answer that is an error.
Partial == {"decision", "decided", "llm_decision", "undelivered"}

Writings == Reviews \cup Partial \cup
  {"applied", "failed", "proposal", "cancelled", "dispatched", "case", "proposals", "closed",
   "sandbox", "linked", "run"}

Replies == Clean \cup Unknown \cup Writings \cup {Nil, "started"}

-----------------------------------------------------------------------------
(* The inductive invariant.                                                *)

RequestType == [pc : Places, input : Inputs \cup {Nil}, answer : Replies, hidden : BOOLEAN]

TypeInv == rows \in RowType /\ requests \in [Callers -> RequestType]

\* Only an execution that is asked to be a live one gets past its preview.
Previews(r) ==
  requests[r].pc # "idle" /\ Input(r).op = "execute" /\ Input(r).dryRun # FALSE

\* Where a request is says what it asked for.
PlaceInv(r) ==
  /\ requests[r].pc \in Ops => Input(r).op = requests[r].pc
  /\ requests[r].pc \in Later \ {"apply"} => Input(r).op # "execute"
  /\ requests[r].pc # "answered" => requests[r].answer = Nil
  /\ Previews(r) => requests[r].pc # "apply" /\ requests[r].answer # "started"

\* What it has left so far: nothing before it has been granted a transaction,
\* and what no answer reports before the last one.
TraceInv(r) ==
  /\ requests[r].pc \in {"idle"} \cup Ops \cup {"apply", "cancel", "mark", "each", "insert"}
       => Of(r) = {}
  /\ requests[r].pc \in {"propose", "status", "proposals"} => \A e \in Of(r) : e.what \in Partial
  /\ Previews(r) => Of(r) = {}

AnswerInv(r) ==
  LET told == requests[r].answer
  IN /\ told \in Clean => Of(r) = {}
     /\ told \in Unknown => \A e \in Of(r) : e.what \in Partial \/ requests[r].hidden
     /\ told \notin Clean \cup Unknown \cup {Nil, "started"} =>
          [call |-> r, what |-> told, by |-> Actor(Input(r))] \in committed

RequestInv(r) == PlaceInv(r) /\ TraceInv(r) /\ AnswerInv(r)

Executions == {"applied", "failed"}
Refusals   == {"reject", "cancel_proposal"}

\* A proposal that has been reviewed or loaded is not "proposed" any more, one
\* that was refused stays so, and nobody has loaded it.
ProposalInv ==
  /\ \A e \in committed : e.what \in Reviews \cup Executions => rows.proposal # "proposed"
  /\ \A r \in Callers : At(r, "apply") => rows.proposal # "proposed"
  /\ \A d, e \in committed : d.what \in Reviews /\ e.what \in Reviews => d = e
  /\ \A e \in committed : e.what \in Refusals =>
       /\ rows.proposal = "rejected"
       /\ \A r \in Callers : ~ At(r, "apply")
       /\ \A d \in committed : d.what \notin Executions

GatewayInv == TypeInv /\ ProposalInv /\ \A r \in Callers : RequestInv(r)

-----------------------------------------------------------------------------
(* Shapes of steps.                                                        *)

\* The request r goes to pc, the others stay where they are.
Becomes(r, pc, said, hidden) ==
  /\ requests' \in [Callers -> RequestType]
  /\ requests'[r].pc = pc /\ requests'[r].answer = said /\ requests'[r].hidden = hidden
  /\ requests'[r].input = requests[r].input
  /\ \A s \in Callers \ {r} : requests'[s] = requests[s]

Told(r, said) == IF Input(r).via = "mcp" THEN ToolAnswer(said) ELSE said

\* What is written with a transaction of r.
Written(r, what) == [call |-> r, what |-> what, by |-> Actor(Input(r))]

Unwritten == UNCHANGED <<rows, committed>>

\* A transaction of r that is rolled back, or kept with its reply lost.
Failed(r, what, new) ==
  \/ Unwritten /\ Becomes(r, "answered", Told(r, Failure(r)), requests[r].hidden)
  \/ /\ rows' = new /\ committed' = committed \cup {Written(r, what)}
     /\ Becomes(r, "answered", Told(r, Failure(r)), TRUE)

\* One that is kept, after which r goes to pc.
Kept(r, what, new, pc, said) ==
  /\ rows' = new /\ committed' = committed \cup {Written(r, what)}
  /\ Becomes(r, pc, said, requests[r].hidden)

LEMMA TheFailures ==
  ASSUME NEW r \in Callers
  PROVE  /\ Failure(r) \in Unknown /\ Told(r, Failure(r)) \in Unknown
         /\ \A a \in Unknown : ToolAnswer(a) \in Unknown
BY DEF Failure, Told, ToolAnswer, Unknown

LEMMA ToldReplies ==
  ASSUME NEW r \in Callers, NEW a \in Replies
  PROVE  /\ Told(r, a) \in Replies
         /\ a \in Clean => Told(r, a) \in Clean \cup Unknown
         /\ a \in Unknown => Told(r, a) \in Unknown
         /\ a \in Writings \cup {"started"} => Told(r, a) = a
BY DEF Told, ToolAnswer, Replies, Clean, Unknown, Writings, Reviews, Partial

LEMMA AnswersBecome ==
  ASSUME TypeInv, NEW r \in Callers, NEW a \in Replies,
         NEW h \in BOOLEAN,
         requests' = [Answers(r, a) EXCEPT ![r].hidden = h] \/
         (requests' = Answers(r, a) /\ h = requests[r].hidden)
  PROVE  Becomes(r, "answered", Told(r, a), h)
<1>1. requests[r] \in RequestType /\ requests \in [Callers -> RequestType]
  BY DEF TypeInv
<1>2. Told(r, a) \in Replies
  BY ToldReplies
<1> DEFINE q == [requests[r] EXCEPT !.pc = "answered", !.answer = Told(r, a)]
           p == [q EXCEPT !.hidden = h]
<1>3. /\ p \in RequestType /\ p.pc = "answered" /\ p.answer = Told(r, a) /\ p.hidden = h
      /\ p.input = requests[r].input /\ (h = requests[r].hidden => p = q)
  BY <1>1, <1>2 DEF RequestType, Places
<1>4. Answers(r, a) = [requests EXCEPT ![r] = q]
  BY DEF Answers, Told
<1>5. requests' = [requests EXCEPT ![r] = p]
  BY <1>1, <1>3, <1>4
<1> HIDE DEF p
<1>6. QED
  BY <1>1, <1>3, <1>5 DEF Becomes

LEMMA GoesBecomes ==
  ASSUME TypeInv, NEW r \in Callers, NEW pc \in Places, NEW h \in BOOLEAN,
         requests' = [Goes(r, pc) EXCEPT ![r].hidden = h] \/
         (requests' = Goes(r, pc) /\ h = requests[r].hidden)
  PROVE  Becomes(r, pc, requests[r].answer, h)
<1>1. requests[r] \in RequestType /\ requests \in [Callers -> RequestType]
  BY DEF TypeInv
<1> DEFINE q == [requests[r] EXCEPT !.pc = pc]
           p == [q EXCEPT !.hidden = h]
<1>3. /\ p \in RequestType /\ p.pc = pc /\ p.answer = requests[r].answer /\ p.hidden = h
      /\ p.input = requests[r].input /\ (h = requests[r].hidden => p = q)
  BY <1>1 DEF RequestType
<1>4. Goes(r, pc) = [requests EXCEPT ![r] = q]
  BY DEF Goes
<1>5. requests' = [requests EXCEPT ![r] = p]
  BY <1>1, <1>3, <1>4
<1> HIDE DEF p
<1>6. QED
  BY <1>1, <1>3, <1>5 DEF Becomes

LEMMA SaysBecomes ==
  ASSUME TypeInv, NEW r \in Callers, NEW a \in Replies, Says(r, a)
  PROVE  Unwritten /\ Becomes(r, "answered", Told(r, a), requests[r].hidden)
BY AnswersBecome DEF Says, Unwritten, TypeInv, RequestType

LEMMA ContinuesBecomes ==
  ASSUME TypeInv, NEW r \in Callers, NEW pc \in Places, Continues(r, pc)
  PROVE  Unwritten /\ Becomes(r, pc, requests[r].answer, requests[r].hidden)
BY GoesBecomes DEF Continues, Unwritten, TypeInv, RequestType

LEMMA StillHidden ==
  ASSUME TypeInv, NEW r \in Callers
  PROVE  /\ requests[r].hidden \in BOOLEAN
         /\ \A a : Answers(r, a)[r].hidden = requests[r].hidden
         /\ \A pc : Goes(r, pc)[r].hidden = requests[r].hidden
<1>1. requests[r] \in RequestType /\ requests \in [Callers -> RequestType]
  BY DEF TypeInv
<1>2. QED
  BY <1>1 DEF RequestType, Answers, Goes

\* The three outcomes of a transaction.
LEMMA CommitsOrFails ==
  ASSUME TypeInv, NEW r \in Callers, NEW what, NEW new, NEW success,
         Commit(r, what, new, success), success[r].hidden = requests[r].hidden
  PROVE  \/ /\ rows' = new /\ committed' = committed \cup {Written(r, what)}
            /\ requests' = [success EXCEPT ![r].hidden = requests[r].hidden]
         \/ Failed(r, what, new)
<1> DEFINE h == requests[r].hidden
<1>0. h \in BOOLEAN /\ Answers(r, Failure(r))[r].hidden = h
  BY StillHidden
<1>1. PICK t \in Transaction :
        /\ rows' = IF t.kept THEN new ELSE rows
        /\ committed' = committed \cup (IF t.kept THEN {Written(r, what)} ELSE {})
        /\ requests' = [IF t.reported THEN success ELSE Answers(r, Failure(r))
                          EXCEPT ![r].hidden = @ \/ (t.kept /\ ~t.reported)]
  BY DEF Commit, Written
<1>2. Failure(r) \in Replies
  BY TheFailures DEF Replies
<1>3. CASE t = [kept |-> TRUE, reported |-> TRUE]
  <2>1. requests' = [success EXCEPT ![r].hidden = @ \/ FALSE]
    BY <1>1, <1>3
  <2>2. requests' = [success EXCEPT ![r].hidden = h]
    BY <1>0, <2>1
  <2>3. QED
    BY <1>1, <1>3, <2>2
<1>4. CASE t = [kept |-> FALSE, reported |-> FALSE]
  <2>1. requests' = [Answers(r, Failure(r)) EXCEPT ![r].hidden = @ \/ FALSE]
    BY <1>1, <1>4
  <2>2. requests' = [Answers(r, Failure(r)) EXCEPT ![r].hidden = h]
    BY <1>0, <2>1
  <2>3. Becomes(r, "answered", Told(r, Failure(r)), h)
    BY <1>0, <1>2, <2>2, AnswersBecome
  <2>4. Unwritten
    BY <1>1, <1>4 DEF Unwritten
  <2>5. QED
    BY <2>3, <2>4 DEF Failed
<1>5. CASE t = [kept |-> TRUE, reported |-> FALSE]
  <2>1. requests' = [Answers(r, Failure(r)) EXCEPT ![r].hidden = @ \/ TRUE]
    BY <1>1, <1>5
  <2>2. requests' = [Answers(r, Failure(r)) EXCEPT ![r].hidden = TRUE]
    BY <1>0, <2>1
  <2>3. Becomes(r, "answered", Told(r, Failure(r)), TRUE)
    BY <1>2, <2>2, AnswersBecome
  <2>4. rows' = new /\ committed' = committed \cup {Written(r, what)}
    BY <1>1, <1>5
  <2>5. QED
    BY <2>3, <2>4 DEF Failed
<1>6. QED
  BY <1>3, <1>4, <1>5 DEF Transaction

LEMMA CommitAnswers ==
  ASSUME TypeInv, NEW r \in Callers, NEW what, NEW new, NEW a \in Replies,
         Commit(r, what, new, Answers(r, a))
  PROVE  Kept(r, what, new, "answered", Told(r, a)) \/ Failed(r, what, new)
BY CommitsOrFails, StillHidden, AnswersBecome DEF Kept

LEMMA CommitGoes ==
  ASSUME TypeInv, NEW r \in Callers, NEW what, NEW new, NEW pc \in Places,
         Commit(r, what, new, Goes(r, pc))
  PROVE  Kept(r, what, new, pc, requests[r].answer) \/ Failed(r, what, new)
BY CommitsOrFails, StillHidden, GoesBecomes DEF Kept

LEMMA WritesAnswer ==
  ASSUME TypeInv, NEW r \in Callers, NEW what \in Writings, NEW new, Writes(r, what, new)
  PROVE  Kept(r, what, new, "answered", what) \/ Failed(r, what, new)
<1>1. what \in Replies
  BY DEF Replies
<1>2. Told(r, what) = what
  BY <1>1, ToldReplies
<1>3. QED
  BY <1>1, <1>2, CommitAnswers DEF Writes

-----------------------------------------------------------------------------
(* The parts of the invariant in steps of these shapes.                    *)

\* What r leaves is no concern of the others.
LEMMA OthersStay ==
  ASSUME NEW r \in Callers, NEW s \in Callers \ {r}, RequestInv(s), requests'[s] = requests[s],
         committed' = committed \/ \E e : e.call = r /\ committed' = committed \cup {e}
  PROVE  RequestInv(s)'
<1>1. committed \subseteq committed' /\ Of(s)' = Of(s)
  BY DEF Of
<1>2. Input(s)' = Input(s)
  BY DEF Input
<1>3. PlaceInv(s)' /\ (Previews(s)' <=> Previews(s))
  BY <1>2 DEF RequestInv, PlaceInv, Previews
<1>4. TraceInv(s)'
  BY <1>1, <1>3 DEF RequestInv, TraceInv
<1>5. AnswerInv(s)'
  <2>1. Actor(Input(s))' = Actor(Input(s))
    BY <1>2 DEF Actor, ApiActor, McpActor
  <2>2. QED
    BY <1>1, <2>1 DEF RequestInv, AnswerInv
<1>6. QED
  BY <1>3, <1>4, <1>5 DEF RequestInv

\* A request is answered without a transaction.
LEMMA AnswerStep ==
  ASSUME TypeInv, NEW r \in Callers, RequestInv(r), requests[r].pc \notin {"idle", "answered", "gone"},
         NEW a \in Replies, Unwritten, Becomes(r, "answered", Told(r, a), requests[r].hidden),
         \/ a \in Unknown
         \/ a \in Clean /\ Of(r) = {}
         \/ a = "started" /\ Input(r).op # "execute"
  PROVE  RequestInv(r)'
<1>1. /\ requests'[r].pc = "answered" /\ requests'[r].answer = Told(r, a)
      /\ requests'[r].hidden = requests[r].hidden /\ Input(r)' = Input(r)
      /\ Of(r)' = Of(r)
  BY DEF Becomes, Input, Unwritten, Of
<1>2. Previews(r)' <=> Previews(r)
  BY <1>1 DEF Previews
<1>3. PlaceInv(r)'
  <2>1. Previews(r) => Told(r, a) # "started"
    <3>1. a \in Clean \cup Unknown => Told(r, a) # "started"
      BY ToldReplies DEF Clean, Unknown
    <3>2. QED
      BY <3>1 DEF Previews
  <2>2. QED
    BY <1>1, <1>2, <2>1 DEF PlaceInv, Ops, ApiOps, McpOps, Reviews, CaseReads, SandboxReads, Later
<1>4. TraceInv(r)'
  BY <1>1, <1>2 DEF RequestInv, TraceInv, Ops, ApiOps, McpOps, Reviews, CaseReads, SandboxReads
<1>5. AnswerInv(r)'
  <2>1. \A e \in Of(r) : e.what \in Partial
    BY DEF RequestInv, TraceInv, TypeInv, RequestType, Places, Later
  <2>2. \/ Told(r, a) \in Clean /\ Of(r) = {}
        \/ Told(r, a) \in Unknown
        \/ Told(r, a) = "started"
    BY ToldReplies
  <2>3. QED
    BY <1>1, <2>1, <2>2 DEF AnswerInv, Clean, Unknown
<1>6. QED
  BY <1>3, <1>4, <1>5 DEF RequestInv

\* A request goes on without a transaction.
LEMMA GoesStep ==
  ASSUME TypeInv, NEW r \in Callers, RequestInv(r),
         requests[r].pc \notin {"idle", "answered", "gone"},
         NEW pc \in Later, Unwritten, Becomes(r, pc, requests[r].answer, requests[r].hidden),
         pc # "apply" => Input(r).op # "execute",
         pc = "apply" => ~ Previews(r),
         pc \in {"apply", "cancel", "mark", "each", "insert"} => Of(r) = {}
  PROVE  RequestInv(r)'
<1>1. /\ requests'[r].pc = pc /\ requests'[r].answer = requests[r].answer
      /\ requests'[r].hidden = requests[r].hidden /\ Input(r)' = Input(r)
      /\ Of(r)' = Of(r)
  BY DEF Becomes, Input, Unwritten, Of
<1>2. Previews(r)' <=> Previews(r)
  BY <1>1 DEF Previews, Later
<1>3. pc \notin Ops /\ pc \notin {"idle", "answered", "gone"}
  BY DEF Ops, ApiOps, McpOps, Reviews, CaseReads, SandboxReads, Later
<1>4. \A e \in Of(r) : e.what \in Partial
  BY DEF RequestInv, TraceInv, TypeInv, RequestType, Places, Later
<1>5. requests[r].answer = Nil
  BY DEF RequestInv, PlaceInv
<1>6. PlaceInv(r)'
  BY <1>1, <1>2, <1>3, <1>5 DEF PlaceInv, RequestInv
<1>7. TraceInv(r)'
  BY <1>1, <1>2, <1>3, <1>4 DEF RequestInv, TraceInv, Later
<1>8. AnswerInv(r)'
  <2>1. \A e \in Of(r) : e \in committed'
    BY DEF Of, Unwritten
  <2>2. Actor(Input(r))' = Actor(Input(r))
    BY <1>1 DEF Actor, ApiActor, McpActor
  <2>3. QED
    BY <1>1, <2>2 DEF RequestInv, AnswerInv, Unwritten
<1>9. QED
  BY <1>6, <1>7, <1>8 DEF RequestInv

\* A transaction of r was kept, and r gets to know.
LEMMA KeptStep ==
  ASSUME GatewayAssumption, TypeInv, NEW r \in Callers, RequestInv(r),
         requests[r].pc \notin {"idle", "answered", "gone"}, ~ Previews(r),
         NEW what \in Writings, NEW new, NEW pc, NEW a, Kept(r, what, new, pc, a),
         \/ pc = "answered" /\ a = what
         \/ pc = "answered" /\ a \in Unknown /\ what \in Partial
         \/ /\ pc \in {"propose", "status", "proposals"} /\ a = requests[r].answer
            /\ what \in Partial /\ Input(r).op # "execute"
  PROVE  RequestInv(r)'
<1>1. /\ requests'[r].pc = pc /\ requests'[r].answer = a /\ Input(r)' = Input(r)
      /\ Of(r)' = Of(r) \cup {Written(r, what)} /\ Written(r, what) \in committed'
  BY DEF Kept, Becomes, Input, Of, Written
<1>2. ~ Previews(r)'
  <2>1. ~ (Input(r).op = "execute" /\ Input(r).dryRun # FALSE)
    BY DEF Previews
  <2>2. QED
    BY <1>1, <2>1 DEF Previews
<1>3. pc \notin Ops /\ pc \notin {"idle", "gone", "apply", "cancel", "mark", "each", "insert"}
  BY DEF Ops, ApiOps, McpOps, Reviews, CaseReads, SandboxReads
<1>4. \A e \in Of(r) : e.what \in Partial
  BY DEF RequestInv, TraceInv, TypeInv, RequestType, Places, Later
<1>5. requests[r].answer = Nil
  BY DEF RequestInv, PlaceInv
<1>6. PlaceInv(r)'
  BY <1>1, <1>2, <1>3, <1>5 DEF PlaceInv, Later
<1>7. TraceInv(r)'
  <2>1. what \in Partial => \A e \in Of(r)' : e.what \in Partial
    BY <1>1, <1>4 DEF Written
  <2>2. QED
    BY <1>1, <1>2, <1>3, <2>1 DEF TraceInv
<1>8. AnswerInv(r)'
  <2>1. Actor(Input(r))' = Actor(Input(r))
    BY <1>1 DEF Actor, ApiActor, McpActor
  <2>2. CASE pc = "answered" /\ a = what
    <3>1. what \notin Clean \cup Unknown
      BY DEF Writings, Reviews, Partial, Clean, Unknown
    <3>2. QED
      BY <1>1, <2>1, <2>2, <3>1 DEF AnswerInv, Written
  <2>3. CASE a \in Unknown /\ what \in Partial
    <3>1. a \notin Clean
      BY <2>3 DEF Clean, Unknown
    <3>2. \A e \in Of(r)' : e.what \in Partial
      BY <1>1, <1>4, <2>3 DEF Written
    <3>3. QED
      BY <1>1, <2>3, <3>1, <3>2 DEF AnswerInv
  <2>4. CASE a = requests[r].answer
    <3>1. a = Nil
      BY <1>5, <2>4
    <3>2. QED
      BY <1>1, <3>1 DEF AnswerInv, GatewayAssumption
  <2>5. QED
    BY <2>2, <2>3, <2>4
<1>9. QED
  BY <1>6, <1>7, <1>8 DEF RequestInv

\* A transaction of r was rolled back, or its reply was lost.
LEMMA FailedStep ==
  ASSUME TypeInv, NEW r \in Callers, RequestInv(r),
         requests[r].pc \notin {"idle", "answered", "gone"}, ~ Previews(r),
         NEW what, NEW new, Failed(r, what, new)
  PROVE  RequestInv(r)'
<1>1. CASE /\ Unwritten
           /\ Becomes(r, "answered", Told(r, Failure(r)), requests[r].hidden)
  <2>1. Failure(r) \in Replies /\ Failure(r) \in Unknown
    BY TheFailures DEF Replies
  <2>2. QED
    BY <1>1, <2>1, AnswerStep
<1>2. CASE /\ rows' = new /\ committed' = committed \cup {Written(r, what)}
           /\ Becomes(r, "answered", Told(r, Failure(r)), TRUE)
  <2>1. /\ requests'[r].pc = "answered" /\ requests'[r].answer = Told(r, Failure(r))
        /\ requests'[r].hidden = TRUE /\ Input(r)' = Input(r)
        /\ Told(r, Failure(r)) \in Unknown
    BY <1>2, TheFailures DEF Becomes, Input
  <2>2. ~ Previews(r)'
    <3>1. ~ (Input(r).op = "execute" /\ Input(r).dryRun # FALSE)
      BY DEF Previews
    <3>2. QED
      BY <2>1, <3>1 DEF Previews
  <2>3. PlaceInv(r)'
    BY <2>1, <2>2 DEF PlaceInv, Later, Ops, ApiOps, McpOps, Reviews, CaseReads, SandboxReads
  <2>4. TraceInv(r)'
    BY <2>1, <2>2 DEF TraceInv, Ops, ApiOps, McpOps, Reviews, CaseReads, SandboxReads
  <2>5. AnswerInv(r)'
    BY <2>1 DEF AnswerInv, Clean, Unknown
  <2>6. QED
    BY <2>3, <2>4, <2>5 DEF RequestInv
<1>3. QED
  BY <1>1, <1>2 DEF Failed

\* The rows of the proposal are untouched, and nobody loads it.
LEMMA ProposalStays ==
  ASSUME TypeInv, ProposalInv, rows'.proposal = rows.proposal, NEW r \in Callers,
         \A s \in Callers \ {r} : requests'[s] = requests[s], requests'[r].pc # "apply",
         \/ committed' = committed
         \/ \E e : /\ e.what \notin Reviews \cup Executions
                 /\ committed' = committed \cup {e}
  PROVE  ProposalInv'
<1>1. \A s \in Callers : At(s, "apply")' => At(s, "apply")
  BY DEF At
<1>2. \A e \in committed' : e.what \in Reviews \cup Executions => e \in committed
  OBVIOUS
<1>3. Refusals \subseteq Reviews
  BY DEF Refusals, Reviews
<1>4. QED
  BY <1>1, <1>2, <1>3 DEF ProposalInv

-----------------------------------------------------------------------------
(* Steps of one request.                                                   *)

Busy(r) == requests[r].pc \notin {"idle", "answered", "gone"}

CallInv(r) == TypeInv /\ ProposalInv /\ RequestInv(r)

\* What a step of r keeps.
StepOK(r) ==
  /\ TypeInv' /\ ProposalInv' /\ RequestInv(r)'
  /\ \A s \in Callers \ {r} : requests'[s] = requests[s]
  /\ committed' = committed \/ \E e : e.call = r /\ committed' = committed \cup {e}

LEMMA SaysOK ==
  ASSUME NEW r \in Callers, CallInv(r), Busy(r), NEW a \in Replies, Says(r, a),
         \/ a \in Unknown
         \/ a \in Clean /\ Of(r) = {}
         \/ a = "started" /\ Input(r).op # "execute"
  PROVE  StepOK(r)
<1>1. Unwritten /\ Becomes(r, "answered", Told(r, a), requests[r].hidden)
  BY SaysBecomes DEF CallInv
<1>2. RequestInv(r)'
  BY <1>1, AnswerStep DEF CallInv, Busy
<1>3. ProposalInv'
  BY <1>1, ProposalStays DEF CallInv, Unwritten, Becomes
<1>4. QED
  BY <1>1, <1>2, <1>3 DEF StepOK, CallInv, TypeInv, Unwritten, Becomes

LEMMA ContinuesOK ==
  ASSUME NEW r \in Callers, CallInv(r), Busy(r), NEW pc \in Later \ {"apply"}, Continues(r, pc),
         Input(r).op # "execute", Of(r) = {}
  PROVE  StepOK(r)
<1>1. Unwritten /\ Becomes(r, pc, requests[r].answer, requests[r].hidden)
  BY ContinuesBecomes DEF CallInv, Places
<1>2. RequestInv(r)'
  BY <1>1, GoesStep DEF CallInv, Busy
<1>3. ProposalInv'
  BY <1>1, ProposalStays DEF CallInv, Unwritten, Becomes
<1>4. QED
  BY <1>1, <1>2, <1>3 DEF StepOK, CallInv, TypeInv, Unwritten, Becomes

\* A transaction of r, at rows other than the proposal's.
Elsewhere(what, new) ==
  /\ what \in Writings \ (Reviews \cup Executions)
  /\ new \in RowType /\ new.proposal = rows.proposal

LEMMA FailedOK ==
  ASSUME NEW r \in Callers, CallInv(r), Busy(r), ~ Previews(r), NEW what, NEW new,
         Elsewhere(what, new), Failed(r, what, new)
  PROVE  StepOK(r)
<1>1. RequestInv(r)'
  BY FailedStep DEF CallInv, Busy
<1>2. /\ requests' \in [Callers -> RequestType] /\ requests'[r].pc = "answered"
      /\ \A s \in Callers \ {r} : requests'[s] = requests[s]
  BY DEF Failed, Becomes
<1>3. \/ rows' = rows /\ committed' = committed
      \/ rows' = new /\ committed' = committed \cup {Written(r, what)}
  BY DEF Failed, Unwritten
<1>4. Written(r, what).call = r /\ Written(r, what).what = what
  BY DEF Written
<1>5. rows' \in RowType /\ rows'.proposal = rows.proposal
  BY <1>3 DEF Elsewhere, CallInv, TypeInv
<1>6. committed' = committed \/ \E e : /\ e.what \notin Reviews \cup Executions
                                       /\ committed' = committed \cup {e}
  BY <1>3, <1>4 DEF Elsewhere
<1>7. ProposalInv'
  BY <1>2, <1>5, <1>6, ProposalStays DEF CallInv
<1>8. QED
  BY <1>1, <1>2, <1>3, <1>4, <1>5, <1>7 DEF StepOK, TypeInv

LEMMA KeptOK ==
  ASSUME GatewayAssumption, NEW r \in Callers, CallInv(r), Busy(r), ~ Previews(r),
         NEW what, NEW new, Elsewhere(what, new), NEW pc, NEW a, Kept(r, what, new, pc, a),
         \/ pc = "answered" /\ a = what
         \/ pc = "answered" /\ a \in Unknown /\ what \in Partial
         \/ /\ pc \in {"propose", "status", "proposals"} /\ a = requests[r].answer
            /\ what \in Partial /\ Input(r).op # "execute"
  PROVE  StepOK(r)
<1>1. RequestInv(r)'
  BY KeptStep DEF CallInv, Busy, Elsewhere
<1>2. /\ requests' \in [Callers -> RequestType] /\ requests'[r].pc # "apply"
      /\ \A s \in Callers \ {r} : requests'[s] = requests[s]
  BY DEF Kept, Becomes
<1>3. rows' = new /\ committed' = committed \cup {Written(r, what)}
  BY DEF Kept
<1>4. Written(r, what).call = r /\ Written(r, what).what = what
  BY DEF Written
<1>5. rows' \in RowType /\ rows'.proposal = rows.proposal
  BY <1>3 DEF Elsewhere
<1>6. \E e : e.what \notin Reviews \cup Executions /\ committed' = committed \cup {e}
  BY <1>3, <1>4 DEF Elsewhere
<1>7. ProposalInv'
  BY <1>2, <1>5, <1>6, ProposalStays DEF CallInv
<1>8. QED
  BY <1>1, <1>2, <1>3, <1>4, <1>5, <1>7 DEF StepOK, TypeInv

LEMMA WritesOK ==
  ASSUME GatewayAssumption, NEW r \in Callers, CallInv(r), Busy(r), ~ Previews(r),
         NEW what, NEW new, Elsewhere(what, new), Writes(r, what, new)
  PROVE  StepOK(r)
BY WritesAnswer, KeptOK, FailedOK DEF CallInv, Elsewhere

LEMMA CommitGoesOK ==
  ASSUME GatewayAssumption, NEW r \in Callers, CallInv(r), Busy(r), Input(r).op # "execute",
         NEW what \in Partial, NEW new, Elsewhere(what, new),
         NEW pc \in {"propose", "status", "proposals"}, Commit(r, what, new, Goes(r, pc))
  PROVE  StepOK(r)
<1>1. ~ Previews(r)
  BY DEF Previews
<1>2. Kept(r, what, new, pc, requests[r].answer) \/ Failed(r, what, new)
  BY CommitGoes DEF CallInv, Places, Later
<1>3. QED
  BY <1>1, <1>2, KeptOK, FailedOK

-----------------------------------------------------------------------------
(* The actions.                                                            *)

\* What is known of a request by where it is.
LEMMA WhereItIs ==
  ASSUME NEW r \in Callers, CallInv(r)
  PROVE  /\ requests[r].pc \in Ops \cup {"apply", "cancel", "mark", "each", "insert"} => Of(r) = {}
         /\ requests[r].pc \in (Ops \ {"execute"}) \cup (Later \ {"apply"})
              => Input(r).op # "execute" /\ ~ Previews(r)
         /\ requests[r].pc \in Ops \cup Later => Busy(r)
         /\ requests[r].pc = "execute" => Input(r).op = "execute"
<1>1. PlaceInv(r) /\ TraceInv(r)
  BY DEF CallInv, RequestInv
<1>2. "execute" \in Ops
  BY DEF Ops, ApiOps
<1>3. requests[r].pc \in Ops => Input(r).op = requests[r].pc
  BY <1>1 DEF PlaceInv
<1>4. requests[r].pc \in Ops \cup Later => Busy(r)
  BY DEF Busy, Ops, ApiOps, McpOps, Reviews, CaseReads, SandboxReads, Later
<1>5. requests[r].pc \in Ops \cup {"apply", "cancel", "mark", "each", "insert"} => Of(r) = {}
  BY <1>1 DEF TraceInv
<1>6. requests[r].pc \in (Ops \ {"execute"}) \cup (Later \ {"apply"}) => Input(r).op # "execute"
  BY <1>1, <1>3 DEF PlaceInv
<1>7. QED
  BY <1>2, <1>3, <1>4, <1>5, <1>6 DEF Previews

\* New contents of a row other than the proposal's.
LEMMA OtherRows ==
  ASSUME TypeInv
  PROVE  /\ \A s \in {"pending", "dispatched", "failed", "cancelled"} :
              /\ [rows EXCEPT !.event = s] \in RowType
              /\ [rows EXCEPT !.event = s].proposal = rows.proposal
         /\ \A s \in {"none", "open", "closed"} :
              /\ [rows EXCEPT !.case = s] \in RowType
              /\ [rows EXCEPT !.case = s].proposal = rows.proposal
         /\ \A s \in {"empty", "linked"} :
              /\ [rows EXCEPT !.sandbox = s] \in RowType
              /\ [rows EXCEPT !.sandbox = s].proposal = rows.proposal
         /\ rows \in RowType
BY DEF TypeInv, RowType

\* What only answers.
LEMMA ReadsOK ==
  ASSUME NEW r \in Callers, CallInv(r),
         BuildContext(r) \/ Read(r) \/ CompareSandbox(r) \/ StartPipeline(r)
  PROVE  StepOK(r)
<1>1. requests[r].pc \in Ops \ {"execute"}
  BY DEF BuildContext, Read, CompareSandbox, StartPipeline, At, Ops, ApiOps, McpOps, Reviews,
     CaseReads, SandboxReads, ProposalReads, EventReads
<1>2. Of(r) = {} /\ Busy(r) /\ Input(r).op # "execute"
  BY <1>1, WhereItIs
<1>3. PICK a \in {"read", "not_found", "previewed", "started"} : Says(r, a)
  BY DEF BuildContext, Read, CompareSandbox, StartPipeline
<1>4. a \in Replies /\ (a \in Clean \/ a = "started")
  BY DEF Replies, Clean
<1>5. QED
  BY <1>2, <1>3, <1>4, SaysOK

\* A statement fails.
LEMMA FailOK ==
  ASSUME NEW r \in Callers, CallInv(r), Fail(r)
  PROVE  StepOK(r)
<1>1. Failure(r) \in Replies /\ Failure(r) \in Unknown
  BY TheFailures DEF Replies
<1>2. QED
  BY <1>1, SaysOK DEF Fail, Busy

\* Steps that test something and answer, or go on.
LEMMA TestsOK ==
  ASSUME NEW r \in Callers, CallInv(r),
         HandleCancel(r) \/ HandleDispatch(r) \/ HandleBatchDispatch(r) \/ DispatchEach(r)
         \/ CreateCase(r)
  PROVE  StepOK(r)
<1>1. requests[r].pc \in (Ops \ {"execute"}) \cup {"each"}
  BY DEF HandleCancel, HandleDispatch, HandleBatchDispatch, DispatchEach, CreateCase, At, Ops,
     ApiOps, McpOps
<1>2. Of(r) = {} /\ Busy(r) /\ Input(r).op # "execute"
  BY <1>1, WhereItIs DEF Later
<1>3. \/ \E a \in {"error", "conflict", "not_found", "nothing", "previewed", "not_dispatched",
                   "existing"} : Says(r, a)
      \/ \E pc \in {"cancel", "mark", "each", "insert"} : Continues(r, pc)
  BY DEF HandleCancel, HandleDispatch, HandleBatchDispatch, DispatchEach, CreateCase
<1>4. ASSUME NEW a \in {"error", "conflict", "not_found", "nothing", "previewed",
                        "not_dispatched", "existing"}, Says(r, a)
      PROVE  StepOK(r)
  <2>1. a \in Replies /\ (a \in Clean \/ a \in Unknown)
    BY DEF Replies, Clean, Unknown
  <2>2. QED
    BY <1>2, <1>4, <2>1, SaysOK
<1>5. ASSUME NEW pc \in {"cancel", "mark", "each", "insert"}, Continues(r, pc)
      PROVE  StepOK(r)
  <2>1. pc \in Later \ {"apply"}
    BY DEF Later
  <2>2. QED
    BY <1>2, <1>5, <2>1, ContinuesOK
<1>6. QED
  BY <1>3, <1>4, <1>5

\* Transactions that answer, at rows other than the proposal's.
LEMMA WritersOK ==
  ASSUME GatewayAssumption, NEW r \in Callers, CallInv(r),
         \/ HandleProposeAction(r) \/ CancelEvent(r) \/ InsertCase(r) \/ GenerateProposals(r)
         \/ HandleResolveCase(r) \/ CreateSandbox(r) \/ AddProposalToSandbox(r) \/ RunPipeline(r)
  PROVE  StepOK(r)
<1>1. requests[r].pc \in (Ops \ {"execute"}) \cup (Later \ {"apply"})
  BY DEF HandleProposeAction, CancelEvent, InsertCase, GenerateProposals, HandleResolveCase,
     CreateSandbox,
     AddProposalToSandbox, RunPipeline, At, Ops, ApiOps, McpOps, Later
<1>2. Busy(r) /\ Input(r).op # "execute" /\ ~ Previews(r)
  BY <1>1, WhereItIs
<1>3. \/ \E a \in {"refused", "error"} : Says(r, a)
      \/ Says(r, "not_found") /\ At(r, "add_to_sandbox")
      \/ \E what \in {"proposal", "case", "closed"}, s \in {"open", "closed"} :
           Writes(r, what, [rows EXCEPT !.case = s])
      \/ Writes(r, "cancelled", [rows EXCEPT !.event = "cancelled"])
      \/ Writes(r, "linked", [rows EXCEPT !.sandbox = "linked"])
      \/ \E what \in {"proposals", "sandbox", "run"} : Writes(r, what, rows)
  BY DEF HandleProposeAction, CancelEvent, InsertCase, GenerateProposals, HandleResolveCase,
     CreateSandbox,
     AddProposalToSandbox, RunPipeline
<1>4. ASSUME NEW a \in {"refused", "error"}, Says(r, a)
      PROVE  StepOK(r)
  <2>1. a \in Replies /\ a \in Unknown
    BY DEF Replies, Unknown
  <2>2. QED
    BY <1>2, <1>4, <2>1, SaysOK
<1>5. ASSUME Says(r, "not_found"), At(r, "add_to_sandbox")
      PROVE  StepOK(r)
  <2>1. Of(r) = {}
    BY <1>5, WhereItIs DEF At, Ops, ApiOps
  <2>2. "not_found" \in Replies /\ "not_found" \in Clean
    BY DEF Replies, Clean
  <2>3. QED
    BY <1>2, <1>5, <2>1, <2>2, SaysOK
<1>6. ASSUME NEW what \in {"proposal", "case", "closed", "cancelled", "linked", "proposals",
                           "sandbox", "run"}, NEW new, new \in RowType,
             new.proposal = rows.proposal, Writes(r, what, new)
      PROVE  StepOK(r)
  <2>1. what \in Writings \ (Reviews \cup Executions)
    BY DEF Writings, Reviews, Executions
  <2>2. Elsewhere(what, new)
    BY <1>6, <2>1 DEF Elsewhere
  <2>3. QED
    BY <1>2, <1>6, <2>2, WritesOK
<1>7. QED
  BY <1>3, <1>4, <1>5, <1>6, OtherRows DEF CallInv

\* Transactions after which a request goes on.
LEMMA StagesOK ==
  ASSUME GatewayAssumption, NEW r \in Callers, CallInv(r),
         HandleDecisionJSON(r) \/ SaveDecision(r) \/ MarkDecided(r)
  PROVE  StepOK(r)
<1>1. requests[r].pc \in (Ops \ {"execute"}) \cup {"status"}
  BY DEF HandleDecisionJSON, SaveDecision, MarkDecided, At, Ops, ApiOps, McpOps
<1>2. Busy(r) /\ Input(r).op # "execute" /\ ~ Previews(r)
  BY <1>1, WhereItIs DEF Later
<1>3. requests[r].pc # "status" => Of(r) = {}
  BY <1>1, WhereItIs
<1>4. ASSUME NEW what \in Partial, NEW new, new \in RowType, new.proposal = rows.proposal
      PROVE  Elsewhere(what, new)
  BY <1>4 DEF Elsewhere, Partial, Writings, Reviews, Executions
<1>5. CASE HandleDecisionJSON(r)
  <2>1. CASE Commit(r, "llm_decision", rows, Goes(r, "propose"))
    BY <1>2, <1>4, <2>1, CommitGoesOK, OtherRows DEF CallInv, Partial
  <2>2. CASE Continues(r, "propose")
    <3>1. Of(r) = {}
      BY <1>3, <1>5 DEF HandleDecisionJSON, At
    <3>2. QED
      BY <1>2, <2>2, <3>1, ContinuesOK DEF Later
  <2>3. QED
    BY <1>5, <2>1, <2>2 DEF HandleDecisionJSON
<1>6. CASE SaveDecision(r)
  <2>1. CASE Commit(r, "decision", rows, Goes(r, "status"))
    BY <1>2, <1>4, <2>1, CommitGoesOK, OtherRows DEF CallInv, Partial
  <2>2. CASE Says(r, "not_found")
    <3>1. Of(r) = {}
      BY <1>3, <1>6 DEF SaveDecision
    <3>2. QED
      BY <1>2, <2>2, <3>1, SaysOK DEF Replies, Clean
  <2>3. QED
    BY <1>6, <2>1, <2>2 DEF SaveDecision
<1>7. CASE MarkDecided(r)
  <2>1. PICK new : new = [rows EXCEPT !.case = "open"]
    OBVIOUS
  <2>2. Elsewhere("decided", new)
    BY <1>4, <2>1, OtherRows DEF CallInv, Partial
  <2>3. CASE Commit(r, "decided", new, Goes(r, "proposals"))
    BY <1>2, <2>2, <2>3, CommitGoesOK DEF Partial
  <2>4. CASE Commit(r, "decided", new, Answers(r, "decided"))
    <3>1. Writes(r, "decided", new)
      BY <2>4 DEF Writes
    <3>2. QED
      BY <1>2, <2>2, <3>1, WritesOK
  <2>5. QED
    BY <1>7, <2>1, <2>3, <2>4 DEF MarkDecided
<1>8. QED
  BY <1>5, <1>6, <1>7

\* An event is dispatched, or marked as one that was not.
LEMMA DispatchOK ==
  ASSUME GatewayAssumption, NEW r \in Callers, CallInv(r), DispatchEvent(r)
  PROVE  StepOK(r)
<1>1. Busy(r) /\ Input(r).op # "execute" /\ ~ Previews(r)
  BY WhereItIs DEF DispatchEvent, At, Later
<1>2. /\ Elsewhere("dispatched", [rows EXCEPT !.event = "dispatched"])
      /\ Elsewhere("undelivered", [rows EXCEPT !.event = "failed"])
  BY OtherRows DEF CallInv, Elsewhere, Partial, Writings, Reviews, Executions
<1>3. CASE Writes(r, "dispatched", [rows EXCEPT !.event = "dispatched"])
  BY <1>1, <1>2, <1>3, WritesOK
<1>4. CASE Commit(r, "undelivered", [rows EXCEPT !.event = "failed"], Answers(r, Failure(r)))
  <2>1. PICK new : new = [rows EXCEPT !.event = "failed"]
    OBVIOUS
  <2>2. Failure(r) \in Replies /\ Told(r, Failure(r)) \in Unknown
    BY TheFailures DEF Replies
  <2>3. \/ Kept(r, "undelivered", new, "answered", Told(r, Failure(r)))
        \/ Failed(r, "undelivered", new)
    BY <1>4, <2>1, <2>2, CommitAnswers DEF CallInv
  <2>4. "undelivered" \in Partial /\ Elsewhere("undelivered", new)
    BY <1>2, <2>1 DEF Partial
  <2>5. QED
    BY <1>1, <2>2, <2>3, <2>4, KeptOK, FailedOK
<1>5. QED
  BY <1>3, <1>4 DEF DispatchEvent

\* A transaction at the proposal, kept or not.
LEMMA ProposalWrites ==
  ASSUME GatewayAssumption, NEW r \in Callers, CallInv(r), Busy(r), ~ Previews(r),
         NEW what \in Writings, NEW new \in RowType, Writes(r, what, new)
  PROVE  /\ RequestInv(r)' /\ TypeInv'
         /\ \A s \in Callers \ {r} : requests'[s] = requests[s]
         /\ requests'[r].pc = "answered"
         /\ \/ rows' = rows /\ committed' = committed
            \/ rows' = new /\ committed' = committed \cup {Written(r, what)}
<1>1. Kept(r, what, new, "answered", what) \/ Failed(r, what, new)
  BY WritesAnswer DEF CallInv
<1>2. RequestInv(r)'
  BY <1>1, KeptStep, FailedStep DEF CallInv, Busy
<1>3. /\ \A s \in Callers \ {r} : requests'[s] = requests[s]
      /\ requests'[r].pc = "answered" /\ requests' \in [Callers -> RequestType]
      /\ \/ rows' = rows /\ committed' = committed
         \/ rows' = new /\ committed' = committed \cup {Written(r, what)}
  BY <1>1 DEF Kept, Failed, Becomes, Unwritten
<1>4. QED
  BY <1>2, <1>3 DEF TypeInv, CallInv

\* The proposal is locked: one that is still "proposed" has no review, nobody
\* has loaded it, and nobody has executed it.
LEMMA ReviewOK ==
  ASSUME GatewayAssumption, NEW r \in Callers, CallInv(r), HandleReview(r)
  PROVE  StepOK(r)
<1>1. requests[r].pc \in Ops \ {"execute"}
  BY DEF HandleReview, Ops, ApiOps, Reviews
<1>2. Of(r) = {} /\ Busy(r) /\ Input(r).op # "execute" /\ ~ Previews(r)
  BY <1>1, WhereItIs
<1>3. CASE Says(r, "not_found") \/ Says(r, "conflict")
  BY <1>2, <1>3, SaysOK DEF Replies, Clean
<1>4. ASSUME rows.proposal = "proposed", NEW op \in Reviews, NEW new,
             new = [rows EXCEPT !.proposal = IF op = "approve" THEN "approved" ELSE "rejected"],
             Writes(r, op, new)
      PROVE  StepOK(r)
  <2>1. /\ new \in RowType /\ new.proposal # "proposed"
        /\ op \in Refusals => new.proposal = "rejected"
    BY <1>4 DEF CallInv, TypeInv, RowType, Refusals
  <2>2. op \in Writings
    BY DEF Writings
  <2>3. /\ RequestInv(r)' /\ TypeInv'
        /\ \A s \in Callers \ {r} : requests'[s] = requests[s]
        /\ requests'[r].pc = "answered"
        /\ \/ rows' = rows /\ committed' = committed
           \/ rows' = new /\ committed' = committed \cup {Written(r, op)}
    BY <1>2, <1>4, <2>1, <2>2, ProposalWrites
  <2>4. Written(r, op).call = r /\ Written(r, op).what = op
    BY DEF Written
  <2>5. \A s \in Callers : ~ At(s, "apply")'
    BY <1>4, <2>3 DEF CallInv, ProposalInv, At
  <2>6. \A e \in committed : e.what \notin Reviews \cup Executions
    BY <1>4 DEF CallInv, ProposalInv
  <2>7. op \notin Executions /\ Refusals \subseteq Reviews
    BY DEF Reviews, Executions, Refusals
  <2>8. ProposalInv'
    <3>1. CASE committed' = committed
      BY <2>5, <2>6, <2>7, <3>1 DEF ProposalInv
    <3>2. CASE rows' = new /\ committed' = committed \cup {Written(r, op)}
      BY <2>1, <2>4, <2>5, <2>6, <2>7, <3>2 DEF ProposalInv
    <3>3. QED
      BY <2>3, <3>1, <3>2
  <2>9. QED
    BY <2>3, <2>4, <2>8 DEF StepOK
<1>5. QED
  BY <1>3, <1>4 DEF HandleReview

\* A preview ends here; a live execution has seen an approved proposal.
LEMMA ExecuteOK ==
  ASSUME NEW r \in Callers, CallInv(r), HandleExecute(r)
  PROVE  StepOK(r)
<1>1. requests[r].pc = "execute" /\ requests[r].pc \in Ops
  BY DEF HandleExecute, At, Ops, ApiOps
<1>2. Of(r) = {} /\ Busy(r) /\ Input(r).op = "execute"
  BY <1>1, WhereItIs
<1>3. \/ \E a \in {"error", "not_found", "forbidden", "previewed"} : Says(r, a)
      \/ ~ DryRun(Input(r)) /\ rows.proposal = "approved" /\ Continues(r, "apply")
  BY DEF HandleExecute
<1>4. ASSUME NEW a \in {"error", "not_found", "forbidden", "previewed"}, Says(r, a)
      PROVE  StepOK(r)
  <2>1. a \in Replies /\ (a \in Clean \/ a \in Unknown)
    BY DEF Replies, Clean, Unknown
  <2>2. QED
    BY <1>2, <1>4, <2>1, SaysOK
<1>5. ASSUME ~ DryRun(Input(r)), rows.proposal = "approved", Continues(r, "apply")
      PROVE  StepOK(r)
  <2>1. Unwritten /\ Becomes(r, "apply", requests[r].answer, requests[r].hidden)
    BY <1>5, ContinuesBecomes DEF CallInv, Places, Later
  <2>2. ~ Previews(r)
    BY <1>2, <1>5 DEF DryRun, Previews
  <2>3. RequestInv(r)'
    BY <1>2, <2>1, <2>2, GoesStep DEF CallInv, Busy, Later
  <2>4. \A e \in committed : e.what \notin Refusals
    BY <1>5 DEF CallInv, ProposalInv
  <2>5. ProposalInv'
    BY <1>5, <2>1, <2>4 DEF CallInv, ProposalInv, Unwritten
  <2>6. QED
    BY <2>1, <2>3, <2>5 DEF StepOK, CallInv, TypeInv, Unwritten, Becomes
<1>6. QED
  BY <1>3, <1>4, <1>5

\* Whoever is to write the outcome has loaded a proposal that nobody refused.
LEMMA ExecutedOK ==
  ASSUME GatewayAssumption, NEW r \in Callers, CallInv(r), ExecuteForReal(r)
  PROVE  StepOK(r)
<1>1. At(r, "apply") /\ requests[r].pc = "apply"
  BY DEF ExecuteForReal, At
<1>2. Busy(r) /\ ~ Previews(r)
  BY <1>1, WhereItIs DEF Later, CallInv, RequestInv, PlaceInv
<1>0. PICK outcome \in Executions : Writes(r, outcome, [rows EXCEPT !.proposal = outcome])
  BY DEF ExecuteForReal, Outcomes, Executions
<1>3. PICK new : new = [rows EXCEPT !.proposal = outcome] /\ Writes(r, outcome, new)
  BY <1>0
<1>4. new \in RowType /\ new.proposal = outcome /\ outcome # "proposed"
  BY <1>3 DEF CallInv, TypeInv, RowType, Executions
<1>5. /\ RequestInv(r)' /\ TypeInv'
      /\ \A s \in Callers \ {r} : requests'[s] = requests[s]
      /\ requests'[r].pc = "answered"
      /\ \/ rows' = rows /\ committed' = committed
         \/ rows' = new /\ committed' = committed \cup {Written(r, outcome)}
  BY <1>2, <1>3, <1>4, ProposalWrites DEF Writings, Executions
<1>6. Written(r, outcome).call = r /\ Written(r, outcome).what = outcome
  BY DEF Written
<1>7. \A e \in committed : e.what \notin Refusals
  BY <1>1 DEF CallInv, ProposalInv
<1>8. outcome \notin Reviews /\ Refusals \subseteq Reviews
  BY DEF Reviews, Executions, Refusals
<1>9. \A s \in Callers : At(s, "apply")' => At(s, "apply")
  BY <1>5 DEF At
<1>10. ProposalInv'
  <2>1. CASE rows' = rows /\ committed' = committed
    BY <1>7, <1>9, <2>1 DEF CallInv, ProposalInv
  <2>2. CASE rows' = new /\ committed' = committed \cup {Written(r, outcome)}
    BY <1>4, <1>6, <1>7, <1>8, <1>9, <2>2 DEF CallInv, ProposalInv
  <2>3. QED
    BY <1>5, <2>1, <2>2
<1>11. QED
  BY <1>5, <1>6, <1>10 DEF StepOK

\* The goroutine of a pipeline run that was answered as started.
LEMMA BackgroundOK ==
  ASSUME GatewayAssumption, NEW r \in Callers, CallInv(r), RunInBackground(r)
  PROVE  StepOK(r)
<1> DEFINE e == [call |-> r, what |-> "run", by |-> Nil]
<1>1. /\ requests[r].pc = "answered" /\ requests[r].answer = "started"
      /\ committed' = committed \cup {e} /\ UNCHANGED <<rows, requests>>
  BY DEF RunInBackground, At
<1>2. e.call = r /\ e.what = "run"
  OBVIOUS
<1>3. e.what \notin Reviews \cup Executions
  BY DEF Reviews, Executions
<1> HIDE DEF e
<1>4. ~ Previews(r) /\ PlaceInv(r)
  BY <1>1 DEF CallInv, RequestInv, PlaceInv
<1>5. PlaceInv(r)' /\ ~ Previews(r)'
  BY <1>1, <1>4 DEF PlaceInv, Previews, Input
<1>6. TraceInv(r)'
  BY <1>1, <1>5 DEF TraceInv, Ops, ApiOps, McpOps, Reviews, CaseReads, SandboxReads
<1>7. AnswerInv(r)'
  BY <1>1 DEF AnswerInv, Clean, Unknown
<1>8. ProposalInv'
  BY <1>1, <1>3, ProposalStays DEF CallInv
<1>9. QED
  BY <1>1, <1>2, <1>5, <1>6, <1>7, <1>8 DEF StepOK, CallInv, TypeInv, RequestInv

\* A request that is refused before any row is read, or that begins.
LEMMA ReceiveOK ==
  ASSUME GatewayAssumption, NEW r \in Callers, CallInv(r), Receive(r)
  PROVE  StepOK(r)
<1>1. PICK i, q :
        /\ i \in Inputs
        /\ i.op \in Offered(i.via) /\ requests' = [requests EXCEPT ![r] = q]
        /\ q = IF Refusal(i) = Nil THEN [NotSent EXCEPT !.pc = i.op, !.input = i]
               ELSE [NotSent EXCEPT !.pc = "answered", !.input = i, !.answer = Refusal(i)]
  BY DEF Receive
<1>2. i.op \in Ops
  BY <1>1 DEF Offered, Ops
<1>3. Refusal(i) \in {"unauthorized", "invalid", "tool_error", Nil}
  BY DEF Refusal
<1>4. /\ q.input = i /\ q.hidden = FALSE
      /\ \/ q.pc = i.op /\ q.answer = Nil
         \/ q.pc = "answered" /\ q.answer \in {"unauthorized", "invalid", "tool_error"}
  BY <1>1, <1>3 DEF NotSent
<1>5. q \in RequestType
  BY <1>1, <1>2, <1>3 DEF NotSent, RequestType, Places, Replies, Clean, Unknown
<1>6. /\ requests'[r] = q /\ \A s \in Callers \ {r} : requests'[s] = requests[s]
      /\ requests' \in [Callers -> RequestType] /\ UNCHANGED <<rows, committed>>
  BY <1>1, <1>5 DEF CallInv, TypeInv, Receive
<1>7. Of(r)' = {}
  BY <1>6 DEF CallInv, RequestInv, TraceInv, Receive, At, Of
<1>8. q.pc \in Ops \cup {"answered"} /\ q.pc # "apply"
  BY <1>2, <1>4 DEF Ops, ApiOps, McpOps, Reviews, CaseReads, SandboxReads
<1>9. PlaceInv(r)'
  <2>1. q.pc \notin Later
    BY <1>2, <1>4 DEF Ops, ApiOps, McpOps, Reviews, CaseReads, SandboxReads, Later
  <2>2. "answered" \notin Ops
    BY DEF Ops, ApiOps, McpOps, Reviews, CaseReads, SandboxReads
  <2>3. requests'[r].pc \in Ops => requests'[r].input.op = requests'[r].pc
    BY <1>4, <1>6, <2>2
  <2>4. q.answer # "started"
    BY <1>4 DEF GatewayAssumption
  <2>5. QED
    BY <1>4, <1>6, <1>8, <2>1, <2>3, <2>4 DEF PlaceInv, Input, Previews
<1>10. TraceInv(r)'
  BY <1>7 DEF TraceInv
<1>11. AnswerInv(r)'
  BY <1>4, <1>6, <1>7 DEF AnswerInv, Clean, Unknown
<1>12. ProposalInv'
  BY <1>6, <1>8, ProposalStays DEF CallInv
<1>13. QED
  BY <1>6, <1>9, <1>10, <1>11, <1>12 DEF StepOK, CallInv, TypeInv, RequestInv

\* The process stops, or the answer comes too late.
LEMMA LoseOK ==
  ASSUME GatewayAssumption, NEW r \in Callers, CallInv(r), Lose(r)
  PROVE  StepOK(r)
<1> DEFINE q == [requests[r] EXCEPT !.pc = "gone", !.answer = Nil]
<1>1. requests[r] \in RequestType /\ requests \in [Callers -> RequestType]
  BY DEF CallInv, TypeInv
<1>2. /\ q \in RequestType /\ q.pc = "gone" /\ q.answer = Nil /\ q.input = requests[r].input
  BY <1>1 DEF RequestType, Places, Replies
<1>3. requests' = [requests EXCEPT ![r] = q] /\ UNCHANGED <<rows, committed>>
  BY DEF Lose
<1> HIDE DEF q
<1>4. /\ requests'[r] = q /\ \A s \in Callers \ {r} : requests'[s] = requests[s]
      /\ requests' \in [Callers -> RequestType]
  BY <1>1, <1>2, <1>3
<1>5. Of(r)' = Of(r) /\ (Previews(r)' => Previews(r))
  BY <1>2, <1>3, <1>4 DEF Of, Previews, Input, Lose
<1>6. PlaceInv(r)'
  <2>1. "gone" \notin Ops \cup Later
    BY DEF Ops, ApiOps, McpOps, Reviews, CaseReads, SandboxReads, Later
  <2>2. q.answer # "started"
    BY <1>2 DEF GatewayAssumption
  <2>3. QED
    BY <1>2, <1>4, <2>1, <2>2 DEF PlaceInv
<1>7. TraceInv(r)'
  BY <1>2, <1>4, <1>5 DEF TraceInv, Ops, ApiOps, McpOps, Reviews, CaseReads, SandboxReads,
     CallInv, RequestInv
<1>8. AnswerInv(r)'
  BY <1>2, <1>4 DEF AnswerInv, GatewayAssumption
<1>9. ProposalInv'
  BY <1>2, <1>3, <1>4, ProposalStays DEF CallInv
<1>10. QED
  BY <1>3, <1>4, <1>6, <1>7, <1>8, <1>9 DEF StepOK, CallInv, TypeInv, RequestInv

-----------------------------------------------------------------------------
(* The theorem.                                                            *)

LEMMA CallOK ==
  ASSUME GatewayAssumption, NEW r \in Callers, CallInv(r),
         \/ Receive(r) \/ Fail(r) \/ Lose(r)
         \/ HandleReview(r) \/ HandleExecute(r) \/ ExecuteForReal(r)
         \/ HandleDecisionJSON(r) \/ HandleProposeAction(r)
         \/ HandleCancel(r) \/ CancelEvent(r) \/ HandleDispatch(r) \/ HandleBatchDispatch(r)
         \/ DispatchEach(r) \/ DispatchEvent(r)
         \/ CreateCase(r) \/ InsertCase(r) \/ BuildContext(r) \/ Read(r) \/ SaveDecision(r)
         \/ MarkDecided(r) \/ GenerateProposals(r) \/ HandleResolveCase(r)
         \/ CreateSandbox(r) \/ AddProposalToSandbox(r) \/ CompareSandbox(r)
         \/ StartPipeline(r) \/ RunInBackground(r) \/ RunPipeline(r)
  PROVE  StepOK(r)
<1>1. CASE Receive(r)
  BY <1>1, ReceiveOK
<1>2. CASE Fail(r)
  BY <1>2, FailOK
<1>3. CASE Lose(r)
  BY <1>3, LoseOK
<1>4. CASE HandleReview(r)
  BY <1>4, ReviewOK
<1>5. CASE HandleExecute(r)
  BY <1>5, ExecuteOK
<1>6. CASE ExecuteForReal(r)
  BY <1>6, ExecutedOK
<1>7. CASE HandleDecisionJSON(r) \/ SaveDecision(r) \/ MarkDecided(r)
  BY <1>7, StagesOK
<1>8. CASE HandleCancel(r) \/ HandleDispatch(r) \/ HandleBatchDispatch(r) \/ DispatchEach(r)
           \/ CreateCase(r)
  BY <1>8, TestsOK
<1>9. CASE \/ HandleProposeAction(r) \/ CancelEvent(r) \/ InsertCase(r) \/ GenerateProposals(r)
           \/ HandleResolveCase(r) \/ CreateSandbox(r) \/ AddProposalToSandbox(r) \/ RunPipeline(r)
  BY <1>9, WritersOK
<1>10. CASE BuildContext(r) \/ Read(r) \/ CompareSandbox(r) \/ StartPipeline(r)
  BY <1>10, ReadsOK
<1>11. CASE DispatchEvent(r)
  BY <1>11, DispatchOK
<1>12. CASE RunInBackground(r)
  BY <1>12, BackgroundOK
<1>13. QED
  BY <1>1, <1>2, <1>3, <1>4, <1>5, <1>6, <1>7, <1>8, <1>9, <1>10, <1>11, <1>12

LEMMA NextGatewayInv ==
  ASSUME GatewayAssumption, GatewayInv, [GatewayNext]_gatewayVars
  PROVE  GatewayInv'
<1>1. CASE GatewayNext
  <2>1. PICK r \in Callers : CallInv(r) /\ StepOK(r)
    <3>1. \A r \in Callers : CallInv(r)
      BY DEF GatewayInv, CallInv
    <3>2. QED
      BY <1>1, <3>1, CallOK DEF GatewayNext
  <2>2. \A s \in Callers \ {r} : RequestInv(s)'
    BY <2>1, OthersStay DEF GatewayInv, StepOK
  <2>3. QED
    BY <2>1, <2>2 DEF GatewayInv, StepOK
<1>2. CASE UNCHANGED gatewayVars
  BY <1>2 DEF gatewayVars, GatewayInv, TypeInv, ProposalInv, RequestInv, PlaceInv, TraceInv,
     AnswerInv, Previews, Of, Input, At
<1>3. QED
  BY <1>1, <1>2

LEMMA InitGatewayInv ==
  ASSUME GatewayAssumption, GatewayInit
  PROVE  GatewayInv
<1>1. NotSent \in RequestType /\ NotSent.pc = "idle" /\ NotSent.answer = Nil
  BY DEF NotSent, RequestType, Places, Replies
<1>2. TypeInv
  BY <1>1 DEF GatewayInit, TypeInv, GatewayAssumption
<1>3. \A r \in Callers : requests[r] = NotSent /\ Of(r) = {}
  BY DEF GatewayInit, Of
<1>4. ProposalInv
  BY <1>1, <1>3 DEF GatewayInit, ProposalInv, At
<1>5. "idle" \notin Ops \cup Later
  BY DEF Ops, ApiOps, McpOps, Reviews, CaseReads, SandboxReads, Later
<1>6. ASSUME NEW r \in Callers
      PROVE  RequestInv(r)
  BY <1>1, <1>3, <1>5 DEF GatewayAssumption, RequestInv, PlaceInv, TraceInv, AnswerInv, Previews
<1>7. QED
  BY <1>2, <1>4, <1>6 DEF GatewayInv

LEMMA GatewayInvAnswers ==
  ASSUME GatewayInv
  PROVE  AnswersFollowEffects
<1>1. ASSUME NEW r \in Callers
      PROVE  AnswerInv(r) /\ (Previews(r) => Of(r) = {})
  BY DEF GatewayInv, RequestInv, TraceInv
<1>2. ProposalInv
  BY DEF GatewayInv
<1>3. \A d, e \in {x \in committed : x.what \in Reviews} : d = e
  BY <1>2 DEF ProposalInv
<1>4. \A d, e \in committed : d.what \in Refusals => e.what \notin Executions
  BY <1>2 DEF ProposalInv
<1>5. QED
  BY <1>1, <1>3, <1>4 DEF AnswersFollowEffects, AnswerInv, Previews, Partial, Refusals, Executions

\* What a caller of either front end may conclude from its answer, for any
\* number of callers and any requests: a success names a row that was written
\* with that front end's actor, a refusal or a preview has left nothing, only
\* an error can hide a write; one review of the proposal is kept, and a
\* proposal that was rejected or cancelled is never executed.
THEOREM AnswersAgree == GatewaySpec => []AnswersFollowEffects
<1>1. GatewayInit => GatewayInv
  BY GatewayAssumption, InitGatewayInv
<1>2. GatewayInv /\ [GatewayNext]_gatewayVars => GatewayInv'
  BY GatewayAssumption, NextGatewayInv
<1>3. GatewayInv => AnswersFollowEffects
  BY GatewayInvAnswers
<1>4. QED
  BY <1>1, <1>2, <1>3, PTL DEF GatewaySpec

-----------------------------------------------------------------------------
(* Advice.                                                                 *)

\* What a refusal is for stays true.
Grounded(offer, reason) ==
  \/ reason = "role" /\ RoleRefused(offer)
  \/ reason = "active case" /\ CaseRefused(offer)
  \/ reason = "database"
  \/ ~ Advice(offer)

AdviceInv ==
  /\ ~ up => advised = {} /\ refusals = {}
  /\ \A offer \in advised : Advice(offer)
  /\ \A r \in refusals : Grounded(r[1], r[2])

\* Advice depends on the registry alone, a refusal also on the offers so far.
LEMMA AdviceStays ==
  ASSUME UNCHANGED registry, offered \subseteq offered', NEW offer
  PROVE  /\ Advice(offer)' <=> Advice(offer)
         /\ CaseRefused(offer) => CaseRefused(offer)'
         /\ RoleRefused(offer) => RoleRefused(offer)'
BY DEF Advice, CaseRefused, RoleRefused, Allowed

LEMMA AdviceStep ==
  ASSUME AdviceInv, [OntologyNext]_ontVars
  PROVE  AdviceInv'
<1>1. CASE \E files \in SchemaFiles : StartServer(files)
  BY <1>1 DEF StartServer, AdviceInv
<1>2. CASE UNCHANGED <<registry, up, offered, advised, refusals>>
  <2>1. \A offer : Advice(offer)' <=> Advice(offer)
    BY <1>2, AdviceStays
  <2>2. \A offer, reason : Grounded(offer, reason) => Grounded(offer, reason)'
    BY <1>2, AdviceStays DEF Grounded
  <2>3. QED
    BY <1>2, <2>1, <2>2 DEF AdviceInv
<1>3. ASSUME NEW offer \in Offers, ExecuteAction(offer)  PROVE AdviceInv'
  <2>1. UNCHANGED <<registry, up, offered, refusals>> /\ up
    BY <1>3 DEF ExecuteAction, Called
  <2>2. \A o : Advice(o)' <=> Advice(o)
    BY <2>1, AdviceStays
  <2>3. \A o, reason : Grounded(o, reason) => Grounded(o, reason)'
    BY <2>1, AdviceStays DEF Grounded
  <2>4. \A o \in advised' : Advice(o)
    BY <1>3 DEF ExecuteAction, AdviceInv
  <2>5. QED
    BY <2>1, <2>2, <2>3, <2>4 DEF AdviceInv
<1>4. ASSUME NEW offer \in Offers, ProposeOffer(offer)  PROVE AdviceInv'
  <2>1. UNCHANGED <<registry, up, advised>> /\ up /\ offered \subseteq offered'
    BY <1>4 DEF ProposeOffer, Called
  <2>2. \A o : Advice(o)' <=> Advice(o)
    BY <2>1, AdviceStays
  <2>3. \A o, reason : Grounded(o, reason) => Grounded(o, reason)'
    BY <2>1, AdviceStays DEF Grounded
  <2>4. Reason(offer) # Nil => Grounded(offer, Reason(offer))
    BY DEF Reason, Grounded, Advice
  <2>5. \A r \in refusals' : \/ r \in refusals \/ r = <<offer, "database">>
                             \/ Reason(offer) # Nil /\ r = <<offer, Reason(offer)>>
    BY <1>4 DEF ProposeOffer
  <2>6. \A o : Grounded(o, "database")
    BY DEF Grounded
  <2>7. \A r \in refusals' : Grounded(r[1], r[2])
    BY <2>4, <2>5, <2>6 DEF AdviceInv
  <2>8. QED
    BY <2>1, <2>2, <2>3, <2>7 DEF AdviceInv
<1>5. ASSUME NEW a \in Arrivals, AddRow(a[1], a[2])  PROVE AdviceInv'
  <2>1. UNCHANGED <<registry, up, offered, advised, refusals>>
    BY ONLY <1>5 DEF AddRow
  <2>2. QED
    BY ONLY <1>2, <2>1
<1>6. ASSUME NEW search \in Searches, OpenSearch(search)  PROVE AdviceInv'
  <2>1. UNCHANGED <<registry, up, offered, advised, refusals>>
    BY ONLY <1>6 DEF OpenSearch, Called
  <2>2. QED
    BY ONLY <1>2, <2>1
<1>7. ASSUME CountRows \/ FetchPage \/ SearchFails  PROVE AdviceInv'
  <2>1. UNCHANGED <<registry, up, offered, advised, refusals>>
    BY ONLY <1>7 DEF CountRows, FetchPage, SearchFails
  <2>2. QED
    BY ONLY <1>2, <2>1
<1>8. ASSUME NEW call \in Gets, GetObject(call) \/ GetLinkedObjects(call)  PROVE AdviceInv'
  <2>1. UNCHANGED <<registry, up, offered, advised, refusals>>
    BY ONLY <1>8 DEF GetObject, GetLinkedObjects, Called
  <2>2. QED
    BY ONLY <1>2, <2>1
<1>9. CASE UNCHANGED ontVars
  BY ONLY <1>2, <1>9 DEF ontVars
<1>10. QED
  BY <1>1, <1>3, <1>4, <1>5, <1>6, <1>7, <1>8, <1>9 DEF OntologyNext

\* What execute_action calls valid is refused by propose_action only because
\* of the server's role, because of a proposal on the same object, or because
\* the database failed.
THEOREM AdviceKept == OntologySpec => []AdviceIsKept
<1>1. OntologyInit => AdviceInv
  BY DEF OntologyInit, AdviceInv
<1>2. AdviceInv /\ [OntologyNext]_ontVars => AdviceInv'
  BY AdviceStep
<1>3. AdviceInv => AdviceIsKept
  BY DEF AdviceInv, AdviceIsKept, Grounded, CaseRefused
<1>4. QED
  BY <1>1, <1>2, <1>3, PTL DEF OntologySpec

-----------------------------------------------------------------------------
(* Answers.  The compiler is dropped, so that version 1 answers.           *)

PagingShape(p) ==
  p \in [type : {p.type}, query : {p.query}, size : {p.size}, got : {p.got}, total : {p.total},
         changed : BOOLEAN, lost : BOOLEAN, done : BOOLEAN]

ShownOpen(reg, o) ==
  /\ o.properties # None \/ o.metrics # None => TableAccessible(Role, o.table)
  /\ reg # Nil => \A p \in DOMAIN o.properties : IsLLMReadable(reg, o.type, p)

OpenInv ==
  /\ repo \in [inner : BOOLEAN, compiler : {FALSE}]
  /\ ~ up => repo.inner = FALSE /\ paging = Nil /\ answer = {}
  /\ \A o \in answer : ShownOpen(registry, o)
  /\ paging # Nil =>
       /\ PagingShape(paging)
       /\ paging.type \in DOMAIN ObjectTableMap
       /\ paging.total # Nil \/ paging.got # << >> => Open(paging.type)

LEMMA NeverCompiled ==
  ASSUME OpenInv
  PROVE  /\ \A type : ~ Compiled(type)
         /\ \A type, id : GetObjectByID(type, id) = ObjectsV1(type, id)
         /\ \A type : /\ SearchTable(type) = ObjectTableMap[type].table
                      /\ SearchKey(type) = ObjectTableMap[type].key
         /\ \A search : SearchFinds(search) = FoundRows(search.type, search.query)
BY DEF OpenInv, Compiled, GetObjectByID, SearchTable, SearchKey, SearchFinds

\* What version 1 answers is open, and is shown filtered.
LEMMA V1Open ==
  ASSUME NEW type, NEW id, NEW o \in ObjectsV1(type, id), NEW metrics
  PROVE  ShownOpen(registry, Shown(o, metrics))
<1>1. Open(type)
  BY DEF ObjectsV1
<1>2. o.table = ObjectTableMap[type].table /\ o.type = type
  BY <1>1 DEF ObjectsV1
<1>3. TableAccessible(Role, o.table)
  BY <1>1, <1>2 DEF Open
<1> DEFINE shown == Shown(o, metrics)
<1>4. /\ shown.table = o.table /\ shown.type = o.type
      /\ shown.properties = FilterProperties(registry, o.type, o.properties)
  BY DEF Shown
<1>5. registry # Nil => \A p \in DOMAIN shown.properties : IsLLMReadable(registry, o.type, p)
  BY <1>4 DEF FilterProperties
<1>6. QED
  BY <1>3, <1>4, <1>5 DEF ShownOpen

LEMMA OpenStep ==
  ASSUME OpenInv, [OntologyNext]_ontVars
  PROVE  OpenInv'
<1>1. ASSUME NEW files \in SchemaFiles, StartServer(files)  PROVE OpenInv'
  BY <1>1 DEF StartServer, SetV2Compiler, OpenInv
<1>2. ASSUME NEW a \in Arrivals, AddRow(a[1], a[2])  PROVE OpenInv'
  <2>1. UNCHANGED <<registry, repo, up, answer>>
    BY <1>2 DEF AddRow
  <2>2. CASE paging = Nil
    <3>1. paging' = Nil
      BY <1>2, <2>2 DEF AddRow
    <3>2. QED
      BY <2>1, <2>2, <3>1 DEF OpenInv
  <2>3. CASE paging # Nil
    <3> DEFINE hit == SearchTable(paging.type) = a[1]
    <3>1. paging' = [paging EXCEPT !.changed = @ \/ hit]
      BY <1>2, <2>3 DEF AddRow
    <3>2. PagingShape(paging) /\ paging.changed \in BOOLEAN /\ hit \in BOOLEAN
      BY <2>3 DEF OpenInv, PagingShape
    <3> HIDE DEF hit
    <3>3. /\ PagingShape(paging') /\ paging'.type = paging.type
          /\ paging'.total = paging.total /\ paging'.got = paging.got
      BY <3>1, <3>2 DEF PagingShape
    <3>4. up
      BY <2>3 DEF OpenInv
    <3>5. QED
      BY <2>1, <2>3, <3>3, <3>4 DEF OpenInv, Open
  <2>4. QED
    BY <2>2, <2>3
<1>3. ASSUME NEW search \in Searches, OpenSearch(search)  PROVE OpenInv'
  <2>1. /\ UNCHANGED <<registry, repo, up, answer>> /\ up
        /\ search.type \in DOMAIN ObjectTableMap
        /\ paging' = [type |-> search.type, query |-> search.query,
                      size |-> PageSize(search.limit), got |-> << >>, total |-> Nil,
                      changed |-> FALSE, lost |-> FALSE, done |-> FALSE]
    BY <1>3 DEF OpenSearch
  <2>2. /\ PagingShape(paging') /\ paging'.type = search.type
        /\ paging'.total = Nil /\ paging'.got = << >>
    BY <2>1 DEF PagingShape
  <2>3. QED
    BY <2>1, <2>2 DEF OpenInv
<1>4. ASSUME CountRows  PROVE OpenInv'
  <2>1. /\ UNCHANGED <<registry, up, answer>> /\ up /\ paging # Nil /\ Open(paging.type)
        /\ PagingShape(paging) /\ repo' = [repo EXCEPT !.inner = TRUE]
        /\ paging.type \in DOMAIN ObjectTableMap
    BY <1>4, NeverCompiled DEF CountRows, Paging, EnsureInitialized, OpenInv
  <2>2. PICK total : paging' = [paging EXCEPT !.total = total]
    BY <1>4 DEF CountRows
  <2>3. PagingShape(paging') /\ paging'.type = paging.type
    BY <2>1, <2>2 DEF PagingShape
  <2>4. QED
    BY <2>1, <2>3 DEF OpenInv, Open
<1>5. ASSUME FetchPage  PROVE OpenInv'
  <2>1. /\ UNCHANGED <<registry, repo, up, answer>> /\ up /\ paging # Nil
        /\ PagingShape(paging) /\ paging.type \in DOMAIN ObjectTableMap /\ Open(paging.type)
    BY <1>5 DEF FetchPage, Paging, OpenInv
  <2>2. PICK got, done :
          /\ paging' = [paging EXCEPT !.got = got, !.total = Nil, !.done = done]
          /\ done \in BOOLEAN
    <3>1. \E got, page : paging' = [paging EXCEPT !.got = got, !.total = Nil,
                                     !.done = page = << >> \/ Len(got) >= paging.total]
      BY <1>5, Zenon DEF FetchPage
    <3>2. QED
      BY <3>1, Zenon
  <2>3. PagingShape(paging') /\ paging'.type = paging.type
    BY <2>1, <2>2 DEF PagingShape
  <2>4. QED
    BY <2>1, <2>3 DEF OpenInv, Open
<1>6. ASSUME SearchFails  PROVE OpenInv'
  <2>1. /\ UNCHANGED <<registry, up, answer>> /\ up /\ paging # Nil
        /\ PagingShape(paging) /\ repo' = [repo EXCEPT !.inner = TRUE]
        /\ paging' = [paging EXCEPT !.lost = TRUE, !.done = TRUE]
    BY <1>6 DEF SearchFails, Paging, EnsureInitialized, OpenInv
  <2>2. /\ PagingShape(paging') /\ paging'.type = paging.type
        /\ paging'.total = paging.total /\ paging'.got = paging.got
    BY <2>1 DEF PagingShape
  <2>3. QED
    BY <2>1, <2>2 DEF OpenInv, Open
<1>7. ASSUME UNCHANGED <<registry, up, paging>>, up,
             repo' \in {repo, [repo EXCEPT !.inner = TRUE]},
             \A o \in answer' : ShownOpen(registry, o)
      PROVE  OpenInv'
  BY <1>7 DEF OpenInv, Open, ShownOpen
<1>8. ASSUME NEW call \in Gets, GetObject(call)  PROVE OpenInv'
  <2>1. UNCHANGED <<registry, up, paging>> /\ up /\ repo' = [repo EXCEPT !.inner = TRUE]
    BY <1>8 DEF GetObject, Called, EnsureInitialized
  <2>2. \A o \in answer' : ShownOpen(registry, o)
    BY <1>8, NeverCompiled, V1Open DEF GetObject
  <2>3. QED
    BY <1>7, <2>1, <2>2
<1>9. ASSUME NEW call \in Gets, GetLinkedObjects(call)  PROVE OpenInv'
  <2>1. UNCHANGED <<registry, up, paging>> /\ up /\ repo' \in {repo, [repo EXCEPT !.inner = TRUE]}
    BY <1>9 DEF GetLinkedObjects, Called, EnsureInitialized
  <2>2. \A link : \A o \in LinkedV2(call, link) : ShownOpen(registry, o)
    BY DEF LinkedV2, ShownOpen, None
  <2>3. \A source, link : \A o \in LinkedV1(source, link) : ShownOpen(registry, o)
    BY NeverCompiled, V1Open DEF LinkedV1
  <2>4. \A o \in answer' : \/ \E link : o \in LinkedV2(call, link)
                           \/ \E source, link : o \in LinkedV1(source, link)
    <3>1. CASE LinkPlans(call.type, call.link) # {}
      BY <1>9, <3>1 DEF GetLinkedObjects
    <3>2. CASE LinkPlans(call.type, call.link) = {}
      <4> DEFINE links == IF call.type \notin DOMAIN registry.v1 THEN {}
                          ELSE {l \in registry.v1[call.type].links : call.link \in {"", l.name}}
      <4>1. \/ answer' = {}
            \/ \E source : \E found \in SUBSET UNION {LinkedV1(source, l) : l \in links} :
                 answer' = found
        BY <1>9, <3>2 DEF GetLinkedObjects
      <4> HIDE DEF links
      <4>2. QED
        BY <4>1
    <3>3. QED
      BY <3>1, <3>2
  <2>5. QED
    BY <1>7, <2>1, <2>2, <2>3, <2>4
<1>10. ASSUME UNCHANGED <<registry, repo, up, paging, answer>>  PROVE OpenInv'
  BY <1>10 DEF OpenInv, Open, ShownOpen
<1>11. \A offer : ExecuteAction(offer) \/ ProposeOffer(offer) =>
         UNCHANGED <<registry, repo, up, paging, answer>>
  BY DEF ExecuteAction, ProposeOffer, Called
<1>12. CASE UNCHANGED ontVars
  BY <1>10, <1>12 DEF ontVars
<1>13. QED
  BY <1>1, <1>2, <1>3, <1>4, <1>5, <1>6, <1>8, <1>9, <1>10, <1>11, <1>12 DEF OntologyNext

LEMMA AnswerStart == OntologyInit => OpenInv
BY DEF OntologyInit, OpenInv

\* Whatever path answers a call, objects and keys are served only from tables
\* that are open to the role the server queries with, and with a registry only
\* readable properties are shown.
THEOREM AnswersOpen == OntologySpec => []AnswersAreOpen
<1>1. OpenInv => AnswersAreOpen
  BY NeverCompiled DEF OpenInv, AnswersAreOpen, ShownOpen, Open
<1>2. QED
  BY <1>1, AnswerStart, OpenStep, PTL DEF OntologySpec

-----------------------------------------------------------------------------
(* Pages.  The keys have ranks, and a page holds the keys of the ranks that *)
(* come next.                                                              *)

Rank(keys, k) == Cardinality({x \in keys : x <= k})

Ranked(keys, got, first) == \A i \in 1 .. Len(got) : Rank(keys, got[i]) = first + i

\* In any order that ORDER BY admits a row's place is the rank of its key, if
\* the keys are different.
Ascending(order, key, n) ==
  /\ \A i, j \in 1 .. n : i # j => order[i] # order[j]
  /\ \A i, j \in 1 .. n : i < j => key[order[i]] <= key[order[j]]

LEMMA RankInOrder ==
  ASSUME NEW F, IsFiniteSet(F), NEW key \in [F -> Int],
         Cardinality(Range(key)) = Cardinality(F),
         NEW order \in [1 .. Cardinality(F) -> F], Ascending(order, key, Cardinality(F)),
         NEW i \in 1 .. Cardinality(F)
  PROVE  /\ key[order[i]] \in Range(key)
         /\ Rank(Range(key), key[order[i]]) = i
<1>0. /\ \A a, b \in 1 .. Cardinality(F) : a # b => order[a] # order[b]
      /\ \A a, b \in 1 .. Cardinality(F) : a < b => key[order[a]] <= key[order[b]]
  BY DEF Ascending
<1> DEFINE n == Cardinality(F)  K == Range(key)  k == key[order[i]]
           below == {x \in K : x <= k}
           place == [j \in 1 .. i |-> key[order[j]]]
<1>1. n \in Nat
  BY FS_CardinalityType
<1>2. key \in Surjection(F, K) /\ K \subseteq Int
  BY DEF Range, Surjection
<1>3. key \in Injection(F, K)
  BY <1>2, FS_Surjection
<1>4. \A a, b \in F : key[a] = key[b] => a = b
  BY <1>3 DEF Injection, IsInjective
<1>5. order \in Injection(1 .. n, F)
  BY <1>0 DEF Injection, IsInjective
<1>6. Cardinality(1 .. n) = n /\ IsFiniteSet(1 .. n)
  BY <1>1, FS_Interval
<1>7. order \in Surjection(1 .. n, F)
  BY <1>5, <1>6, FS_Injection
<1> HIDE DEF n
<1>8. \A j \in 1 .. i : j \in 1 .. n
  BY <1>1 DEF n
<1>9. place \in [1 .. i -> below]
  <2>1. \A j \in 1 .. i : order[j] \in F /\ key[order[j]] \in K
    BY <1>8 DEF n, Range
  <2>2. \A j \in 1 .. i : key[order[j]] <= k
    <3> TAKE j \in 1 .. i
    <3>1. CASE j = i
      BY <1>2, <2>1, <3>1
    <3>2. CASE j # i
      BY <1>0, <1>1, <1>8, <3>2 DEF n
    <3>3. QED
      BY <3>1, <3>2
  <2>3. QED
    BY <2>1, <2>2
<1>10. \A a, b \in 1 .. i : place[a] = place[b] => a = b
  BY <1>0, <1>4, <1>8 DEF n
<1>11. ASSUME NEW x \in below  PROVE \E j \in 1 .. i : place[j] = x
  <2>1. PICK a \in F : x = key[a]
    BY DEF Range
  <2>2. PICK j \in 1 .. n : order[j] = a
    BY <1>7 DEF Surjection
  <2>3. CASE j <= i
    BY <1>1, <2>1, <2>2, <2>3
  <2>4. CASE i < j
    <3>1. k <= x
      BY <1>0, <2>1, <2>2, <2>4 DEF n
    <3>2. x = k /\ a = order[i]
      BY <1>2, <1>4, <2>1, <3>1
    <3>3. QED
      BY <1>0, <1>1, <2>2, <2>4, <3>2 DEF n
  <2>5. QED
    BY <1>1, <2>3, <2>4 DEF n
<1> HIDE DEF below, place
<1>12. place \in Bijection(1 .. i, below)
  <2>1. place \in Injection(1 .. i, below)
    BY <1>9, <1>10 DEF Injection, IsInjective
  <2>2. place \in Surjection(1 .. i, below)
    BY <1>9, <1>11 DEF Surjection
  <2>3. QED
    BY <2>1, <2>2 DEF Bijection
<1>13. Cardinality(1 .. i) = i /\ IsFiniteSet(1 .. i)
  BY <1>1, <1>8, FS_Interval DEF n
<1>14. Cardinality(below) = i
  BY <1>12, <1>13, FS_Bijection DEF ExistsBijection
<1>15. k \in K
  BY <1>1 DEF n, Range
<1>16. QED
  BY <1>14, <1>15 DEF Rank, below

\* Keys of the ranks 1 to n are all of them, each once.
LEMMA AllRanks ==
  ASSUME NEW keys, IsFiniteSet(keys), NEW got \in Seq(keys), Len(got) = Cardinality(keys),
         \A i \in 1 .. Len(got) : Rank(keys, got[i]) = i
  PROVE  Range(got) = keys /\ Distinct(got)
<1> DEFINE n == Len(got)
<1>1. n \in Nat /\ DOMAIN got = 1 .. n /\ got \in [1 .. n -> keys]
  OBVIOUS
<1>2. \A i, j \in 1 .. n : got[i] = got[j] => i = j
  OBVIOUS
<1>3. got \in Injection(1 .. n, keys)
  BY <1>1, <1>2 DEF Injection, IsInjective
<1>4. Cardinality(1 .. n) = n /\ IsFiniteSet(1 .. n)
  BY <1>1, FS_Interval
<1>5. got \in Surjection(1 .. n, keys)
  BY <1>3, <1>4, FS_Injection
<1>6. Range(got) = keys
  BY <1>1, <1>5 DEF Surjection, Range
<1>7. QED
  BY <1>6 DEF Distinct

\* The keys of the rows that a search finds, by the places of the rows.
KeyOf(type, query) ==
  [i \in FoundRows(type, query) |->
     tables[ObjectTableMap[type].table][i][ObjectTableMap[type].key]]

Exact(p, key, n) ==
  Cardinality(Range(key)) = n =>
    /\ p.got \in Seq(Range(key)) /\ Len(p.got) <= n
    /\ Ranked(Range(key), p.got, 0)
    /\ p.total # Nil => p.total = n
    /\ p.done /\ ~ p.lost => Len(p.got) = n

AnyRow == UNION {RowsOf(table) : table \in DOMAIN Contents}

TablesOK ==
  /\ tables \in [DOMAIN Contents -> Seq(AnyRow)]
  /\ \A table \in DOMAIN Contents : \A i \in DOMAIN tables[table] :
       tables[table][i] \in RowsOf(table)

PageInv ==
  paging # Nil =>
    /\ paging.size \in Nat \ {0}
    /\ \E search \in Searches : search.type = paging.type /\ search.query = paging.query
    /\ paging.done /\ ~ paging.lost => Open(paging.type)
    /\ Open(paging.type) /\ ~ paging.changed =>
         Exact(paging, KeyOf(paging.type, paging.query),
               Cardinality(FoundRows(paging.type, paging.query)))

PagingInv == OpenInv /\ TablesOK /\ PageInv

\* The rows that a search may find are finitely many, and have numbers as keys.
LEMMA KeysAreNumbers ==
  ASSUME TablesOK, NEW search \in Searches, NEW type, type = search.type,
         type \in DOMAIN ObjectTableMap, Open(type), NEW query
  PROVE  /\ IsFiniteSet(FoundRows(type, query))
         /\ Cardinality(FoundRows(type, query)) \in Nat
         /\ KeyOf(type, query) \in [FoundRows(type, query) -> Int]
         /\ FoundRows(type, query) \subseteq DOMAIN tables[ObjectTableMap[type].table]
<1> DEFINE table == ObjectTableMap[type].table  listed == tables[table]
           F == FoundRows(type, query)
<1>1. table \in DOMAIN Contents /\ listed \in Seq(AnyRow)
  BY OntologyAssumption DEF OntologyAssumption, TablesOK
<1>2. F \subseteq DOMAIN listed
  BY DEF FoundRows
<1>3. DOMAIN listed = 1 .. Len(listed) /\ Len(listed) \in Nat
  BY <1>1
<1>4. IsFiniteSet(DOMAIN listed)
  BY <1>3, FS_Interval
<1>5. IsFiniteSet(F)
  BY <1>2, <1>4, FS_Subset
<1>6. Cardinality(F) \in Nat
  BY <1>5, FS_CardinalityType
<1>7. \A i \in F : listed[i][ObjectTableMap[type].key] \in Int
  <2> TAKE i \in F
  <2>1. listed[i] \in RowsOf(table)
    BY <1>1, <1>2 DEF TablesOK
  <2>2. \A row \in RowsOf(table) : row[ObjectTableMap[type].key] \in Int
    BY OntologyAssumption DEF OntologyAssumption
  <2>3. QED
    BY <2>1, <2>2
<1>8. QED
  BY <1>2, <1>5, <1>6, <1>7 DEF KeyOf

\* What the keys depend on.
LEMMA KeysStay ==
  ASSUME NEW type, NEW query,
         tables'[ObjectTableMap[type].table] = tables[ObjectTableMap[type].table]
  PROVE  /\ FoundRows(type, query)' = FoundRows(type, query)
         /\ KeyOf(type, query)' = KeyOf(type, query)
BY DEF FoundRows, KeyOf

LEMMA PagingStays ==
  ASSUME PagingInv, UNCHANGED <<tables, paging>>, OpenInv'
  PROVE  PagingInv'
<1>1. TablesOK'
  BY DEF PagingInv, TablesOK
<1>2. PageInv'
  <2>1. \A type, query : /\ FoundRows(type, query)' = FoundRows(type, query)
                        /\ KeyOf(type, query)' = KeyOf(type, query)
    BY KeysStay
  <2>2. paging # Nil => /\ FoundRows(paging.type, paging.query)' = FoundRows(paging.type, paging.query)
                        /\ KeyOf(paging.type, paging.query)' = KeyOf(paging.type, paging.query)
    BY DEF FoundRows, KeyOf
  <2>3. QED
    BY <2>2 DEF PagingInv, PageInv, Open
<1>3. QED
  BY <1>1, <1>2 DEF PagingInv

LEMMA AddRowPaging ==
  ASSUME PagingInv, OpenInv', NEW a \in Arrivals, AddRow(a[1], a[2])
  PROVE  PagingInv'
<1>1. TablesOK'
  <2>1. tables' = [tables EXCEPT ![a[1]] = Append(@, a[2])] /\ TablesOK
    BY DEF AddRow, PagingInv
  <2>2. CASE a[1] \notin DOMAIN Contents
    BY <2>1, <2>2 DEF TablesOK
  <2>3. CASE a[1] \in DOMAIN Contents
    <3> DEFINE old == tables[a[1]]  all == Append(old, a[2])
    <3>1. a[2] \in RowsOf(a[1]) /\ a[2] \in AnyRow
      BY <2>3 DEF RowsOf, AnyRow
    <3>2. old \in Seq(AnyRow)
      BY <2>1, <2>3 DEF TablesOK
    <3>3. /\ all \in Seq(AnyRow)
          /\ \A i \in DOMAIN all : (i \in DOMAIN old /\ all[i] = old[i]) \/ all[i] = a[2]
      BY <3>1, <3>2
    <3> HIDE DEF all
    <3>4. tables' = [tables EXCEPT ![a[1]] = all]
      BY <2>1 DEF all
    <3>5. QED
      BY <2>1, <2>3, <3>1, <3>3, <3>4 DEF TablesOK
  <2>4. QED
    BY <2>2, <2>3
<1>2. PageInv'
  <2>1. CASE paging = Nil
    BY <2>1 DEF AddRow, PageInv
  <2>2. CASE paging # Nil
    <3> DEFINE hit == SearchTable(paging.type) = a[1]  t == paging.type  q == paging.query
    <3>1. paging' = [paging EXCEPT !.changed = @ \/ hit]
      BY <2>2 DEF AddRow
    <3>2. PagingShape(paging) /\ hit \in BOOLEAN
      BY <2>2 DEF PagingInv, OpenInv
    <3> HIDE DEF hit
    <3>3. /\ paging'.type = t /\ paging'.query = q /\ paging'.size = paging.size
          /\ paging'.got = paging.got /\ paging'.total = paging.total
          /\ paging'.done = paging.done /\ paging'.lost = paging.lost
          /\ paging'.changed = (paging.changed \/ hit) /\ paging.changed \in BOOLEAN
      BY <3>1, <3>2 DEF PagingShape
    <3>4. Open(t) /\ ~ hit =>
            tables'[ObjectTableMap[t].table] = tables[ObjectTableMap[t].table]
      <4>1. SearchTable(t) = ObjectTableMap[t].table
        BY NeverCompiled DEF PagingInv
      <4>2. \A table \in DOMAIN Contents : table # a[1] => tables'[table] = tables[table]
        BY DEF AddRow, PagingInv, TablesOK
      <4>3. Open(t) => ObjectTableMap[t].table \in DOMAIN Contents
        BY OntologyAssumption DEF OntologyAssumption, Open
      <4>4. QED
        BY <4>1, <4>2, <4>3 DEF hit
    <3>5. Open(t) /\ ~ hit => /\ FoundRows(paging.type, paging.query)' = FoundRows(t, q)
                   /\ KeyOf(paging.type, paging.query)' = KeyOf(t, q)
      BY <3>3, <3>4 DEF FoundRows, KeyOf
    <3>6. PageInv /\ (Open(paging.type)' <=> Open(t))
      BY <3>3 DEF PagingInv, Open
    <3>7. QED
      BY <2>2, <3>3, <3>5, <3>6 DEF PageInv, Exact
  <2>3. QED
    BY <2>1, <2>2
<1>3. QED
  BY <1>1, <1>2 DEF PagingInv

\* A page is a piece of the order.
LEMMA PageOf ==
  ASSUME NEW F, NEW n \in Nat, NEW order \in [1 .. n -> F],
         NEW m \in Nat, NEW e \in Nat, m <= e, e <= n
  PROVE  /\ SubSeq(order, m + 1, e) \in Seq(F)
         /\ Len(SubSeq(order, m + 1, e)) = e - m
         /\ \A i \in 1 .. e - m : SubSeq(order, m + 1, e)[i] = order[m + i]
<1> DEFINE page == SubSeq(order, m + 1, e)
<1>1. order \in Seq(F)
  OBVIOUS
<1>2. \A i \in m + 1 .. e : order[i] \in F
  OBVIOUS
<1>3. m + 1 \in Int /\ e \in Int
  OBVIOUS
<1>4. /\ page \in Seq(F) /\ Len(page) = IF m + 1 <= e THEN e - (m + 1) + 1 ELSE 0
      /\ \A i \in 1 .. e - (m + 1) + 1 : page[i] = order[(m + 1) + i - 1]
  BY <1>2, <1>3, SubSeqProperties
<1> HIDE DEF page
<1>5. \A i \in 1 .. e - m : page[i] = order[m + i]
  BY <1>4
<1>6. Len(page) = e - m
  BY <1>4
<1>7. QED
  BY <1>4, <1>5, <1>6 DEF page

\* Ranks of what was there and of what is added.
LEMMA RanksOfBoth ==
  ASSUME NEW K, NEW old \in Seq(K), NEW next \in Seq(K),
         Ranked(K, old, 0), Ranked(K, next, Len(old))
  PROVE  /\ old \o next \in Seq(K) /\ Len(old \o next) = Len(old) + Len(next)
         /\ Ranked(K, old \o next, 0)
<1>1. Len(old) \in Nat /\ Len(next) \in Nat
  OBVIOUS
<1>2. old \o next \in Seq(K) /\ Len(old \o next) = Len(old) + Len(next)
  OBVIOUS
<1>3. ASSUME NEW i \in 1 .. Len(old) + Len(next)  PROVE Rank(K, (old \o next)[i]) = i
  <2>1. CASE i <= Len(old)
    <3>1. (old \o next)[i] = old[i] /\ i \in 1 .. Len(old)
      BY <1>1, <2>1
    <3>2. QED
      BY <3>1 DEF Ranked
  <2>2. CASE ~ (i <= Len(old))
    <3>1. i - Len(old) \in 1 .. Len(next) /\ Len(old) + (i - Len(old)) = i
      BY <1>1, <2>2
    <3>2. (old \o next)[i] = next[i - Len(old)]
      BY <1>1, <2>2
    <3>3. QED
      BY <3>1, <3>2 DEF Ranked
  <2>3. QED
    BY <2>1, <2>2
<1>4. QED
  BY <1>2, <1>3 DEF Ranked

\* A page holds the keys of the ranks that come next.
KeysOnPage(key, page) == [i \in DOMAIN page |-> key[page[i]]]

Ranks(keys, key, order, n) ==
  \A i \in 1 .. n : key[order[i]] \in keys /\ Rank(keys, key[order[i]]) = i

PageAfter(order, offset, size, n) == SubSeq(order, offset + 1, Smaller(offset + size, n))

NextPageOf(F, n, K, key, order, old, size, page, next) ==
  /\ n \in Nat /\ key \in [F -> Int] /\ order \in [1 .. n -> F] /\ Ranks(K, key, order, n)
  /\ old \in Seq(K) /\ Len(old) <= n /\ Ranked(K, old, 0)
  /\ size \in Nat \ {0}
  /\ page = PageAfter(order, Len(old), size, n)
  /\ next = KeysOnPage(key, page)

LEMMA NextRanks ==
  ASSUME NEW F, NEW n, NEW K, NEW key, NEW order, NEW old, NEW size, NEW page, NEW next,
         NextPageOf(F, n, K, key, order, old, size, page, next)
  PROVE  /\ old \o next \in Seq(K) /\ Len(old \o next) <= n
         /\ Ranked(K, old \o next, 0)
         /\ page = << >> \/ Len(old \o next) >= n => Len(old \o next) = n
<1> DEFINE m == Len(old)  e == Smaller(m + size, n)
<1>0. /\ n \in Nat /\ key \in [F -> Int] /\ order \in [1 .. n -> F] /\ Ranks(K, key, order, n)
      /\ old \in Seq(K) /\ Len(old) <= n /\ Ranked(K, old, 0) /\ size \in Nat \ {0}
      /\ page = PageAfter(order, Len(old), size, n) /\ next = KeysOnPage(key, page)
  BY DEF NextPageOf
<1>1. /\ m \in Nat /\ e \in Nat /\ e <= n /\ m <= e
      /\ e = m => m = n
  BY <1>0 DEF Smaller
<1> HIDE DEF e
<1>2. page = SubSeq(order, m + 1, e)
  BY <1>0 DEF e, PageAfter
<1>3. /\ page \in Seq(F) /\ Len(page) = e - m
      /\ \A i \in 1 .. e - m : page[i] = order[m + i]
  <2> HIDE DEF m
  <2>1. /\ SubSeq(order, m + 1, e) \in Seq(F)
        /\ Len(SubSeq(order, m + 1, e)) = e - m
        /\ \A i \in 1 .. e - m : SubSeq(order, m + 1, e)[i] = order[m + i]
    BY ONLY <1>0, <1>1, PageOf
  <2>2. QED
    BY ONLY <1>2, <2>1
<1>4. \A i \in 1 .. e - m : m + i \in 1 .. n
  BY <1>0, <1>1
<1>5. \A i \in 1 .. Len(page) : key[page[i]] \in K /\ Rank(K, key[page[i]]) = m + i
  BY <1>0, <1>3, <1>4 DEF Ranks
<1>6. /\ next \in Seq(K) /\ Len(next) = Len(page)
      /\ \A i \in 1 .. Len(page) : next[i] = key[page[i]]
  <2>1. Len(page) \in Nat /\ DOMAIN page = 1 .. Len(page) /\ page \in [1 .. Len(page) -> F]
    BY ONLY <1>3
  <2>2. \A i \in 1 .. Len(page) : next[i] = key[page[i]]
    BY ONLY <1>0, <2>1 DEF KeysOnPage
  <2>3. DOMAIN next = 1 .. Len(page) /\ next = [i \in DOMAIN next |-> next[i]]
    BY ONLY <1>0, <2>1 DEF KeysOnPage
  <2>4. next \in [1 .. Len(page) -> K]
    BY ONLY <1>5, <2>2, <2>3
  <2>5. \A l \in Nat : \A s \in [1 .. l -> K] : s \in Seq(K) /\ Len(s) = l
    OBVIOUS
  <2>6. QED
    BY ONLY <2>1, <2>2, <2>4, <2>5
<1>7. Ranked(K, next, m)
  BY <1>5, <1>6 DEF Ranked
<1>8. /\ old \o next \in Seq(K) /\ Len(old \o next) = m + Len(next)
      /\ Ranked(K, old \o next, 0)
  BY ONLY <1>6, <1>7, <1>0, RanksOfBoth
<1>9. Len(next) = e - m
  BY <1>3, <1>6
<1>10. Len(old \o next) = e
  BY ONLY <1>1, <1>8, <1>9, m + Len(next) = Len(old \o next)
<1>11. page = << >> => e = n
  <2>1. page = << >> => Len(page) = 0
    OBVIOUS
  <2>2. QED
    BY <1>1, <1>3, <2>1
<1>12. e >= n => e = n
  BY <1>0, <1>1
<1>13. QED
  BY <1>0, <1>1, <1>8, <1>10, <1>11, <1>12

CurrentPage(order) ==
  SubSeq(order, Len(paging.got) + 1, Smaller(Len(paging.got) + paging.size, Len(order)))

CurrentKeys(order) ==
  [i \in DOMAIN CurrentPage(order) |->
     tables[SearchTable(paging.type)][CurrentPage(order)[i]][SearchKey(paging.type)]]

LEMMA NextPage ==
  ASSUME PagingInv, paging # Nil, ~ paging.done, paging.total # Nil, ~ paging.changed,
         Cardinality(Range(KeyOf(paging.type, paging.query)))
           = Cardinality(FoundRows(paging.type, paging.query)),
         NEW order \in SearchOrders(paging), NEW got, got = paging.got \o CurrentKeys(order)
  PROVE  LET key == KeyOf(paging.type, paging.query)
             n == Cardinality(FoundRows(paging.type, paging.query))
         IN /\ got \in Seq(Range(key)) /\ Len(got) <= n /\ Ranked(Range(key), got, 0)
            /\ CurrentPage(order) = << >> \/ Len(got) >= paging.total => Len(got) = n
<1> DEFINE t == paging.type  F == FoundRows(t, paging.query)  n == Cardinality(F)
           key == KeyOf(t, paging.query)  K == Range(key)
           page == CurrentPage(order)  next == CurrentKeys(order)
           cell(i) == tables[SearchTable(t)][i][SearchKey(t)]
<1>1. /\ OpenInv /\ TablesOK /\ paging.size \in Nat \ {0}
      /\ \E search \in Searches : search.type = t /\ search.query = paging.query
      /\ t \in DOMAIN ObjectTableMap /\ Open(t)
  BY DEF PagingInv, PageInv, OpenInv
<1>2. /\ IsFiniteSet(F) /\ n \in Nat /\ key \in [F -> Int]
      /\ F \subseteq DOMAIN tables[ObjectTableMap[t].table]
  BY <1>1, KeysAreNumbers
<1>3. /\ SearchTable(t) = ObjectTableMap[t].table /\ SearchKey(t) = ObjectTableMap[t].key
      /\ SearchFinds(paging) = F
  BY <1>1, NeverCompiled
<1>4. \A i \in F : cell(i) = key[i]
  BY <1>3 DEF KeyOf
<1>5. /\ paging.got \in Seq(K) /\ Len(paging.got) <= n /\ paging.total = n
      /\ Ranked(K, paging.got, 0)
  BY <1>1 DEF PagingInv, PageInv, Exact
<1>6. order \in InOrder(tables[ObjectTableMap[t].table], ObjectTableMap[t].key, F)
  BY <1>1, <1>3, NeverCompiled DEF SearchOrders
<1>7. /\ order \in [1 .. n -> F]
      /\ \A i, j \in 1 .. n : i # j => order[i] # order[j]
      /\ \A i, j \in 1 .. n : i < j => key[order[i]] <= key[order[j]]
  <2>1. order \in SetToSeqs(F)
    BY <1>6 DEF InOrder
  <2>2. /\ order \in [1 .. n -> F]
        /\ \A i, j \in 1 .. n : i # j => order[i] # order[j]
    BY <2>1 DEF SetToSeqs
  <2>3. \A i, j \in 1 .. n : i < j => cell(order[i]) <= cell(order[j])
    BY <1>3, <1>6, <2>2 DEF InOrder
  <2>4. QED
    BY <1>4, <2>2, <2>3
<1>8. Len(order) = n
  BY <1>2, <1>7
<1>9. Ranks(K, key, order, n)
  <2>1. Ascending(order, key, n)
    BY <1>7 DEF Ascending
  <2>2. n = Cardinality(F) /\ Cardinality(Range(key)) = n
    OBVIOUS
  <2> HIDE DEF F
  <2>3. QED
    BY ONLY <1>2, <1>7, <2>1, <2>2, RankInOrder DEF Ranks
<1>10. next = KeysOnPage(key, page)
  <2> DEFINE m == Len(paging.got)  e == Smaller(m + paging.size, Len(order))
  <2>1. m \in Nat /\ e \in Nat /\ m <= e /\ e <= n
    BY <1>1, <1>2, <1>5, <1>8 DEF Smaller
  <2>2. page = SubSeq(order, m + 1, e)
    BY DEF CurrentPage
  <2> HIDE DEF m, e, F
  <2>3. SubSeq(order, m + 1, e) \in Seq(F)
    BY ONLY <1>2, <1>7, <2>1, PageOf
  <2>4. \A i \in DOMAIN page : page[i] \in F
    BY ONLY <2>2, <2>3
  <2>5. \A i \in DOMAIN page : cell(page[i]) = key[page[i]]
    BY <1>4, <2>4 DEF F
  <2> HIDE DEF page
  <2>6. next = [i \in DOMAIN page |-> cell(page[i])]
    BY DEF CurrentKeys, page
  <2>7. QED
    BY <2>5, <2>6 DEF KeysOnPage
<1>11. QED
  <2>1. page = PageAfter(order, Len(paging.got), paging.size, n)
    BY <1>8 DEF PageAfter, CurrentPage
  <2> HIDE DEF F, K, n, key, page, next
  <2>2. paging.size \in Nat \ {0} /\ key \in [F -> Int] /\ n \in Nat /\ order \in [1 .. n -> F]
    BY <1>1, <1>2, <1>7
  <2>3. NextPageOf(F, n, K, key, order, paging.got, paging.size, page, next)
    BY ONLY <1>5, <1>9, <1>10, <2>1, <2>2 DEF NextPageOf
  <2>4. /\ paging.got \o next \in Seq(K) /\ Len(paging.got \o next) <= n
        /\ Ranked(K, paging.got \o next, 0)
        /\ page = << >> \/ Len(paging.got \o next) >= n => Len(paging.got \o next) = n
    BY ONLY <2>3, NextRanks
  <2>5. QED
    BY <1>5, <2>4 DEF K, key, n, F, page, next

\* What a statement of a search leaves of the other facts.
LEMMA SearchStep ==
  ASSUME PagingInv, OpenInv', UNCHANGED tables, paging # Nil,
         PagingShape(paging'), paging'.type = paging.type, paging'.query = paging.query,
         paging'.size = paging.size, paging'.changed = paging.changed,
         paging'.done /\ ~ paging'.lost => Open(paging.type),
         Open(paging.type) /\ ~ paging.changed =>
           Exact(paging', KeyOf(paging.type, paging.query),
                 Cardinality(FoundRows(paging.type, paging.query)))
  PROVE  PagingInv'
<1>1. TablesOK'
  BY DEF PagingInv, TablesOK
<1>2. /\ FoundRows(paging.type, paging.query)' = FoundRows(paging.type, paging.query)
      /\ KeyOf(paging.type, paging.query)' = KeyOf(paging.type, paging.query)
  BY DEF FoundRows, KeyOf
<1>3. paging'.size \in Nat \ {0}
  BY DEF PagingInv, PageInv
<1>4. \E search \in Searches : search.type = paging'.type /\ search.query = paging'.query
  BY DEF PagingInv, PageInv
<1>5. PageInv'
  BY <1>2, <1>3, <1>4 DEF PageInv, Open
<1>6. QED
  BY <1>1, <1>5 DEF PagingInv

LEMMA OpenSearchPaging ==
  ASSUME PagingInv, OpenInv', NEW search \in Searches, OpenSearch(search)
  PROVE  PagingInv'
<1> DEFINE t == search.type  F == FoundRows(t, search.query)  key == KeyOf(t, search.query)
<1>1. /\ UNCHANGED tables
      /\ t \in DOMAIN ObjectTableMap
      /\ paging' = [type |-> t, query |-> search.query, size |-> PageSize(search.limit),
                    got |-> << >>, total |-> Nil,
                    changed |-> FALSE, lost |-> FALSE, done |-> FALSE]
  BY DEF OpenSearch
<1>2. TablesOK /\ TablesOK'
  BY <1>1 DEF PagingInv, TablesOK
<1>3. /\ FoundRows(t, search.query)' = F /\ KeyOf(t, search.query)' = key
      /\ Open(t)' <=> Open(t)
  BY <1>1 DEF FoundRows, KeyOf, Open
<1>4. PageSize(search.limit) \in Nat \ {0}
  BY OntologyAssumption DEF OntologyAssumption, PageSize, Smaller
<1>5. Open(t) => Cardinality(F) \in Nat
  BY <1>1, <1>2, KeysAreNumbers
<1>6. Open(t) => Exact(paging', key, Cardinality(F))
  <2>1. paging'.got = << >> /\ paging'.total = Nil /\ paging'.done = FALSE
    BY <1>1
  <2>2. << >> \in Seq(Range(key)) /\ Len(<< >>) = 0 /\ Ranked(Range(key), << >>, 0)
    BY DEF Ranked
  <2> HIDE DEF F, key
  <2>3. QED
    BY <1>5, <2>1, <2>2 DEF Exact
<1>7. /\ paging'.type = t /\ paging'.query = search.query
      /\ paging'.size = PageSize(search.limit) /\ paging'.done = FALSE
  BY <1>1
<1>8. PageInv'
  BY <1>3, <1>4, <1>6, <1>7 DEF PageInv
<1>9. QED
  BY <1>2, <1>8 DEF PagingInv

LEMMA CountRowsPaging ==
  ASSUME PagingInv, OpenInv', CountRows
  PROVE  PagingInv'
<1> DEFINE t == paging.type  F == FoundRows(t, paging.query)  key == KeyOf(t, paging.query)
           total == Cardinality(F)
<1>1. /\ UNCHANGED tables /\ paging # Nil /\ ~ paging.done /\ PagingShape(paging) /\ PageInv
      /\ paging' = [paging EXCEPT !.total = total]
  BY NeverCompiled DEF CountRows, Paging, PagingInv, OpenInv
<1> HIDE DEF total
<1>2. /\ PagingShape(paging') /\ paging'.type = t /\ paging'.query = paging.query
      /\ paging'.size = paging.size /\ paging'.changed = paging.changed
      /\ paging'.got = paging.got /\ paging'.total = total
      /\ paging'.done = FALSE
  BY <1>1 DEF PagingShape
<1>3. Open(t) /\ ~ paging.changed => Exact(paging', key, total)
  BY <1>1, <1>2 DEF PageInv, Exact, total
<1>4. QED
  BY <1>1, <1>2, <1>3, SearchStep DEF total

LEMMA FetchPagePaging ==
  ASSUME PagingInv, OpenInv', FetchPage
  PROVE  PagingInv'
<1> DEFINE t == paging.type  F == FoundRows(t, paging.query)  key == KeyOf(t, paging.query)
           n == Cardinality(F)
<1>1. /\ UNCHANGED tables /\ paging # Nil /\ ~ paging.done /\ PagingShape(paging) /\ PageInv
      /\ paging.total # Nil /\ Open(t)
  BY DEF FetchPage, Paging, PagingInv, OpenInv
<1>2. PICK order \in SearchOrders(paging) :
        LET offset == Len(paging.got)
            page   == SubSeq(order, offset + 1, Smaller(offset + paging.size, Len(order)))
            listed   == tables[SearchTable(t)]
            got    == paging.got \o [i \in DOMAIN page |-> listed[page[i]][SearchKey(t)]]
        IN paging' = [paging EXCEPT !.got = got, !.total = Nil,
                                    !.done = page = << >> \/ Len(got) >= paging.total]
  BY DEF FetchPage
<1> DEFINE got  == paging.got \o CurrentKeys(order)
           last == CurrentPage(order) = << >> \/ Len(got) >= paging.total
<1>3. paging' = [paging EXCEPT !.got = got, !.total = Nil, !.done = last]
  BY <1>2 DEF CurrentPage, CurrentKeys
<1>4. ~ paging.changed /\ Cardinality(Range(key)) = n =>
        /\ got \in Seq(Range(key)) /\ Len(got) <= n /\ Ranked(Range(key), got, 0)
        /\ last => Len(got) = n
  BY <1>1, NextPage
<1>5. last \in BOOLEAN
  OBVIOUS
<1> HIDE DEF got, last, n, key, F
<1>6. /\ PagingShape(paging') /\ paging'.type = t /\ paging'.query = paging.query
      /\ paging'.size = paging.size /\ paging'.changed = paging.changed
      /\ paging'.got = got /\ paging'.total = Nil /\ paging'.done = last
  BY <1>1, <1>3, <1>5 DEF PagingShape
<1>7. ~ paging.changed => Exact(paging', key, n)
  BY <1>4, <1>6 DEF Exact
<1>8. QED
  BY <1>1, <1>6, <1>7, SearchStep DEF n, key, F

LEMMA SearchFailsPaging ==
  ASSUME PagingInv, OpenInv', SearchFails
  PROVE  PagingInv'
<1>1. /\ UNCHANGED tables /\ paging # Nil /\ PagingShape(paging) /\ PageInv
      /\ paging' = [paging EXCEPT !.lost = TRUE, !.done = TRUE]
  BY DEF SearchFails, Paging, PagingInv, OpenInv
<1>2. /\ PagingShape(paging') /\ paging'.type = paging.type /\ paging'.query = paging.query
      /\ paging'.size = paging.size /\ paging'.changed = paging.changed
      /\ paging'.got = paging.got /\ paging'.total = paging.total /\ paging'.lost = TRUE
  BY <1>1 DEF PagingShape
<1>3. Open(paging.type) /\ ~ paging.changed =>
        Exact(paging', KeyOf(paging.type, paging.query),
              Cardinality(FoundRows(paging.type, paging.query)))
  BY <1>1, <1>2 DEF PageInv, Exact
<1>4. QED
  BY <1>1, <1>2, <1>3, SearchStep

LEMMA PagingStep ==
  ASSUME PagingInv, [OntologyNext]_ontVars
  PROVE  PagingInv'
<1>1. OpenInv'
  BY OpenStep DEF PagingInv
<1>2. /\ \A files : StartServer(files) => UNCHANGED <<tables, paging>>
      /\ \A call : GetObject(call) \/ GetLinkedObjects(call) => UNCHANGED <<tables, paging>>
      /\ \A offer : ExecuteAction(offer) \/ ProposeOffer(offer) => UNCHANGED <<tables, paging>>
  BY DEF StartServer, ExecuteAction, ProposeOffer, GetObject, GetLinkedObjects, Called
<1>3. CASE UNCHANGED ontVars
  BY <1>1, <1>3, PagingStays DEF ontVars
<1>4. CASE \E a \in Arrivals : AddRow(a[1], a[2])
  BY <1>1, <1>4, AddRowPaging
<1>5. CASE \E search \in Searches : OpenSearch(search)
  BY <1>1, <1>5, OpenSearchPaging
<1>6. CASE CountRows \/ FetchPage \/ SearchFails
  BY <1>1, <1>6, CountRowsPaging, FetchPagePaging, SearchFailsPaging
<1>7. CASE UNCHANGED <<tables, paging>>
  BY <1>1, <1>7, PagingStays
<1>8. CASE \/ \E files \in SchemaFiles : StartServer(files)
           \/ \E call \in Gets : GetObject(call) \/ GetLinkedObjects(call)
           \/ \E offer \in Offers : ExecuteAction(offer) \/ ProposeOffer(offer)
  <2>1. UNCHANGED <<tables, paging>>
    BY ONLY <1>2, <1>8
  <2>2. QED
    BY <1>7, <2>1
<1>9. QED
  BY ONLY <1>3, <1>4, <1>5, <1>6, <1>8, [OntologyNext]_ontVars DEF OntologyNext

LEMMA PagingStart == OntologyInit => PagingInv
<1>1. OntologyInit => TablesOK
  BY OntologyAssumption DEF OntologyAssumption, OntologyInit, TablesOK, AnyRow, RowsOf, Range
<1>2. QED
  BY <1>1, AnswerStart DEF OntologyInit, PagingInv, PageInv

\* A client that reads page by page gets every key once and then stops, if no
\* statement fails, no row arrives in between and the keys are different.
THEOREM PagingExact == OntologySpec => []PagingIsExact
<1>1. PagingInv => PagingIsExact
  <2>1. SUFFICES ASSUME PagingInv, paging # Nil, paging.done, ~ paging.lost, ~ paging.changed,
                        Cardinality(Range(KeysFound)) = Cardinality(DOMAIN KeysFound)
                 PROVE  Range(paging.got) = Range(KeysFound) /\ Distinct(paging.got)
    BY DEF PagingIsExact
  <2> DEFINE F == FoundRows(paging.type, paging.query)
             key == KeyOf(paging.type, paging.query)
  <2>2. /\ Open(paging.type) /\ Exact(paging, key, Cardinality(F))
        /\ \E search \in Searches : search.type = paging.type /\ search.query = paging.query
        /\ paging.type \in DOMAIN ObjectTableMap
    BY <2>1 DEF PagingInv, PageInv, OpenInv
  <2>3. KeysFound = key /\ DOMAIN KeysFound = F
    BY <2>1, NeverCompiled DEF KeysFound, KeyOf, PagingInv
  <2>4. IsFiniteSet(F) /\ Cardinality(F) \in Nat /\ key \in [F -> Int]
    BY <2>1, <2>2, KeysAreNumbers DEF PagingInv
  <2> HIDE DEF F, key
  <2>5. IsFiniteSet(Range(key))
    <3>1. key \in Surjection(F, Range(key))
      BY <2>4 DEF Range, Surjection
    <3>2. QED
      BY <2>4, <3>1, FS_Surjection
  <2>6. /\ paging.got \in Seq(Range(key)) /\ Len(paging.got) = Cardinality(Range(key))
        /\ \A i \in 1 .. Len(paging.got) : Rank(Range(key), paging.got[i]) = i
    BY <2>1, <2>2, <2>3 DEF Exact, Ranked
  <2>7. QED
    BY <2>3, <2>5, <2>6, AllRanks
<1>2. QED
  BY <1>1, PagingStart, PagingStep, PTL DEF OntologySpec

=============================================================================
