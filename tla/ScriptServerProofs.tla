-------------------------- MODULE ScriptServerProofs --------------------------
(***************************************************************************)
(* What the proofs about the Python and the TypeScript server share: which *)
(* steps of a request keep its stage, its call and its answer in line, and *)
(* which step of the service each of them is.                              *)
(***************************************************************************)
EXTENDS ScriptServer, TLAPS

\* What a request is about at each stage.
StageInv ==
    \A r \in Requests :
        /\ pc[r] = "idle" <=> call[r] = NoCall
        /\ pc[r] \in {"reply", "done"} <=> answer[r] # Pending
        /\ pc[r] \in {"waiting", "handler", "decrypt", "stuck"} => call[r].op \in Registered
        /\ pc[r] = "decrypt" => call[r].op = "UPDATE"

RequestsInv == RequestsTypeOK /\ StageInv

------------------------------------------------------------------------------
\* What a well-formed call carries.
LEMMA CallFacts ==
    ASSUME NEW c \in CallType
    PROVE  /\ c # NoCall
           /\ c.op \in Ops
           /\ c.op = "UPDATE" /\ c.message = "good" => c.key \in Keys
BY DEF CallType, UpdateCall, MatchCall, PlainCall, NoCall, Ops

\* What the handlers answer is an answer.
LEMMA AnswerFacts ==
    /\ \A kind \in AnswerKinds : Answer(kind) \in AnswerType /\ Answer(kind).kind = kind
    /\ \A c, k : k \in Keys \cup {NoKey} =>
          ReadAnswer(c, k) \in AnswerType /\ ReadAnswer(c, k) # Pending
    /\ Pending \in AnswerType
    /\ \A kind \in AnswerKinds \ {"pending"} : Answer(kind) # Pending
BY DEF Answer, Signed, ReadAnswer, AnswerType, AnswerKinds, Pending

\* The service's own vocabulary is that of the server.
LEMMA SameVocabulary ==
    /\ \A kind : Service!Answer(kind) = Answer(kind)
    /\ Service!Pending = Pending /\ Service!NoCall = NoCall
    /\ \A c, k : Service!ReadAnswer(c, k) = ReadAnswer(c, k)
    /\ Service!CallType = CallType
BY DEF Service!Answer, Answer, Service!Pending, Pending, Service!NoCall, NoCall,
       Service!PlainCall, PlainCall, Service!ReadAnswer, ReadAnswer,
       Service!Signed, Signed, Service!CallType, CallType, Service!UpdateCall, UpdateCall,
       Service!MatchCall, MatchCall

------------------------------------------------------------------------------
\* Which steps keep RequestsInv.

LEMMA InitKeeps == RequestsInit => RequestsInv
BY AnswerFacts, ScriptServerAssumption
   DEF RequestsInit, RequestsInv, RequestsTypeOK, StageInv, Stages, ScriptServerAssumption

LEMMA ReceiveKeeps ==
    ASSUME RequestsInv, NEW r \in Requests, NEW c \in Calls,
           pc[r] = "idle", call' = [call EXCEPT ![r] = c],
           NEW stage \in {"waiting", "thrown", "done"}, NEW a \in AnswerType,
           Answered(r, stage, a),
           stage = "done" <=> a # Pending,
           stage = "waiting" => c.op \in Registered,
           UNCHANGED <<privateKey, restarts>>
    PROVE  RequestsInv'
<1>1. c \in CallType /\ c # NoCall
  BY CallFacts, ScriptServerAssumption DEF ScriptServerAssumption
<1>2. RequestsTypeOK'
  BY <1>1 DEF RequestsInv, RequestsTypeOK, Answered, Stages
<1>3. StageInv'
  BY <1>1 DEF RequestsInv, RequestsTypeOK, StageInv, Answered
<1> QED
  BY <1>2, <1>3 DEF RequestsInv

LEMMA AnsweredKeeps ==
    ASSUME RequestsInv, NEW r \in Requests, pc[r] # "idle",
           NEW stage \in Stages \ {"idle"}, NEW a \in AnswerType,
           Answered(r, stage, a),
           stage \in {"reply", "done"} <=> a # Pending,
           stage \in {"waiting", "handler", "decrypt", "stuck"} => call[r].op \in Registered,
           stage = "decrypt" => call[r].op = "UPDATE",
           privateKey' \in Keys \cup {NoKey}, UNCHANGED <<call, restarts>>
    PROVE  RequestsInv'
BY DEF RequestsInv, RequestsTypeOK, StageInv, Answered

LEMMA DecryptedKeeps ==
    ASSUME RequestsInv, NEW r \in Requests, Decrypted(r)
    PROVE  RequestsInv'
<1>1. CASE Answered(r, "done", Answer("error")) /\ UNCHANGED privateKey
  BY <1>1, AnsweredKeeps, AnswerFacts
     DEF Decrypted, RequestsInv, RequestsTypeOK, Stages, AnswerKinds
<1>2. CASE /\ call[r].message = "good" /\ privateKey' = call[r].key
           /\ Answered(r, "reply", Answer("stored"))
  <2>1. call[r].key \in Keys
    BY <1>2, CallFacts DEF Decrypted, RequestsInv, RequestsTypeOK, StageInv
  <2> QED
    BY <1>2, <2>1, AnsweredKeeps, AnswerFacts
       DEF Decrypted, RequestsInv, RequestsTypeOK, Stages, AnswerKinds
<1> QED
  BY <1>1, <1>2 DEF Decrypted

LEMMA ResponseKeeps ==
    ASSUME RequestsInv, NEW r \in Requests, WriteResponse(r)
    PROVE  RequestsInv'
<1>1. answer' = [answer EXCEPT ![r] = answer[r]] /\ answer[r] \in AnswerType
  BY DEF WriteResponse, RequestsInv, RequestsTypeOK
<1> QED
  BY <1>1 DEF WriteResponse, RequestsInv, RequestsTypeOK, StageInv, Stages

LEMMA DieKeeps ==
    ASSUME RequestsInv, Die, restarts' \in 0..MaxRestarts
    PROVE  RequestsInv'
BY AnswerFacts DEF Die, RequestsInv, RequestsTypeOK, StageInv, Stages, AnswerKinds

------------------------------------------------------------------------------
\* Which step of the service each step is.

\* A request is sent when it is done.
LEMMA SentFacts ==
    ASSUME RequestsInv, NEW r \in Requests, NEW stage, NEW a, Answered(r, stage, a),
           pc[r] # "done"
    PROVE  Sent' = IF stage = "done" THEN Sent \cup {r} ELSE Sent
BY DEF RequestsInv, RequestsTypeOK, Answered, Sent

LEMMA ReceiveRefines ==
    ASSUME RequestsInv, NEW r \in Requests, NEW c \in Calls,
           pc[r] = "idle", call' = [call EXCEPT ![r] = c],
           \/ c.op \in Registered /\ Answered(r, "waiting", Pending)
           \/ c.op \notin Registered /\ Answered(r, "done", Answer("refused"))
           \/ c.op = "OTHER" /\ Answered(r, "thrown", Pending),
           UNCHANGED privateKey
    PROVE  Service!Next
<1>1. c \in Service!CallType /\ call[r] = Service!NoCall
  BY SameVocabulary, ScriptServerAssumption DEF ScriptServerAssumption, RequestsInv, StageInv
<1>2. CASE c.op \in Registered /\ Answered(r, "waiting", Pending)
  <2>1. Sent' = Sent
    BY <1>2, SentFacts
  <2>2. Service!Receive(r, c)
    BY <1>1, <1>2, <2>1, SameVocabulary DEF Service!Receive, Service!Settle, Answered
  <2> QED
    BY <1>1, <2>2 DEF Service!Next
<1>3. CASE c.op \notin Registered /\ Answered(r, "done", Answer("refused"))
  BY <1>1, <1>3, SentFacts, SameVocabulary
     DEF Service!Receive, Service!Refuse, Service!Next, Answered
<1>4. CASE c.op = "OTHER" /\ Answered(r, "thrown", Pending)
  <2>1. Sent' = Sent
    BY <1>4, SentFacts
  <2>2. Service!Receive(r, c)
    BY <1>1, <1>4, <2>1, SameVocabulary DEF Service!Receive, Service!Settle, Answered
  <2> QED
    BY <1>1, <2>2 DEF Service!Next
<1> QED
  BY <1>2, <1>3, <1>4

\* On the way to an answer nothing is to be seen.
LEMMA MoveRefines ==
    ASSUME RequestsInv, NEW r \in Requests, answer[r] = Pending,
           NEW stage, stage # "done", Answered(r, stage, Pending),
           UNCHANGED <<privateKey, call>>
    PROVE  UNCHANGED Service!vars
<1>1. answer' = answer
  BY DEF Answered, RequestsInv, RequestsTypeOK
<1>2. Sent' = Sent
  BY SentFacts DEF RequestsInv, StageInv
<1> QED
  BY <1>1, <1>2 DEF Service!vars

LEMMA FailRefines ==
    ASSUME RequestsInv, NEW r \in Requests, answer[r] = Pending, call[r].op = "UPDATE",
           Answered(r, "done", Answer("error")), UNCHANGED <<privateKey, call>>
    PROVE  Service!Next
<1>1. Sent' = Sent \cup {r}
  BY SentFacts DEF RequestsInv, StageInv
<1>2. Service!Fail(r)
  BY <1>1, SameVocabulary DEF Service!Fail, Service!Received, Service!Refuse, Answered
<1> QED
  BY <1>2 DEF Service!Next

LEMMA ReadRefines ==
    ASSUME RequestsInv, NEW r \in Requests, answer[r] = Pending, call[r].op \in {"SIGN", "STATE"},
           Answered(r, "reply", ReadAnswer(call[r], privateKey)), UNCHANGED <<privateKey, call>>
    PROVE  Service!Next
<1>1. Sent' = Sent
  BY SentFacts DEF RequestsInv, StageInv
<1>2. Service!Read(r)
  BY <1>1, SameVocabulary DEF Service!Read, Service!Received, Service!Settle, Answered
<1> QED
  BY <1>2 DEF Service!Next

LEMMA DecryptedRefines ==
    ASSUME RequestsInv, NEW r \in Requests, Decrypted(r)
    PROVE  Service!Next
<1>1. answer[r] = Pending /\ call[r].op = "UPDATE" /\ pc[r] = "decrypt" /\ UNCHANGED call
  BY DEF Decrypted, RequestsInv, StageInv
<1>2. CASE Answered(r, "done", Answer("error")) /\ UNCHANGED privateKey
  BY <1>1, <1>2, FailRefines
<1>3. CASE /\ call[r].message = "good" /\ privateKey' = call[r].key
           /\ Answered(r, "reply", Answer("stored"))
  <2>1. Sent' = Sent
    BY <1>1, <1>3, SentFacts
  <2>2. Service!Update(r)
    BY <1>1, <1>3, <2>1, SameVocabulary
       DEF Service!Update, Service!Received, Service!Settle, Answered
  <2> QED
    BY <2>2 DEF Service!Next
<1> QED
  BY <1>2, <1>3 DEF Decrypted

LEMMA ResponseRefines ==
    ASSUME RequestsInv, NEW r \in Requests, WriteResponse(r)
    PROVE  Service!Next
<1>1. call[r] # NoCall /\ answer[r] # Pending
  BY DEF WriteResponse, RequestsInv, StageInv
<1>2. Sent' = Sent \cup {r}
  BY DEF WriteResponse, RequestsInv, RequestsTypeOK, Sent
<1>3. Service!Send(r)
  BY <1>1, <1>2, SameVocabulary DEF Service!Send, WriteResponse
<1> QED
  BY <1>3 DEF Service!Next

\* What was not sent is lost.
LEMMA DieRefines ==
    ASSUME RequestsInv, Die
    PROVE  Service!Next
<1>1. Sent' = {r \in Requests : call[r] # Service!NoCall}
  BY SameVocabulary DEF Die, Sent, RequestsInv, StageInv
<1>2. answer' = [r \in Requests |-> IF call[r] # Service!NoCall /\ r \notin Sent
                                    THEN Service!Answer("lost") ELSE answer[r]]
  BY SameVocabulary DEF Die, Sent, RequestsInv, StageInv
<1>3. Service!Restart
  BY <1>1, <1>2 DEF Die, Service!Restart
<1> QED
  BY <1>3 DEF Service!Next

LEMMA InitRefines == RequestsInit => Service!Init
BY SameVocabulary DEF RequestsInit, Service!Init, Sent
===============================================================================
