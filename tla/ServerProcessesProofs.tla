------------------------- MODULE ServerProcessesProofs -------------------------
(***************************************************************************)
(* The server that LANGUAGE selects, for any number of requests, keys and  *)
(* restarts.  Python: the lock lets one handler run at a time, also across *)
(* a decryption.  TypeScript: the theorems of QueueServerProofs.  Go: the  *)
(* process around the server of module SignExtension.  Whichever runs, it  *)
(* implements the service that executes every call alone.                  *)
(***************************************************************************)
EXTENDS ServerProcesses, ScriptServerProofs, FiniteSetTheorems

Chain == INSTANCE QueueServerProofs

------------------------------------------------------------------------------
\* Python.  LockServer's copies of the shared words mean the same.
LEMMA PythonWords ==
    /\ Python!Pending = Pending /\ Python!Registered = Registered
    /\ \A kind : Python!Answer(kind) = Answer(kind)
    /\ \A c, k : Python!ReadAnswer(c, k) = ReadAnswer(c, k)
    /\ Python!RequestsInit <=> RequestsInit
    /\ Python!RequestsTypeOK <=> RequestsTypeOK
BY DEF Python!Pending, Pending, Python!Registered, Registered, Python!Answer, Answer,
       Python!ReadAnswer, ReadAnswer, Python!Signed, Signed,
       Python!RequestsInit, RequestsInit, Python!NoCall, NoCall, Python!PlainCall, PlainCall,
       Python!RequestsTypeOK, RequestsTypeOK, Python!Stages, Stages,
       Python!CallType, CallType, Python!UpdateCall, UpdateCall, Python!MatchCall, MatchCall,
       Python!AnswerType, AnswerType, Python!AnswerKinds, AnswerKinds

LEMMA PythonSteps ==
    /\ \A r, stage, a : Python!Answered(r, stage, a) <=> Answered(r, stage, a)
    /\ \A r : Python!Decrypted(r) <=> Decrypted(r)
    /\ \A r : Python!WriteResponse(r) <=> WriteResponse(r)
    /\ Python!Die <=> Die
BY PythonWords DEF Python!Answered, Answered, Python!Decrypted, Decrypted,
       Python!WriteResponse, WriteResponse, Python!Die, Die

\* What the actions of the Python server do, in the shared words.
LEMMA PythonReceives ==
    ASSUME NEW r, NEW c, Python!Receive(r, c)
    PROVE  /\ pc[r] = "idle" /\ call' = [call EXCEPT ![r] = c]
           /\ \/ c.op \in Registered /\ Answered(r, "waiting", Pending)
              \/ c.op \notin Registered /\ Answered(r, "done", Answer("refused"))
           /\ UNCHANGED <<privateKey, mu, restarts>>
BY PythonWords, PythonSteps DEF Python!Receive

LEMMA PythonReads ==
    ASSUME NEW r, Python!ReadKey(r)
    PROVE  /\ pc[r] = "handler" /\ call[r].op \in {"SIGN", "STATE"}
           /\ Answered(r, "reply", ReadAnswer(call[r], privateKey))
           /\ mu' = NoRequest
           /\ UNCHANGED <<privateKey, call, restarts>>
BY PythonWords, PythonSteps DEF Python!ReadKey, Python!Release

LEMMA PythonUpdates ==
    ASSUME NEW r, Python!HandleKeyUpdate(r)
    PROVE  /\ pc[r] = "handler" /\ call[r].op = "UPDATE"
           /\ \/ Answered(r, "done", Answer("error")) /\ mu' = NoRequest
              \/ Answered(r, "decrypt", Pending) /\ UNCHANGED mu
           /\ UNCHANGED <<privateKey, call, restarts>>
BY PythonWords, PythonSteps DEF Python!HandleKeyUpdate, Python!Release

LEMMA PythonAcquires ==
    ASSUME NEW r, Python!Acquire(r)
    PROVE  /\ pc[r] = "waiting" /\ mu = NoRequest /\ mu' = r
           /\ pc' = [pc EXCEPT ![r] = "handler"]
           /\ UNCHANGED <<privateKey, call, answer, restarts>>
BY DEF Python!Acquire, Python!IsFree

LEMMA PythonEnds ==
    ASSUME NEW r
    PROVE  /\ Python!DecryptReply(r) => Decrypted(r) /\ mu' = NoRequest
           /\ Python!Respond(r) => WriteResponse(r) /\ UNCHANGED mu
           /\ Python!Restart => /\ restarts < MaxRestarts /\ restarts' = restarts + 1
                                /\ Die /\ mu' = NoRequest
BY PythonSteps DEF Python!DecryptReply, Python!Release, Python!Respond, Python!Restart

\* The thread in a handler is the one that holds the lock.
LockInv == \A r \in Requests : pc[r] \in {"handler", "decrypt"} => mu = r

\* Only TypeScript's requests are stuck, or thrown out of.
NoneStuck == \A r \in Requests : pc[r] \notin {"stuck", "thrown"}

PythonInv == RequestsInv /\ mu \in Requests \cup {NoRequest} /\ NoneStuck /\ LockInv

LEMMA PythonInvTypes == PythonInv => Python!TypeOK
BY PythonWords DEF PythonInv, NoneStuck, RequestsInv, Python!TypeOK

\* A handler that gives the lock back is the only one there was.
LEMMA ReleaseKeeps ==
    ASSUME PythonInv, NEW r \in Requests, pc[r] \in {"handler", "decrypt"},
           NEW stage \in {"reply", "done"}, NEW a, Answered(r, stage, a), mu' = NoRequest
    PROVE  mu' \in Requests \cup {NoRequest} /\ NoneStuck' /\ LockInv'
BY CallsAssumption
   DEF CallsAssumption, PythonInv, RequestsInv, RequestsTypeOK, LockInv, NoneStuck, Answered

LEMMA PythonInitially == Python!Init => PythonInv
BY PythonWords, InitKeeps DEF Python!Init, RequestsInit, PythonInv, NoneStuck, LockInv

LEMMA PythonKeeps == PythonInv /\ [Python!Next]_(Python!vars) => PythonInv'
<1> SUFFICES ASSUME PythonInv, [Python!Next]_(Python!vars) PROVE PythonInv'
  OBVIOUS
<1>0. /\ RequestsInv /\ RequestsTypeOK /\ StageInv /\ LockInv /\ NoneStuck
      /\ mu \in Requests \cup {NoRequest}
  BY DEF PythonInv, RequestsInv
<1>1. ASSUME NEW r \in Requests, NEW c \in Calls, Python!Receive(r, c) PROVE PythonInv'
  <2>1. PICK stage \in {"waiting", "done"}, a \in AnswerType :
           /\ Answered(r, stage, a)
           /\ stage = "done" <=> a # Pending
           /\ stage = "waiting" => c.op \in Registered
    BY <1>1, AnswerFacts, PythonReceives DEF AnswerKinds
  <2>2. RequestsInv'
    BY <1>0, <1>1, <2>1, ReceiveKeeps, PythonReceives
  <2>3. mu' \in Requests \cup {NoRequest} /\ NoneStuck' /\ LockInv'
    BY <1>0, <1>1, <2>1, PythonReceives DEF Answered, LockInv, NoneStuck, RequestsTypeOK
  <2> QED
    BY <2>2, <2>3 DEF PythonInv
<1>2. ASSUME NEW r \in Requests, Python!Acquire(r) PROVE PythonInv'
  <2>1. Answered(r, "handler", Pending) /\ call[r].op \in Registered /\ pc[r] # "idle"
    BY <1>0, <1>2, PythonAcquires DEF Answered, StageInv, RequestsTypeOK
  <2>2. privateKey' \in Keys \cup {NoKey} /\ UNCHANGED <<call, restarts>>
    BY <1>0, <1>2, PythonAcquires DEF RequestsTypeOK
  <2>3. "handler" \in Stages \ {"idle"} /\ Pending \in AnswerType
    BY AnswerFacts DEF Stages
  <2>4. RequestsInv'
    BY <1>0, <2>1, <2>2, <2>3, AnsweredKeeps
  <2>5. mu' \in Requests \cup {NoRequest} /\ NoneStuck' /\ LockInv'
    BY <1>0, <1>2, PythonAcquires, CallsAssumption
       DEF CallsAssumption, LockInv, NoneStuck, RequestsTypeOK
  <2> QED
    BY <2>4, <2>5 DEF PythonInv
<1>3. ASSUME NEW r \in Requests, Python!ReadKey(r) PROVE PythonInv'
  <2>1. ReadAnswer(call[r], privateKey) \in AnswerType \ {Pending}
    BY <1>0, AnswerFacts DEF RequestsTypeOK
  <2>2. RequestsInv'
    BY <1>0, <1>3, <2>1, AnsweredKeeps, PythonReads DEF Stages, RequestsTypeOK
  <2> QED
    BY <1>3, <2>2, ReleaseKeeps, PythonReads DEF PythonInv
<1>4. ASSUME NEW r \in Requests, Python!HandleKeyUpdate(r) PROVE PythonInv'
  <2>1. CASE Answered(r, "done", Answer("error")) /\ mu' = NoRequest
    <3>1. RequestsInv'
      BY <1>0, <1>4, <2>1, AnsweredKeeps, AnswerFacts, PythonUpdates
         DEF Stages, RequestsTypeOK, AnswerKinds
    <3> QED
      BY <1>4, <2>1, <3>1, ReleaseKeeps, PythonUpdates DEF PythonInv
  <2>2. CASE Answered(r, "decrypt", Pending) /\ UNCHANGED mu
    <3>1. call[r].op \in Registered
      BY <1>4, PythonUpdates DEF Registered
    <3>2. RequestsInv'
      BY <1>0, <1>4, <2>2, <3>1, AnsweredKeeps, AnswerFacts, PythonUpdates
         DEF Stages, RequestsTypeOK
    <3>3. mu' \in Requests \cup {NoRequest} /\ NoneStuck' /\ LockInv'
      BY <1>0, <1>4, <2>2, PythonUpdates DEF Answered, LockInv, NoneStuck, RequestsTypeOK
    <3> QED
      BY <3>2, <3>3 DEF PythonInv
  <2> QED
    BY <1>4, <2>1, <2>2, PythonUpdates
<1>5. ASSUME NEW r \in Requests, Python!DecryptReply(r) PROVE PythonInv'
  <2>1. Decrypted(r) /\ mu' = NoRequest
    BY <1>5, PythonEnds
  <2>2. RequestsInv'
    BY <1>0, <2>1, DecryptedKeeps
  <2>3. PICK stage \in {"reply", "done"}, a \in AnswerType : Answered(r, stage, a)
    BY <2>1, AnswerFacts DEF Decrypted, AnswerKinds
  <2> QED
    BY <2>1, <2>2, <2>3, ReleaseKeeps DEF Decrypted, PythonInv
<1>6. ASSUME NEW r \in Requests, Python!Respond(r) PROVE PythonInv'
  <2>1. WriteResponse(r) /\ UNCHANGED mu
    BY <1>6, PythonEnds
  <2>2. RequestsInv'
    BY <1>0, <2>1, ResponseKeeps
  <2>3. mu' \in Requests \cup {NoRequest} /\ NoneStuck' /\ LockInv'
    BY <1>0, <2>1 DEF WriteResponse, LockInv, NoneStuck, RequestsTypeOK
  <2> QED
    BY <2>2, <2>3 DEF PythonInv
<1>7. CASE Python!Restart
  <2>1. restarts < MaxRestarts /\ restarts' = restarts + 1 /\ Die /\ mu' = NoRequest
    BY <1>7, PythonEnds
  <2>2. restarts' \in 0..MaxRestarts
    BY <1>0, <2>1, ScriptServerAssumption DEF ScriptServerAssumption, RequestsTypeOK
  <2>3. RequestsInv'
    BY <1>0, <2>1, <2>2, DieKeeps
  <2>4. mu' \in Requests \cup {NoRequest} /\ NoneStuck' /\ LockInv'
    BY <2>1 DEF Die, LockInv, NoneStuck
  <2> QED
    BY <2>3, <2>4 DEF PythonInv
<1>8. CASE UNCHANGED Python!vars
  BY <1>8 DEF Python!vars, Python!requestVars, PythonInv, NoneStuck, RequestsInv, RequestsTypeOK,
              StageInv, LockInv
<1> QED
  BY <1>1, <1>2, <1>3, <1>4, <1>5, <1>6, <1>7, <1>8 DEF Python!Next, Python!Handle

LEMMA OneHolder == PythonInv => OneHandlerAtATime
<1> SUFFICES ASSUME PythonInv PROVE OneHandlerAtATime
  OBVIOUS
<1> DEFINE inside == {r \in Requests : pc[r] \in {"handler", "decrypt", "stuck"}}
<1>1. inside \subseteq {mu}
  BY DEF PythonInv, NoneStuck, LockInv
<1>2. IsFiniteSet({mu}) /\ Cardinality({mu}) = 1
  BY FS_Singleton
<1>3. Cardinality(inside) <= 1
  BY <1>1, <1>2, FS_Subset
<1> QED
  BY <1>3 DEF OneHandlerAtATime

\* Every step of the Python server is a step of the service, or none.
LEMMA PythonRefines ==
    PythonInv /\ [Python!Next]_(Python!vars) => [Service!Next]_(Service!vars)
<1> SUFFICES ASSUME PythonInv, [Python!Next]_(Python!vars)
             PROVE  Service!Next \/ UNCHANGED Service!vars
  OBVIOUS
<1>0. RequestsInv /\ RequestsTypeOK /\ StageInv
  BY DEF PythonInv, RequestsInv
<1>1. ASSUME NEW r \in Requests, NEW c \in Calls, Python!Receive(r, c) PROVE Service!Next
  BY <1>0, <1>1, ReceiveRefines, PythonReceives
<1>2. ASSUME NEW r \in Requests, Python!Acquire(r) PROVE UNCHANGED Service!vars
  <2>1. Answered(r, "handler", Pending) /\ answer[r] = Pending
    BY <1>0, <1>2, PythonAcquires DEF Answered, StageInv, RequestsTypeOK
  <2> QED
    BY <1>0, <1>2, <2>1, MoveRefines, PythonAcquires
<1>3. ASSUME NEW r \in Requests, Python!ReadKey(r) PROVE Service!Next
  BY <1>0, <1>3, ReadRefines, PythonReads DEF StageInv
<1>4. ASSUME NEW r \in Requests, Python!HandleKeyUpdate(r)
      PROVE  Service!Next \/ UNCHANGED Service!vars
  <2>1. answer[r] = Pending
    BY <1>0, <1>4, PythonUpdates DEF StageInv
  <2> QED
    BY <1>0, <1>4, <2>1, FailRefines, MoveRefines, PythonUpdates
<1>5. ASSUME NEW r \in Requests, Python!DecryptReply(r) PROVE Service!Next
  BY <1>0, <1>5, DecryptedRefines, PythonEnds
<1>6. ASSUME NEW r \in Requests, Python!Respond(r) PROVE Service!Next
  BY <1>0, <1>6, ResponseRefines, PythonEnds
<1>7. CASE Python!Restart
  <2>1. Die
    BY <1>7, PythonEnds
  <2> QED
    BY <1>0, <2>1, DieRefines
<1>8. CASE UNCHANGED Python!vars
  BY <1>8 DEF Python!vars, Python!requestVars, Service!vars, Sent
<1> QED
  BY <1>1, <1>2, <1>3, <1>4, <1>5, <1>6, <1>7, <1>8 DEF Python!Next, Python!Handle

------------------------------------------------------------------------------
\* TypeScript.  QueueServerProofs is about QueueServer, with the same constants.
LEMMA ChainAssumptions == Chain!CallsAssumption /\ Chain!ScriptServerAssumption
BY CallsAssumption, ScriptServerAssumption
   DEF CallsAssumption, Chain!CallsAssumption, ScriptServerAssumption, Chain!ScriptServerAssumption,
       CallType, Chain!CallType, UpdateCall, Chain!UpdateCall, MatchCall, Chain!MatchCall,
       PlainCall, Chain!PlainCall

LEMMA ChainWords ==
    /\ TypeScript!Pending = Chain!Pending /\ TypeScript!Registered = Chain!Registered
    /\ TypeScript!NullCall = Chain!NullCall
    /\ \A kind : TypeScript!Answer(kind) = Chain!Answer(kind)
    /\ \A c, k : TypeScript!ReadAnswer(c, k) = Chain!ReadAnswer(c, k)
    /\ TypeScript!RequestsInit <=> Chain!RequestsInit
    /\ TypeScript!RequestsTypeOK <=> Chain!RequestsTypeOK
BY DEF TypeScript!Pending, Chain!Pending, TypeScript!Registered, Chain!Registered,
       TypeScript!Answer, Chain!Answer, TypeScript!NullCall, Chain!NullCall,
       TypeScript!ReadAnswer, Chain!ReadAnswer, TypeScript!Signed, Chain!Signed,
       TypeScript!RequestsInit, Chain!RequestsInit, TypeScript!NoCall, Chain!NoCall,
       TypeScript!PlainCall, Chain!PlainCall, TypeScript!RequestsTypeOK, Chain!RequestsTypeOK,
       TypeScript!Stages, Chain!Stages, TypeScript!CallType, Chain!CallType,
       TypeScript!UpdateCall, Chain!UpdateCall, TypeScript!MatchCall, Chain!MatchCall,
       TypeScript!AnswerType, Chain!AnswerType, TypeScript!AnswerKinds, Chain!AnswerKinds

LEMMA ChainSteps ==
    /\ \A r, stage, a : TypeScript!Answered(r, stage, a) <=> Chain!Answered(r, stage, a)
    /\ \A r : TypeScript!Decrypted(r) <=> Chain!Decrypted(r)
    /\ \A r : TypeScript!WriteResponse(r) <=> Chain!WriteResponse(r)
    /\ TypeScript!Die <=> Chain!Die
BY ChainWords
   DEF TypeScript!Answered, Chain!Answered, TypeScript!Decrypted, Chain!Decrypted,
       TypeScript!WriteResponse, Chain!WriteResponse, TypeScript!Die, Chain!Die

LEMMA ChainNext ==
    /\ TypeScript!Init => Chain!Init
    /\ [TypeScript!Next]_(TypeScript!vars) => [Chain!Next]_(Chain!vars)
<1>1. TypeScript!Init => Chain!Init
  BY ChainWords DEF TypeScript!Init, Chain!Init
<1>2. UNCHANGED TypeScript!vars => UNCHANGED Chain!vars
  BY DEF TypeScript!vars, Chain!vars, TypeScript!requestVars, Chain!requestVars
<1>3. \A r, c : TypeScript!Receive(r, c) => Chain!Receive(r, c)
  BY ChainWords, ChainSteps
     DEF TypeScript!Receive, Chain!Receive, TypeScript!Rejected, Chain!Rejected
<1>4. \A r : TypeScript!Handle(r) => Chain!Handle(r)
  BY ChainWords, ChainSteps
     DEF TypeScript!Handle, Chain!Handle, TypeScript!Start, Chain!Start,
         TypeScript!IsNext, Chain!IsNext, TypeScript!Respond, Chain!Respond
<1>5. \A r : TypeScript!NodeReply(r) => Chain!NodeReply(r)
  BY ChainSteps
     DEF TypeScript!NodeReply, Chain!NodeReply, TypeScript!DecryptReply, Chain!DecryptReply,
         TypeScript!Rejected, Chain!Rejected, TypeScript!Settled, Chain!Settled,
         TypeScript!ResponseCut, Chain!ResponseCut
<1>6. (TypeScript!Crash => Chain!Crash) /\ (TypeScript!Restart => Chain!Restart)
  BY ChainSteps
     DEF TypeScript!Crash, Chain!Crash, TypeScript!Restart, Chain!Restart,
         TypeScript!Rejected, Chain!Rejected, TypeScript!ChainLost, Chain!ChainLost
<1>7. TypeScript!Next => Chain!Next
  BY <1>3, <1>4, <1>5, <1>6 DEF TypeScript!Next, Chain!Next
<1> QED
  BY <1>1, <1>2, <1>7

LEMMA ChainProperties ==
    /\ Chain!TypeOK => TypeScript!TypeOK
    /\ Chain!SignedInArrivalOrder => TypeScript!SignedInArrivalOrder
    /\ Chain!OneHandlerAtATime => OneHandlerAtATime
    /\ Chain!Service!Init => Service!Init
    /\ [Chain!Service!Next]_(Chain!Service!vars) => [Service!Next]_(Service!vars)
<1>1. Chain!TypeOK => TypeScript!TypeOK
  BY ChainWords DEF Chain!TypeOK, TypeScript!TypeOK
<1>2. Chain!SignedInArrivalOrder => TypeScript!SignedInArrivalOrder
  BY ChainWords
     DEF Chain!SignedInArrivalOrder, TypeScript!SignedInArrivalOrder,
         Chain!StoredBefore, TypeScript!StoredBefore
<1>3. Chain!OneHandlerAtATime => OneHandlerAtATime
  BY DEF Chain!OneHandlerAtATime, OneHandlerAtATime, Chain!Cardinality, Cardinality
<1>4. Chain!Registered = Registered /\ Chain!Sent = Sent /\ Chain!Sent' = Sent'
      /\ Chain!Service!CallType = Service!CallType
  BY DEF Chain!Registered, Registered, Chain!Sent, Sent,
         Chain!Service!CallType, Service!CallType, Chain!Service!UpdateCall, Service!UpdateCall,
         Chain!Service!MatchCall, Service!MatchCall, Chain!Service!PlainCall, Service!PlainCall
<1>5. /\ Chain!Service!Pending = Service!Pending /\ Chain!Service!NoCall = Service!NoCall
      /\ \A kind : Chain!Service!Answer(kind) = Service!Answer(kind)
      /\ \A c, k : Chain!Service!ReadAnswer(c, k) = Service!ReadAnswer(c, k)
  BY DEF Chain!Service!Pending, Service!Pending, Chain!Service!NoCall, Service!NoCall,
         Chain!Service!Answer, Service!Answer, Chain!Service!ReadAnswer, Service!ReadAnswer,
         Chain!Service!PlainCall, Service!PlainCall, Chain!Service!Signed, Service!Signed
<1>6. Chain!Service!Init => Service!Init
  BY <1>4, <1>5 DEF Chain!Service!Init, Service!Init
<1>7. /\ \A r, a : Chain!Service!Settle(r, a) => Service!Settle(r, a)
      /\ \A r, a : Chain!Service!Refuse(r, a) => Service!Refuse(r, a)
      /\ \A r, op : Chain!Service!Received(r, op) => Service!Received(r, op)
  BY <1>4, <1>5 DEF Chain!Service!Settle, Service!Settle, Chain!Service!Refuse, Service!Refuse,
         Chain!Service!Received, Service!Received
<1>8. \A r, c : Chain!Service!Receive(r, c) => Service!Receive(r, c)
  BY <1>4, <1>5, <1>7 DEF Chain!Service!Receive, Service!Receive
<1>9. \A r : Chain!Service!Fail(r) \/ Chain!Service!Update(r) \/ Chain!Service!Read(r) => 
                Service!Fail(r) \/ Service!Update(r) \/ Service!Read(r)
  BY <1>5, <1>7 DEF Chain!Service!Fail, Service!Fail, Chain!Service!Update, Service!Update,
         Chain!Service!Read, Service!Read
<1>10. \A r : Chain!Service!Match(r) => Service!Match(r)
  BY <1>5, <1>7 DEF Chain!Service!Match, Service!Match, Chain!Service!Without, Service!Without,
         Chain!Service!Matched, Service!Matched, Chain!Service!Crosses, Service!Crosses,
         Chain!Service!OppositeSide, Service!OppositeSide
<1>11. \A r : Chain!Service!Send(r) => Service!Send(r)
  BY <1>4, <1>5 DEF Chain!Service!Send, Service!Send
<1>12. Chain!Service!Restart => Service!Restart
  BY <1>4, <1>5 DEF Chain!Service!Restart, Service!Restart
<1>13. Chain!Service!Next => Service!Next
  BY <1>4, <1>8, <1>9, <1>10, <1>11, <1>12 DEF Chain!Service!Next, Service!Next
<1>14. UNCHANGED Chain!Service!vars => UNCHANGED Service!vars
  BY DEF Chain!Service!vars, Service!vars, Chain!Sent, Sent
<1> QED
  BY <1>1, <1>2, <1>3, <1>6, <1>13, <1>14

------------------------------------------------------------------------------
\* Go: the process keeps its types.
LEMMA GoKeeps == Go!TypeOK /\ [Go!Next]_(Go!vars) => Go!TypeOK'
<1> SUFFICES ASSUME Go!TypeOK, [Go!Next]_(Go!vars) PROVE Go!TypeOK'
  OBVIOUS
<1>1. CASE Go!Listen \/ Go!CheckEarly \/ Go!Shutdown \/ Go!TimePasses
  <2>1. CASE Go!Listen
    BY <2>1 DEF Go!Listen, Go!TypeOK
  <2>2. CASE Go!CheckEarly
    BY <2>2 DEF Go!CheckEarly, Go!Exit, Go!TypeOK
  <2>3. CASE Go!Shutdown
    BY <2>3 DEF Go!Shutdown, Go!TypeOK
  <2>4. CASE Go!TimePasses
    BY <2>4 DEF Go!TimePasses, Go!TypeOK
  <2> QED
    BY <1>1, <2>1, <2>2, <2>3, <2>4
<1>2. CASE Go!ListenReturns \/ Go!Wait \/ Go!ShutdownReturns
  BY <1>2 DEF Go!ListenReturns, Go!Wait, Go!ShutdownReturns, Go!Exit, Go!TypeOK
<1>3. CASE Go!ServerFails
  BY <1>3 DEF Go!ServerFails, Go!TypeOK
<1>4. CASE Go!Configure
  BY <1>4 DEF Go!Configure, Go!Exit, Go!TypeOK
<1>5. CASE Go!Signal
  BY <1>5 DEF Go!Signal, Go!Exit, Go!TypeOK
<1>6. ASSUME NEW r \in Requests, Go!Receive(r) \/ Go!Reply(r) PROVE Go!TypeOK'
  BY <1>6 DEF Go!Receive, Go!Reply, Go!TypeOK
<1>7. CASE UNCHANGED Go!vars
  BY <1>7 DEF Go!vars, Go!TypeOK
<1> QED
  BY <1>1, <1>2, <1>3, <1>4, <1>5, <1>6, <1>7 DEF Go!Next, Go!Goroutines

LEMMA GoInitially == Go!Init => Go!TypeOK
BY DEF Go!Init, Go!TypeOK, Go!Programs

------------------------------------------------------------------------------
\* The process that was chosen stays, and its steps are those of its server.
LEMMA Chosen ==
    ASSUME [Next]_vars
    PROVE  /\ language = "python" =>
                 /\ language' = "python" /\ [Python!Next]_(Python!vars) /\ UNCHANGED queueVars
           /\ language = "typescript" =>
                 language' = "typescript" /\ [TypeScript!Next]_(TypeScript!vars)
           /\ language = "go" =>
                 /\ language' = "go" /\ [Go!Next]_(Go!vars)
                 /\ UNCHANGED <<requestVars, queueVars>>
BY DEF Next, InPython, InTypeScript, InGo, vars, requestVars, lockVars, queueVars, goVars,
       Python!vars, Python!requestVars, TypeScript!vars, TypeScript!requestVars, Go!vars

\* What holds of the servers that were not chosen.
Quiet == arrived = <<>>

\* The types of whichever server runs.
LEMMA TypeOKByLanguage ==
    /\ language = "python" /\ Python!TypeOK => TypeOK
    /\ language = "typescript" /\ TypeScript!TypeOK => TypeOK
    /\ language = "go" /\ Go!TypeOK => TypeOK
BY Zenon DEF TypeOK

LEMMA QuietOrder == Quiet => SignedInArrivalOrder
BY DEF Quiet, SignedInArrivalOrder, TypeScript!SignedInArrivalOrder

PythonRuns == language = "python" /\ PythonInv /\ Quiet
GoRuns == language = "go" /\ Go!TypeOK /\ (\A r \in Requests : pc[r] = "idle") /\ Quiet
TypeScriptRuns == language = "typescript"

LEMMA Begins == Init => PythonRuns \/ GoRuns \/ (TypeScriptRuns /\ Chain!Init)
<1> SUFFICES ASSUME Init PROVE PythonRuns \/ GoRuns \/ (TypeScriptRuns /\ Chain!Init)
  OBVIOUS
<1>1. /\ language \in {"python", "typescript", "go"}
      /\ Python!Init /\ TypeScript!Init /\ Go!Init
  BY DEF Init
<1>2. PythonInv /\ Chain!Init /\ Go!TypeOK
  BY <1>1, PythonInitially, ChainNext, GoInitially
<1>3. Quiet /\ \A r \in Requests : pc[r] = "idle"
  BY <1>1, PythonWords DEF Python!Init, RequestsInit, TypeScript!Init, Quiet
<1> QED
  BY <1>1, <1>2, <1>3 DEF PythonRuns, GoRuns, TypeScriptRuns

LEMMA GoesOn ==
    ASSUME [Next]_vars
    PROVE  /\ PythonRuns => PythonRuns' /\ [Service!Next]_(Service!vars)
           /\ GoRuns => GoRuns' /\ UNCHANGED Service!vars
           /\ TypeScriptRuns => TypeScriptRuns' /\ [Chain!Next]_(Chain!vars)
<1>1. PythonRuns => PythonRuns' /\ [Service!Next]_(Service!vars)
  BY Chosen, PythonKeeps, PythonRefines DEF PythonRuns, Quiet, queueVars
<1>2. GoRuns => GoRuns' /\ UNCHANGED Service!vars
  BY Chosen, GoKeeps DEF GoRuns, Quiet, queueVars, requestVars, Service!vars, Sent
<1>3. TypeScriptRuns => TypeScriptRuns' /\ [Chain!Next]_(Chain!vars)
  BY Chosen, ChainNext DEF TypeScriptRuns
<1> QED
  BY <1>1, <1>2, <1>3

\* Whichever server was chosen, its own invariant or its own specification holds.
THEOREM Inductive ==
    FairSpec => []PythonRuns \/ []GoRuns \/ ([]TypeScriptRuns /\ Chain!Spec)
BY Begins, GoesOn, PTL DEF FairSpec, Chain!Spec

\* TypeOK: the type invariant of the server that runs.
THEOREM TypeCorrect == FairSpec => []TypeOK
<1>1. (PythonRuns => TypeOK) /\ (GoRuns => TypeOK)
  BY PythonInvTypes, TypeOKByLanguage DEF PythonRuns, GoRuns
<1>2. TypeScriptRuns /\ Chain!TypeOK => TypeOK
  BY ChainProperties, TypeOKByLanguage DEF TypeScriptRuns
<1> QED
  BY <1>1, <1>2, Inductive, Chain!TypeCorrect, ChainAssumptions, PTL

\* OneHandlerAtATime: "Only one handler runs at a time" (base-spec.md), also while
\* that one waits for the node, in Python and in TypeScript.
THEOREM OneHandler == FairSpec => []OneHandlerAtATime
<1>1. PythonRuns => OneHandlerAtATime
  BY OneHolder DEF PythonRuns
<1>2. GoRuns => OneHandlerAtATime
  <2> SUFFICES ASSUME GoRuns PROVE OneHandlerAtATime
    OBVIOUS
  <2>1. {r \in Requests : pc[r] \in {"handler", "decrypt", "stuck"}} = {}
    BY DEF GoRuns
  <2> QED
    BY <2>1, FS_EmptySet DEF OneHandlerAtATime
<1>3. Chain!OneHandlerAtATime => OneHandlerAtATime
  BY ChainProperties
<1> QED
  BY <1>1, <1>2, <1>3, Inductive, Chain!OneHandler, ChainAssumptions, PTL

\* SignedInArrivalOrder: the TypeScript server's requests take effect in the order
\* in which they arrived, however long an update is away at the node.
THEOREM ArrivalOrder == FairSpec => []SignedInArrivalOrder
<1>1. (PythonRuns => SignedInArrivalOrder) /\ (GoRuns => SignedInArrivalOrder)
  BY QuietOrder DEF PythonRuns, GoRuns
<1>2. Chain!SignedInArrivalOrder => SignedInArrivalOrder
  BY ChainProperties DEF SignedInArrivalOrder
<1> QED
  BY <1>1, <1>2, Inductive, Chain!ArrivalOrder, ChainAssumptions, PTL

\* ImplementsService: whichever script server runs executes every call at one
\* moment, and a failed update leaves the old key.
THEOREM Refinement == FairSpec => ImplementsService
<1>1. Init => Service!Init
  <2> SUFFICES ASSUME Init PROVE Service!Init
    OBVIOUS
  <2>1. RequestsInit
    BY PythonWords DEF Init, Python!Init
  <2> QED
    BY <2>1, InitRefines
<1>2. [Chain!Service!Next]_(Chain!Service!vars) => [Service!Next]_(Service!vars)
  BY ChainProperties
<1>3. [Next]_vars /\ (PythonRuns \/ GoRuns) => [Service!Next]_(Service!vars)
  BY GoesOn
<1> QED
  BY <1>1, <1>2, <1>3, Inductive, Chain!Refinement, ChainAssumptions, PTL
     DEF FairSpec, ImplementsService, Service!Spec, Chain!ImplementsService, Chain!Service!Spec
==============================================================================
