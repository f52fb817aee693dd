-------------------------- MODULE RegistrationProofs --------------------------
(***************************************************************************)
(* register-tee, for any number of machines, runs, crashes and expiries:   *)
(* what the state file says was done was done, and a run that starts       *)
(* without the file of an earlier one has its machine in production when   *)
(* it reports success, and its check reverts only when its own challenge   *)
(* grew too old.                                                           *)
(***************************************************************************)
EXTENDS Registration, TLAPS

\* What a state file may say: the steps are recorded in their order, and the
\* challenge and the check exist and are about one machine.
Consistent(p) ==
    /\ p.attest \in 0..Len(challenges) /\ p.check \in 0..Len(checks)
    /\ "R" \in p.steps => "r" \in p.steps
    /\ "a" \in p.steps => "r" \in p.steps /\ ("R" \in Command => "R" \in p.steps)
    /\ "r" \in p.steps => \E m \in Machines : status[m] # "none"
    /\ "R" \in p.steps => p.attest \in 1..Len(challenges)
    /\ "a" \in p.steps =>
          /\ p.check \in 1..Len(checks)
          /\ p.attest \in expired
          /\ checks[p.check] = challenges[p.attest]

FileInv  == Consistent(file.progress)
StateInv == Consistent(state)

\* Where the running command is, and what it has done by then.
RunInv ==
    /\ pc # "off" => result = "running"
    /\ unsaved => pc \in {"r", "R", "a"} /\ pc \in state.steps
    /\ pc = "R" => "R" \in Command
    /\ pc \in {"R", "a"} => "r" \in state.steps
    /\ pc = "a" /\ "R" \in Command => "R" \in state.steps
    /\ pc \in {"R", "a"} \/ unsaved => attest = state.attest

\* A run without an earlier run's file skips no step, so its check is about its
\* own machine.
FreshInv ==
    ~ resumed =>
        /\ pc \in {"r", "R", "a"} /\ ~ unsaved => pc \notin state.steps
        /\ pc = "r" => "R" \notin state.steps
        /\ pc \in {"r", "R"} => "a" \notin state.steps
        /\ pc = "p" \/ (pc = "a" /\ unsaved) =>
              check \in 1..Len(checks) /\ checks[check] = tee
        /\ pc = "end" \/ result = "success" => status[tee] = "production"

\* With R among its steps, it also takes a challenge of its own.
LateInv ==
    ~ resumed /\ "R" \in Command =>
        /\ pc = "a" \/ (pc = "R" /\ unsaved) =>
              attest \in firstFresh..Len(challenges) /\ challenges[attest] = tee
        /\ result = "reverted" => attest >= firstFresh /\ attest \in expired

IInv == TypeOK /\ FileInv /\ StateInv /\ RunInv /\ FreshInv /\ LateInv

------------------------------------------------------------------------------
\* The chain forgets nothing.
Grows ==
    /\ Len(challenges) <= Len(challenges') /\ Len(checks) <= Len(checks')
    /\ \A i \in 1..Len(challenges) : challenges'[i] = challenges[i]
    /\ \A i \in 1..Len(checks) : checks'[i] = checks[i]
    /\ expired \subseteq expired'
    /\ \A m \in Machines : status[m] # "none" => status'[m] # "none"
    /\ \A m \in Machines : status[m] = "production" => status'[m] = "production"

ChainTypeOK ==
    /\ status \in [Machines -> {"none", "registered", "production"}]
    /\ challenges \in Seq(Machines) /\ checks \in Seq(Machines)
    /\ expired \subseteq 1..Len(challenges)

\* What was true of a record stays true.
LEMMA ConsistentKept ==
    ASSUME TypeOK, ChainTypeOK', Grows, NEW p \in Progress, Consistent(p)
    PROVE  Consistent(p)'
<1>1. /\ Len(challenges) \in Nat /\ Len(challenges') \in Nat
      /\ Len(checks) \in Nat /\ Len(checks') \in Nat
      /\ p.attest \in Nat /\ p.check \in Nat
  <2>1. \A s \in Seq(Machines) : Len(s) \in Nat
    OBVIOUS
  <2>2. challenges \in Seq(Machines) /\ checks \in Seq(Machines)
    BY DEF TypeOK
  <2>3. challenges' \in Seq(Machines) /\ checks' \in Seq(Machines)
    BY DEF ChainTypeOK
  <2>4. p.attest \in Nat /\ p.check \in Nat
    BY DEF Progress
  <2> QED
    BY <2>1, <2>2, <2>3, <2>4
<1>2. p.attest \in 0..Len(challenges') /\ p.check \in 0..Len(checks')
  <2>1. /\ Len(challenges) <= Len(challenges') /\ Len(checks) <= Len(checks')
        /\ p.attest <= Len(challenges) /\ p.check <= Len(checks)
    BY <1>1 DEF Consistent, Grows
  <2> QED
    BY <1>1, <2>1
<1>3. "r" \in p.steps => \E m \in Machines : status'[m] # "none"
  BY DEF Consistent, Grows
<1>4. "R" \in p.steps => p.attest \in 1..Len(challenges')
  BY <1>1 DEF Consistent, Grows
<1>5. ASSUME "a" \in p.steps
      PROVE  /\ p.check \in 1..Len(checks') /\ p.attest \in expired'
             /\ checks'[p.check] = challenges'[p.attest]
  <2>1. p.attest \in 1..Len(challenges) /\ p.check \in 1..Len(checks)
    BY <1>5 DEF Consistent, TypeOK
  <2> QED
    BY <1>1, <1>5, <2>1 DEF Consistent, Grows
<1> QED
  BY <1>2, <1>3, <1>4, <1>5 DEF Consistent

LEMMA FileKept == TypeOK /\ ChainTypeOK' /\ FileInv /\ Grows /\ UNCHANGED file => FileInv'
<1> SUFFICES ASSUME TypeOK, ChainTypeOK', FileInv, Grows, UNCHANGED file PROVE FileInv'
  OBVIOUS
<1>1. file.progress \in Progress
  BY DEF TypeOK
<1>2. \A p \in Progress : Consistent(p) => Consistent(p)'
  BY ConsistentKept
<1> QED
  BY <1>1, <1>2 DEF FileInv, Consistent

LEMMA StateKept == TypeOK /\ ChainTypeOK' /\ StateInv /\ Grows /\ UNCHANGED state => StateInv'
<1> SUFFICES ASSUME TypeOK, ChainTypeOK', StateInv, Grows, UNCHANGED state PROVE StateInv'
  OBVIOUS
<1>1. state \in Progress
  BY DEF TypeOK
<1>2. \A p \in Progress : Consistent(p) => Consistent(p)'
  BY ConsistentKept
<1> QED
  BY <1>1, <1>2 DEF StateInv, Consistent

LEMMA NothingDone == TypeOK => NoProgress \in Progress /\ Consistent(NoProgress)
BY DEF TypeOK, NoProgress, Progress, Consistent

LEMMA MishapType == TypeOK /\ Mishap => mishaps' \in 0..MaxMishaps
BY RegistrationAssumption DEF RegistrationAssumption, TypeOK, Mishap

\* A step that only moves the command on, or ends it.
LEMMA ChainSame == TypeOK /\ UNCHANGED chain => Grows /\ ChainTypeOK'
BY DEF TypeOK, chain, Grows, ChainTypeOK

\* A new challenge for this machine.
LEMMA ChallengeGrows ==
    ASSUME TypeOK, IssueChallenge
    PROVE  /\ challenges' \in Seq(Machines) /\ Len(challenges') = Len(challenges) + 1
           /\ \A i \in 1..Len(challenges) : challenges'[i] = challenges[i]
           /\ attest' = Len(challenges') /\ challenges'[attest'] = tee
BY DEF TypeOK, IssueChallenge

LEMMA Initially == Init => IInv
<1> SUFFICES ASSUME Init PROVE IInv
  OBVIOUS
<1>1. TypeOK
  <2>1. NoProgress \in Progress
    BY DEF NoProgress, Progress
  <2>2. /\ file \in {Absent, Torn} \cup {Record(file.progress)}
        /\ file.progress \in Progress /\ state \in Progress
    BY <2>1 DEF Init, Absent
  <2>3. status \in [Machines -> {"none", "registered", "production"}]
    BY DEF Init
  <2>4. /\ challenges \in Seq(Machines) /\ Len(challenges) = 0
        /\ checks \in Seq(Machines) /\ Len(checks) = 0
    BY DEF Init
  <2>5. /\ machine \in Machines /\ tee \in Machines
        /\ expired \subseteq 1..Len(challenges)
        /\ attest \in 0..Len(challenges) /\ check \in 0..Len(checks)
        /\ firstFresh \in 1..(Len(challenges) + 1)
    BY <2>4 DEF Init
  <2>6. mishaps \in 0..MaxMishaps /\ reruns \in 0..MaxReruns
    BY RegistrationAssumption DEF RegistrationAssumption, Init
  <2>7. /\ pc \in {"off", "r", "R", "a", "p", "end"}
        /\ unsaved \in BOOLEAN /\ resumed \in BOOLEAN
        /\ result \in {"none", "running", "success", "crashed", "reverted", "unreadable"}
    BY DEF Init
  <2> QED
    BY <2>2, <2>3, <2>4, <2>5, <2>6, <2>7 DEF TypeOK
<1>2. FileInv /\ StateInv
  BY <1>1, NothingDone DEF Init, FileInv, StateInv, Absent
<1>3. RunInv /\ FreshInv /\ LateInv
  BY DEF Init, RunInv, FreshInv, LateInv
<1> QED
  BY <1>1, <1>2, <1>3 DEF IInv

------------------------------------------------------------------------------
LEMMA StartKeeps ==
    ASSUME IInv, NEW resume \in Resumes, Start(resume)
    PROVE  IInv'
<1>0. TypeOK /\ FileInv /\ LateInv
  BY DEF IInv
<1>1. resume \in BOOLEAN
  BY RegistrationAssumption DEF RegistrationAssumption
<1>2. /\ file' \in {file, Absent} /\ state' = file'.progress
      /\ ~ resumed' => file' = Absent
      /\ resumed' \in BOOLEAN
      /\ file'.kind = "torn" => pc' = "off" /\ result' = "unreadable"
      /\ file'.kind # "torn" => pc' = "r" /\ result' = "running"
      /\ ~ unsaved /\ UNCHANGED unsaved
  <2>1. ~ unsaved /\ UNCHANGED unsaved
    <3>1. pc = "off"
      BY DEF Start, StartWith
    <3> QED
      BY <3>1 DEF IInv, RunInv, Start, StartWith
  <2>2. CASE StartWith(StateFound(resume), resume)
    BY <1>1, <2>1, <2>2 DEF StartWith, StateFound
  <2>3. CASE StartWith(file, TRUE)
    BY <2>1, <2>3 DEF StartWith
  <2> QED
    BY <2>2, <2>3 DEF Start
<1>3. Grows /\ ChainTypeOK'
  BY <1>0, ChainSame DEF Start, StartWith
<1>4. NoProgress \in Progress /\ Absent.progress = NoProgress
  BY <1>0, NothingDone DEF Absent
<1>5. TypeOK'
  <2>1. /\ file' \in {Absent, Torn} \cup {Record(file'.progress)}
        /\ file'.progress \in Progress /\ state' \in Progress
    BY <1>0, <1>2, <1>4 DEF TypeOK
  <2>2. reruns' \in 0..MaxReruns /\ mishaps' \in 0..MaxMishaps
    BY <1>0, MishapType, RegistrationAssumption
       DEF RegistrationAssumption, TypeOK, Start, StartWith
  <2>3. /\ machine' \in Machines /\ tee' \in Machines
        /\ pc' \in {"off", "r", "R", "a", "p", "end"} /\ unsaved' \in BOOLEAN
        /\ result' \in {"none", "running", "success", "crashed", "reverted", "unreadable"}
        /\ resumed' \in BOOLEAN
    BY <1>0, <1>1, <1>2 DEF TypeOK, Start, StartWith
  <2>4. /\ attest' \in 0..Len(challenges') /\ check' \in 0..Len(checks')
        /\ firstFresh' \in 1..(Len(challenges') + 1)
    BY <1>0 DEF TypeOK, Start, StartWith, chain
  <2> QED
    BY <1>3, <2>1, <2>2, <2>3, <2>4 DEF TypeOK, ChainTypeOK
<1>6. Consistent(file.progress)' /\ Consistent(state)'
  <2>1. CASE file' = file
    <3>1. FileInv'
      BY <1>0, <1>3, <2>1, FileKept
    <3> QED
      BY <1>2, <3>1 DEF FileInv, Consistent
  <2>2. CASE file' = Absent
    BY <1>0, <1>2, <1>4, <2>2 DEF Consistent, NoProgress, Start, StartWith, TypeOK, chain
  <2> QED
    BY <1>2, <2>1, <2>2
<1>7. RunInv'
  BY <1>2 DEF RunInv
<1>8. FreshInv' /\ LateInv'
  BY <1>1, <1>2, <1>4 DEF FreshInv, LateInv, Start, StartWith, NoProgress
<1> QED
  BY <1>5, <1>6, <1>7, <1>8 DEF IInv, FileInv, StateInv

\* A step already recorded is skipped.
LEMMA SkipKeeps ==
    ASSUME IInv, pc \in {"r", "R", "a"}, pc \in state.steps, ~ unsaved, Skip,
           attest' = state.attest,
           check' \in 0..Len(checks),
           UNCHANGED <<machine, chain, file, tee, result, firstFresh, resumed, counts>>
    PROVE  IInv'
<1>0. TypeOK /\ FileInv /\ StateInv /\ RunInv
  BY DEF IInv
<1>1. Grows /\ ChainTypeOK'
  BY <1>0, ChainSame
<1>2. /\ pc = "r" => pc' = IF "R" \in Command THEN "R" ELSE "a"
      /\ pc = "R" => pc' = "a"
      /\ pc = "a" => pc' = "p"
  BY DEF Skip, After
<1>3. TypeOK'
  BY <1>0, <1>1, <1>2 DEF TypeOK, ChainTypeOK, Skip, StateInv, Consistent, counts, chain
<1>4. FileInv' /\ StateInv'
  BY <1>0, <1>1, FileKept, StateKept DEF Skip
<1>5. RunInv'
  BY <1>0, <1>2 DEF RunInv, Skip
<1>6. FreshInv' /\ LateInv'
  BY <1>0 DEF IInv, FreshInv, LateInv
<1> QED
  BY <1>3, <1>4, <1>5, <1>6 DEF IInv

LEMMA PreRegisterKeeps == IInv /\ PreRegister => IInv'
<1> SUFFICES ASSUME IInv, PreRegister PROVE IInv'
  OBVIOUS
<1>0. TypeOK /\ FileInv /\ StateInv /\ RunInv /\ pc = "r" /\ ~ unsaved
  BY DEF IInv, PreRegister
<1>1. CASE "r" \in state.steps
  BY <1>0, <1>1, SkipKeeps DEF PreRegister, TypeOK, chain
<1>2. CASE "r" \notin state.steps
  <2>1. /\ state' = [steps |-> state.steps \cup {"r"}, attest |-> attest', check |-> state.check]
        /\ unsaved' /\ pc' = "r"
    BY <1>0, <1>2 DEF PreRegister, Complete, TypeOK, Progress
  <2>2. \/ status[tee] # "none" /\ UNCHANGED <<status, challenges, attest>>
        \/ /\ status[tee] = "none" /\ status' = [status EXCEPT ![tee] = "registered"]
           /\ IssueChallenge
    BY <1>2 DEF PreRegister
  <2>3. /\ Grows /\ ChainTypeOK' /\ status'[tee] # "none"
        /\ attest' \in 0..Len(challenges')
    <3>1. CASE status[tee] # "none" /\ UNCHANGED <<status, challenges, attest>>
      BY <1>0, <3>1 DEF PreRegister, TypeOK, Grows, ChainTypeOK
    <3>2. CASE /\ status[tee] = "none" /\ status' = [status EXCEPT ![tee] = "registered"]
               /\ IssueChallenge
      BY <1>0, <3>2, ChallengeGrows DEF PreRegister, TypeOK, Grows, ChainTypeOK
    <3> QED
      BY <2>2, <3>1, <3>2
  <2>4. FileInv'
    BY <1>0, <2>3, FileKept DEF PreRegister
  <2>5. StateInv'
    BY <1>0, <1>2, <2>1, <2>3 DEF StateInv, Consistent, PreRegister, TypeOK, Grows, ChainTypeOK
  <2>6. TypeOK'
    <3>1. state' \in Progress
      BY <1>0, <2>1, <2>3 DEF Progress, TypeOK, ChainTypeOK
    <3> QED
      BY <1>0, <2>1, <2>3, <3>1 DEF TypeOK, ChainTypeOK, PreRegister, Grows, counts
  <2>7. RunInv'
    BY <1>0, <2>1 DEF RunInv, PreRegister
  <2>8. FreshInv' /\ LateInv'
    BY <1>0, <2>1 DEF IInv, FreshInv, LateInv, RunInv, PreRegister
  <2> QED
    BY <2>4, <2>5, <2>6, <2>7, <2>8 DEF IInv
<1> QED
  BY <1>1, <1>2

LEMMA RequestAttestationKeeps == IInv /\ RequestAttestation => IInv'
<1> SUFFICES ASSUME IInv, RequestAttestation PROVE IInv'
  OBVIOUS
<1>0. TypeOK /\ FileInv /\ StateInv /\ RunInv /\ pc = "R" /\ ~ unsaved
  BY DEF IInv, RequestAttestation
<1>1. CASE "R" \in state.steps
  BY <1>0, <1>1, SkipKeeps DEF RequestAttestation, TypeOK, chain
<1>2. CASE "R" \notin state.steps
  <2>1. /\ state' = [steps |-> state.steps \cup {"R"}, attest |-> attest', check |-> state.check]
        /\ unsaved' /\ pc' = "R" /\ IssueChallenge
    BY <1>0, <1>2 DEF RequestAttestation, Complete, TypeOK, Progress
  <2>2. /\ Grows /\ ChainTypeOK' /\ attest' \in 1..Len(challenges')
        /\ challenges'[attest'] = tee /\ Len(challenges') = Len(challenges) + 1
        /\ attest' = Len(challenges) + 1
    BY <1>0, <2>1, ChallengeGrows DEF RequestAttestation, TypeOK, Grows, ChainTypeOK
  <2>3. FileInv'
    BY <1>0, <2>2, FileKept DEF RequestAttestation
  <2>4. StateInv'
    <3>1. "a" \notin state.steps /\ "r" \in state.steps
      BY <1>0, <1>2 DEF StateInv, Consistent, RunInv
    <3> QED
      BY <1>0, <2>1, <2>2, <3>1
         DEF StateInv, Consistent, RequestAttestation, TypeOK, Grows, ChainTypeOK
  <2>5. TypeOK'
    <3>1. state' \in Progress
      BY <1>0, <2>1, <2>2 DEF Progress, TypeOK, ChainTypeOK
    <3> QED
      BY <1>0, <2>1, <2>2, <3>1 DEF TypeOK, ChainTypeOK, RequestAttestation, Grows, counts
  <2>6. RunInv'
    BY <1>0, <2>1 DEF RunInv, RequestAttestation
  <2>7. FreshInv'
    BY <1>0, <2>1 DEF IInv, FreshInv, RunInv, RequestAttestation
  <2>8. LateInv'
    BY <1>0, <2>1, <2>2 DEF TypeOK, LateInv, RunInv, RequestAttestation
  <2> QED
    BY <2>3, <2>4, <2>5, <2>6, <2>7, <2>8 DEF IInv
<1> QED
  BY <1>1, <1>2

LEMMA RequestCheckKeeps == IInv /\ RequestCheck => IInv'
<1> SUFFICES ASSUME IInv, RequestCheck PROVE IInv'
  OBVIOUS
<1>0. TypeOK /\ FileInv /\ StateInv /\ RunInv /\ pc = "a" /\ ~ unsaved /\ attest = state.attest
  BY DEF IInv, RequestCheck, RunInv
<1>1. CASE "a" \in state.steps
  <2>1. check' \in 0..Len(checks)
    BY <1>0, <1>1 DEF RequestCheck, StateInv, Consistent
  <2> QED
    BY <1>0, <1>1, <2>1, SkipKeeps DEF RequestCheck, TypeOK, chain
<1>2. CASE "a" \notin state.steps /\ Acceptable(attest)
  <2>1. /\ state' = [steps |-> state.steps \cup {"a"}, attest |-> state.attest, check |-> check']
        /\ unsaved' /\ pc' = "a"
        /\ checks' = Append(checks, tee) /\ check' = Len(checks) + 1
        /\ expired' = expired \cup {attest}
    BY <1>0, <1>2 DEF RequestCheck, Complete, TypeOK, Progress
  <2>2. attest \in 1..Len(challenges) /\ challenges[attest] = tee
    BY <1>0, <1>2 DEF Acceptable, TypeOK
  <2>3. /\ Grows /\ ChainTypeOK' /\ check' \in 1..Len(checks') /\ checks'[check'] = tee
        /\ Len(checks') \in Nat
    BY <1>0, <2>1, <2>2 DEF RequestCheck, TypeOK, Grows, ChainTypeOK
  <2>4. FileInv'
    BY <1>0, <2>3, FileKept DEF RequestCheck
  <2>5. StateInv'
    BY <1>0, <2>1, <2>2, <2>3 DEF StateInv, Consistent, RunInv, RequestCheck, TypeOK
  <2>6. TypeOK'
    <3>1. state' \in Progress
      BY <1>0, <2>1, <2>3 DEF Progress, TypeOK
    <3> QED
      BY <1>0, <2>1, <2>3, <3>1 DEF TypeOK, ChainTypeOK, RequestCheck, counts
  <2>7. RunInv'
    BY <1>0, <2>1 DEF RunInv, RequestCheck
  <2>8. FreshInv' /\ LateInv'
    BY <1>0, <2>1, <2>3 DEF IInv, FreshInv, LateInv, RunInv, RequestCheck
  <2> QED
    BY <2>4, <2>5, <2>6, <2>7, <2>8 DEF IInv
<1>3. CASE "a" \notin state.steps /\ ~ Acceptable(attest)
  <2>1. /\ pc' = "off" /\ result' = "reverted"
        /\ UNCHANGED <<machine, chain, check, state, unsaved, file, tee, attest,
                       firstFresh, resumed, counts>>
    BY <1>3 DEF RequestCheck, chain
  <2>2. Grows /\ ChainTypeOK'
    BY <1>0, <2>1, ChainSame
  <2>3. FileInv' /\ StateInv'
    BY <1>0, <2>1, <2>2, FileKept, StateKept
  <2>4. TypeOK'
    BY <1>0, <2>1 DEF TypeOK, chain, counts
  <2>5. RunInv' /\ FreshInv'
    BY <1>0, <2>1 DEF RunInv, FreshInv
  <2>6. LateInv'
    BY <1>0, <1>3, <2>1 DEF IInv, LateInv, Acceptable, TypeOK, chain
  <2> QED
    BY <2>3, <2>4, <2>5, <2>6 DEF IInv
<1> QED
  BY <1>1, <1>2, <1>3

LEMMA SaveKeeps == IInv /\ Save => IInv'
<1> SUFFICES ASSUME IInv, Save PROVE IInv'
  OBVIOUS
<1>0. TypeOK /\ FileInv /\ StateInv /\ RunInv /\ pc \in state.steps
  BY DEF IInv, Save, RunInv
<1>1. /\ pc = "r" => pc' = IF "R" \in Command THEN "R" ELSE "a"
      /\ pc = "R" => pc' = "a"
      /\ pc = "a" => pc' = "p"
      /\ pc \in {"r", "R", "a"} /\ ~ unsaved' /\ unsaved' \in BOOLEAN
  BY <1>0 DEF Save, After, RunInv
<1>2. Grows /\ ChainTypeOK'
  BY <1>0, ChainSame DEF Save
<1>3. StateInv'
  BY <1>0, <1>2, StateKept DEF Save, locals
<1>4. file' \in {file, Torn, Record(state)} /\ mishaps' \in 0..MaxMishaps
  BY <1>0, MishapType DEF Save, TypeOK
<1>5. FileInv' /\ file'.progress \in Progress
      /\ file' \in {Absent, Torn} \cup {Record(file'.progress)}
  <2>1. CASE file' = file
    BY <1>0, <1>2, <2>1, FileKept DEF TypeOK
  <2>2. CASE file' = Torn
    BY <1>0, <2>2, NothingDone DEF Torn, FileInv, Save, chain, Consistent, NoProgress, TypeOK
  <2>3. CASE file' = Record(state)
    <3>1. file'.progress = state /\ UNCHANGED state
      BY <2>3 DEF Record, Save, locals
    <3> QED
      BY <1>0, <1>3, <2>3, <3>1 DEF StateInv, FileInv, Consistent, TypeOK
  <2> QED
    BY <1>4, <2>1, <2>2, <2>3
<1>6. TypeOK'
  BY <1>0, <1>1, <1>4, <1>5 DEF Save, TypeOK, chain, locals
<1>7. RunInv'
  BY <1>0, <1>1 DEF RunInv, Save, locals
<1>8. FreshInv'
  BY <1>0, <1>1 DEF IInv, RunInv, FreshInv, Save, locals, chain
<1>9. LateInv'
  BY <1>0, <1>1 DEF IInv, RunInv, LateInv, Save, locals, chain
<1> QED
  BY <1>3, <1>5, <1>6, <1>7, <1>8, <1>9 DEF IInv

LEMMA PromoteKeeps == IInv /\ Promote => IInv'
<1> SUFFICES ASSUME IInv, Promote PROVE IInv'
  OBVIOUS
<1>0. TypeOK /\ FileInv /\ StateInv /\ RunInv /\ pc = "p"
  BY DEF IInv, Promote
<1>1. pc' = "end" /\ ~ unsaved /\ UNCHANGED unsaved
  BY <1>0 DEF Promote, After, RunInv
<1>2. /\ status' \in [Machines -> {"none", "registered", "production"}]
      /\ \A m \in Machines : status[m] # "none" => status'[m] # "none"
      /\ \A m \in Machines : status[m] = "production" => status'[m] = "production"
      /\ checks[check] \in Machines => status'[checks[check]] = "production"
  BY <1>0 DEF Promote, AlreadyPromoted, TypeOK
<1>3. Grows /\ ChainTypeOK'
  BY <1>0, <1>2 DEF Promote, TypeOK, Grows, ChainTypeOK
<1>4. FileInv' /\ StateInv'
  BY <1>0, <1>3, FileKept, StateKept DEF Promote, locals
<1>5. TypeOK'
  BY <1>0, <1>1, <1>3 DEF Promote, TypeOK, ChainTypeOK, locals, counts
<1>6. RunInv'
  BY <1>0, <1>1 DEF RunInv, Promote
<1>7. FreshInv'
  BY <1>0, <1>1, <1>2 DEF IInv, TypeOK, FreshInv, RunInv, Promote, locals
<1>8. LateInv'
  BY <1>0, <1>1 DEF IInv, LateInv, Promote, locals
<1> QED
  BY <1>4, <1>5, <1>6, <1>7, <1>8 DEF IInv

\* A run that has nothing more to do, or can do no more.
LEMMA FinishKeeps == IInv /\ Finish => IInv'
<1> SUFFICES ASSUME IInv, Finish PROVE IInv'
  OBVIOUS
<1>0. TypeOK /\ FileInv /\ StateInv /\ RunInv
  BY DEF IInv
<1>1. Grows /\ ChainTypeOK' /\ NoProgress \in Progress /\ Absent.progress = NoProgress
  BY <1>0, ChainSame, NothingDone DEF Finish, Absent
<1>2. file' \in {file, Absent} /\ mishaps' \in 0..MaxMishaps
  BY <1>0, MishapType DEF Finish, TypeOK
<1>3. FileInv'
  <2>1. CASE file' = file
    BY <1>0, <1>1, <2>1, FileKept
  <2>2. CASE file' = Absent
    BY <1>0, <1>1, <2>2 DEF FileInv, Consistent, NoProgress, Finish, chain, TypeOK
  <2> QED
    BY <1>2, <2>1, <2>2
<1>4. StateInv'
  BY <1>0, <1>1, StateKept DEF Finish, locals
<1>5. TypeOK'
  BY <1>0, <1>1, <1>2 DEF Finish, TypeOK, chain, locals
<1>6. RunInv' /\ FreshInv' /\ LateInv'
  BY <1>0 DEF IInv, RunInv, FreshInv, LateInv, Finish, locals, chain
<1> QED
  BY <1>3, <1>4, <1>5, <1>6 DEF IInv

LEMMA CrashKeeps == IInv /\ Crash => IInv'
<1> SUFFICES ASSUME IInv, Crash PROVE IInv'
  OBVIOUS
<1>0. TypeOK /\ FileInv /\ StateInv /\ RunInv
  BY DEF IInv
<1>1. Grows /\ ChainTypeOK' /\ NoProgress \in Progress /\ Torn.progress = NoProgress
  BY <1>0, ChainSame, NothingDone DEF Crash, Torn
<1>2. file' \in {file, Torn} /\ mishaps' \in 0..MaxMishaps
  BY <1>0, MishapType DEF Crash, TypeOK
<1>3. FileInv'
  <2>1. CASE file' = file
    BY <1>0, <1>1, <2>1, FileKept
  <2>2. CASE file' = Torn
    BY <1>0, <1>1, <2>2 DEF FileInv, Consistent, NoProgress, Crash, chain, TypeOK
  <2> QED
    BY <1>2, <2>1, <2>2
<1>4. StateInv'
  BY <1>0, <1>1, StateKept DEF Crash, locals
<1>5. TypeOK'
  BY <1>0, <1>1, <1>2 DEF Crash, TypeOK, chain, locals
<1>6. RunInv' /\ FreshInv' /\ LateInv'
  BY <1>0 DEF IInv, RunInv, FreshInv, LateInv, Crash, locals, chain
<1> QED
  BY <1>3, <1>4, <1>5, <1>6 DEF IInv

\* What happens around the command.
LEMMA ExpireKeeps == IInv /\ Expire => IInv'
<1> SUFFICES ASSUME IInv, Expire PROVE IInv'
  OBVIOUS
<1>0. TypeOK /\ FileInv /\ StateInv /\ RunInv
  BY DEF IInv
<1>1. PICK c \in 1..Len(challenges) : expired' = expired \cup {c}
  BY DEF Expire
<1>2. Grows /\ ChainTypeOK'
  BY <1>0, <1>1 DEF Expire, TypeOK, Grows, ChainTypeOK
<1>3. FileInv' /\ StateInv'
  BY <1>0, <1>2, FileKept, StateKept DEF Expire, locals
<1>4. TypeOK'
  BY <1>0, <1>2, MishapType DEF Expire, TypeOK, ChainTypeOK, locals
<1>5. RunInv' /\ FreshInv' /\ LateInv'
  BY <1>0, <1>1 DEF IInv, RunInv, FreshInv, LateInv, Expire, locals
<1> QED
  BY <1>3, <1>4, <1>5 DEF IInv

LEMMA ReplaceKeeps == IInv /\ ReplaceMachine => IInv'
<1> SUFFICES ASSUME IInv, ReplaceMachine PROVE IInv'
  OBVIOUS
<1>0. TypeOK /\ FileInv /\ StateInv
  BY DEF IInv
<1>1. Grows /\ ChainTypeOK'
  BY <1>0, ChainSame DEF ReplaceMachine
<1>2. FileInv' /\ StateInv'
  BY <1>0, <1>1, FileKept, StateKept DEF ReplaceMachine, locals
<1>3. TypeOK'
  BY <1>0, MishapType DEF ReplaceMachine, TypeOK, chain, locals
<1>4. RunInv' /\ FreshInv' /\ LateInv'
  BY DEF IInv, RunInv, FreshInv, LateInv, ReplaceMachine, locals, chain
<1> QED
  BY <1>2, <1>3, <1>4 DEF IInv

LEMMA Inductiveness == IInv /\ [Next]_vars => IInv'
<1> SUFFICES ASSUME IInv, [Next]_vars PROVE IInv'
  OBVIOUS
<1>1. ASSUME NEW resume \in Resumes, Start(resume) PROVE IInv'
  BY <1>1, StartKeeps
<1>2. CASE Run
  BY <1>2, PreRegisterKeeps, RequestAttestationKeeps, RequestCheckKeeps, SaveKeeps,
     PromoteKeeps, FinishKeeps DEF Run
<1>3. CASE UNCHANGED vars
  BY <1>3 DEF vars, chain, locals, counts, IInv, TypeOK, FileInv, StateInv, Consistent,
              RunInv, FreshInv, LateInv
<1> QED
  BY <1>1, <1>2, <1>3, CrashKeeps, ExpireKeeps, ReplaceKeeps DEF Next, Begin

------------------------------------------------------------------------------
\* The strengthening of the properties below holds in every state.
THEOREM Inductive == Spec => []IInv
BY Initially, Inductiveness, PTL DEF Spec

\* TypeOK: the type invariant; every id that the command holds was issued.
THEOREM TypeCorrect == Spec => []TypeOK
<1>1. IInv => TypeOK
  BY DEF IInv
<1> QED
  BY <1>1, Inductive, PTL

\* RecordedStepsHappened: what the state file says was done was done, wherever the
\* command died and however often it was resumed.
THEOREM FileTellsTheTruth == Spec => []RecordedStepsHappened
<1>1. IInv => RecordedStepsHappened
  BY DEF IInv, FileInv, Consistent, RecordedStepsHappened
<1> QED
  BY <1>1, Inductive, PTL

\* FreshSuccessMeansProduction: a run that starts without the file of an earlier
\* one and reports success has its machine in production.
THEOREM FreshSuccess == Spec => []FreshSuccessMeansProduction
<1>1. IInv => FreshSuccessMeansProduction
  BY DEF IInv, FreshInv, FreshSuccessMeansProduction, SuccessMeansProduction
<1> QED
  BY <1>1, Inductive, PTL

\* OnlyALateCheckReverts: with R among its steps, as in post-build.sh, such a run
\* reverts only when its own challenge grew too old.
THEOREM OnlyLate == ASSUME "R" \in Command PROVE Spec => []OnlyALateCheckReverts
<1>1. IInv => OnlyALateCheckReverts
  BY DEF IInv, LateInv, OnlyALateCheckReverts
<1> QED
  BY <1>1, Inductive, PTL
===============================================================================
