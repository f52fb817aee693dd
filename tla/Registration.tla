------------------------------ MODULE Registration ------------------------------
(***************************************************************************)
(* register-tee: the command that takes a TEE machine into production, in  *)
(* the steps r (pre-register), R (ask for a new attestation challenge), a  *)
(* (availability check) and p (promote).  It records its progress in a     *)
(* state file, may die anywhere, and is started again.  The chain's        *)
(* machine registry and verification contracts are external: what they     *)
(* accept is taken from how the command uses them.                         *)
(***************************************************************************)
EXTENDS Naturals, Sequences, FiniteSets

CONSTANTS
    Machines,     \* TEE machines, as their ids
    Command,      \* the steps asked for: {"r", "R", "a", "p"} in post-build.sh
    Resumes,      \* is -resume passed?  A subset of BOOLEAN
    MaxMishaps,   \* bound on crashes, expiries, file errors, replacements
    MaxReruns     \* bound on the runs started without need

ASSUME RegistrationAssumption ==
    /\ {"r", "a", "p"} \subseteq Command
    /\ Command \subseteq {"r", "R", "a", "p"}
    /\ Resumes \subseteq BOOLEAN
    /\ MaxMishaps \in Nat /\ MaxReruns \in Nat

VARIABLES
    machine,      \* the machine behind the extension proxy
    status,       \* on chain: status of each machine
    challenges,   \* on chain: the machine of each challenge issued, by id
    expired,      \* on chain: challenges used, or too old
    checks,       \* on chain: the machine of each availability check, by id
    file,         \* the state file
    pc,           \* the next step of the running command, or "off"
    unsaved,      \* is a finished step yet to be recorded?
    tee,          \* teeID, read when the command started
    state,        \* the registrationState in memory
    attest,       \* teeAttestInstructionID; 0 is the zero hash
    check,        \* instructionID
    result,       \* how the last run ended
    resumed,      \* did the last run stand on an earlier run's file?
    firstFresh,   \* history: the first challenge id this run could be issued
    mishaps, reruns

chain   == <<status, challenges, expired, checks>>
locals  == <<tee, state, attest, check, firstFresh, resumed>>
counts  == <<mishaps, reruns>>
vars    == <<machine, chain, file, pc, unsaved, locals, result, counts>>

NoProgress == [steps |-> {}, attest |-> 0, check |-> 0]
Progress == [steps : SUBSET {"r", "R", "a"}, attest : Nat, check : Nat]

Absent    == [kind |-> "absent", progress |-> NoProgress]
Torn      == [kind |-> "torn", progress |-> NoProgress]
Record(s) == [kind |-> "record", progress |-> s]

Init ==
    /\ machine \in Machines
    /\ status = [m \in Machines |-> "none"]
    /\ challenges = <<>> /\ expired = {} /\ checks = <<>>
    /\ file = Absent
    /\ pc = "off" /\ unsaved = FALSE /\ result = "none"
    /\ tee = machine /\ state = NoProgress /\ attest = 0 /\ check = 0
    /\ firstFresh = 1 /\ resumed = FALSE
    /\ mishaps = 0 /\ reruns = 0

Mishap == mishaps < MaxMishaps /\ mishaps' = mishaps + 1

\* The next step of the command after one of its steps.
After(step) ==
    CASE step = "r" /\ "R" \in Command -> "R"
      [] step = "r" /\ "R" \notin Command -> "a"
      [] step = "R" -> "a"
      [] step = "a" -> "p"
      [] step = "p" -> "end"

------------------------------------------------------------------------------
\* A slip to compare with: the file of the last run is left where it is.
StateFound_kept(resume) == IF resume \in BOOLEAN THEN file ELSE Absent

\* Without -resume the file is removed first.
StateFound(resume) == IF resume THEN file ELSE Absent

\* main() after the removal, up to RegisterNode, and loadState.  The run stands on
\* an earlier one if it may have found that run's file.
StartWith(found, earlier) ==
    /\ pc = "off"
    /\ \/ status[machine] # "production" /\ UNCHANGED reruns
       \/ reruns < MaxReruns /\ reruns' = reruns + 1
    /\ file' = found
    /\ tee' = machine
    /\ state' = found.progress
    /\ attest' = 0 /\ check' = 0
    /\ firstFresh' = Len(challenges) + 1 /\ resumed' = earlier
    /\ IF found.kind = "torn"
       THEN pc' = "off" /\ result' = "unreadable"
       ELSE pc' = "r"   /\ result' = "running"
    /\ UNCHANGED <<machine, chain, unsaved>>

\* Where the removal fails, the command only warns and goes on with the file.
Start(resume) ==
    \/ StartWith(StateFound(resume), resume) /\ UNCHANGED mishaps
    \/ ~ resume /\ file # Absent /\ StartWith(file, TRUE) /\ Mishap

Skip == pc' = After(pc) /\ UNCHANGED <<state, unsaved>>

\* The step is done; saveState comes next.
Complete(progress) ==
    /\ state' = [progress EXCEPT !.steps = @ \cup {pc}]
    /\ unsaved' = TRUE
    /\ UNCHANGED pc

\* A slip to compare with: the id is read when the counter has moved on.
IssueChallenge_next ==
    /\ challenges' = Append(challenges, tee)
    /\ attest' = Len(challenges) + 2

\* Register and requestTeeAttestation issue a challenge to this machine.
IssueChallenge ==
    /\ challenges' = Append(challenges, tee)
    /\ attest' = Len(challenges) + 1

PreRegister ==
    /\ pc = "r" /\ ~ unsaved
    /\ \/ /\ "r" \in state.steps
          /\ attest' = state.attest
          /\ Skip
          /\ UNCHANGED <<status, challenges>>
       \/ /\ "r" \notin state.steps
          /\ \/ /\ status[tee] # "none"      \* already registered on-chain
                /\ UNCHANGED <<status, challenges, attest>>
             \/ /\ status[tee] = "none"
                /\ status' = [status EXCEPT ![tee] = "registered"]
                /\ IssueChallenge
          /\ Complete([state EXCEPT !.attest = attest'])
    /\ UNCHANGED <<machine, expired, checks, file, tee, check, firstFresh,
                   resumed, result, counts>>

\* A slip to compare with: the new challenge is not recorded with the step.
RequestAttestation_unrecorded ==
    /\ pc = "R" /\ ~ unsaved
    /\ \/ /\ "R" \in state.steps
          /\ attest' = state.attest
          /\ Skip
          /\ UNCHANGED challenges
       \/ /\ "R" \notin state.steps
          /\ IssueChallenge
          /\ Complete(state)
    /\ UNCHANGED <<machine, status, expired, checks, file, tee, check,
                   firstFresh, resumed, result, counts>>

RequestAttestation ==
    /\ pc = "R" /\ ~ unsaved
    /\ \/ /\ "R" \in state.steps
          /\ attest' = state.attest
          /\ Skip
          /\ UNCHANGED challenges
       \/ /\ "R" \notin state.steps
          /\ IssueChallenge
          /\ Complete([state EXCEPT !.attest = attest'])
    /\ UNCHANGED <<machine, status, expired, checks, file, tee, check,
                   firstFresh, resumed, result, counts>>

\* The contract wants a challenge of this machine, unused and not too old.
Acceptable(challenge) ==
    challenge # 0 /\ challenges[challenge] = tee /\ challenge \notin expired

RequestCheck ==
    /\ pc = "a" /\ ~ unsaved
    /\ \/ /\ "a" \in state.steps
          /\ check' = state.check
          /\ Skip
          /\ UNCHANGED <<expired, checks, result>>
       \/ /\ "a" \notin state.steps /\ Acceptable(attest)
          /\ expired' = expired \cup {attest}
          /\ checks' = Append(checks, tee)
          /\ check' = Len(checks) + 1
          /\ Complete([state EXCEPT !.check = check'])
          /\ UNCHANGED result
       \/ /\ "a" \notin state.steps /\ ~ Acceptable(attest)
          /\ pc' = "off" /\ result' = "reverted"
          /\ UNCHANGED <<expired, checks, check, state, unsaved>>
    /\ UNCHANGED <<machine, status, challenges, file, tee, attest, firstFresh,
                   resumed, counts>>

\* saveState: a failed write is only warned about, and may spoil the file.
Save ==
    /\ unsaved
    /\ \/ file' = Record(state) /\ UNCHANGED mishaps
       \/ file' \in {file, Torn} /\ Mishap
    /\ unsaved' = FALSE
    /\ pc' = After(pc)
    /\ UNCHANGED <<machine, chain, locals, result, reruns>>

\* A slip to compare with: the guard takes any registered machine for promoted.
AlreadyPromoted_registered(m) == status[m] # "none"

AlreadyPromoted(m) == status[m] = "production"

\* ToProduction: the machine to promote is the one the proof is about, which is
\* the machine of the check; one that is in production already is left alone.
Promote ==
    /\ pc = "p"
    /\ LET m == checks[check]
       IN  IF AlreadyPromoted(m) THEN UNCHANGED status
           ELSE status' = [status EXCEPT ![m] = "production"]
    /\ pc' = After(pc)
    /\ UNCHANGED <<machine, challenges, expired, checks, file, unsaved, locals,
                   result, counts>>

\* RegisterNode returns nil; that the file could not be removed goes unnoticed.
Finish ==
    /\ pc = "end"
    /\ \/ file' = Absent /\ UNCHANGED mishaps
       \/ UNCHANGED file /\ Mishap
    /\ pc' = "off" /\ result' = "success"
    /\ UNCHANGED <<machine, chain, unsaved, locals, reruns>>

\* The run ends early: killed, an RPC error, a transaction whose receipt is
\* late, no check result within 15 polls.  A write may be cut in two.
Crash ==
    /\ pc # "off" /\ Mishap
    /\ file' \in {file} \cup (IF unsaved THEN {Torn} ELSE {})
    /\ pc' = "off" /\ unsaved' = FALSE /\ result' = "crashed"
    /\ UNCHANGED <<machine, chain, locals, reruns>>

\* A challenge grows too old.
Expire ==
    /\ Mishap
    /\ \E c \in 1..Len(challenges) : expired' = expired \cup {c}
    /\ UNCHANGED <<machine, status, challenges, checks, file, pc, unsaved,
                   locals, result, reruns>>

\* A new machine (a new key, hence a new id) comes up behind the proxy.
ReplaceMachine ==
    /\ Mishap
    /\ machine' \in {m \in Machines : m # machine /\ status[m] = "none"}
    /\ UNCHANGED <<chain, file, pc, unsaved, locals, result, reruns>>

Run == PreRegister \/ RequestAttestation \/ RequestCheck \/ Save \/ Promote \/ Finish

Begin == \E resume \in Resumes : Start(resume)

Next == Begin \/ Run \/ Crash \/ Expire \/ ReplaceMachine

Spec == Init /\ [][Next]_vars

\* A run that does not crash goes on, and the operator starts the command again
\* until the machine is in production, sooner or later without -resume, as
\* TESTNET_DEPLOYMENT.md tells him (unless he never does: Resumes = {TRUE}).
StartUntilPromoted == Begin /\ status[machine] # "production"
StartAfresh == FALSE \in Resumes /\ Start(FALSE) /\ status[machine] # "production"

FairSpec == Spec /\ WF_vars(Run) /\ WF_vars(StartUntilPromoted) /\ SF_vars(StartAfresh)

------------------------------------------------------------------------------
TypeOK ==
    /\ machine \in Machines /\ tee \in Machines
    /\ status \in [Machines -> {"none", "registered", "production"}]
    /\ challenges \in Seq(Machines) /\ checks \in Seq(Machines)
    /\ expired \subseteq 1..Len(challenges)
    /\ file \in {Absent, Torn} \cup {Record(file.progress)}
    /\ file.progress \in Progress /\ state \in Progress
    /\ pc \in {"off", "r", "R", "a", "p", "end"}
    /\ unsaved \in BOOLEAN
    /\ attest \in 0..Len(challenges) /\ check \in 0..Len(checks)
    /\ result \in {"none", "running", "success", "crashed", "reverted", "unreadable"}
    /\ firstFresh \in 1..(Len(challenges) + 1) /\ resumed \in BOOLEAN
    /\ mishaps \in 0..MaxMishaps /\ reruns \in 0..MaxReruns

\* A run that reports success leaves the machine it was started for in
\* production, whatever earlier runs did and wherever they died.
SuccessMeansProduction == result = "success" => status[tee] = "production"

\* That holds of the runs that start without the file of an earlier one: those of
\* post-build.sh, which passes no -resume, unless the file cannot be removed.
FreshSuccessMeansProduction == ~ resumed => SuccessMeansProduction

\* In such a run the availability check reverts only when the challenge this
\* very run was issued grew too old: neither the machine's being registered
\* already nor the remains of an earlier run can make it revert.
OnlyALateCheckReverts ==
    result = "reverted" /\ ~ resumed => attest >= firstFresh /\ attest \in expired

\* What the file says was done was done: the challenge and the check it names
\* exist, and are about one machine, wherever the command died.
RecordedStepsHappened ==
    file.kind = "record" =>
        LET done == file.progress
        IN  /\ "r" \in done.steps => \E m \in Machines : status[m] # "none"
            /\ "R" \in done.steps => done.attest \in 1..Len(challenges)
            /\ "a" \in done.steps =>
                  /\ done.check \in 1..Len(checks)
                  /\ done.attest \in expired
                  /\ checks[done.check] = challenges[done.attest]

\* The machine behind the proxy gets into production and stays there, however
\* the finitely many mishaps fall.
EventuallyInProduction == <>[](status[machine] = "production")
==============================================================================
