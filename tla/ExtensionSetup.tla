---------------------------- MODULE ExtensionSetup ----------------------------
(***************************************************************************)
(* Setting an extension up: pre-build.sh deploys an InstructionSender and  *)
(* registers an extension for it, start-services.sh starts a TEE node and  *)
(* its proxy, post-build.sh allows the TEE's version and promotes the      *)
(* machine (Registration has its steps in detail), and test.sh sends an    *)
(* update and a sign instruction through the InstructionSender.  Scripts   *)
(* die anywhere, the TEE dies, and the operator starts again what is       *)
(* missing.  Three places name the extension, and must agree: the config   *)
(* file, the InstructionSender and the TEE.                                *)
(***************************************************************************)
EXTENDS Integers, Sequences

CONSTANTS
    Reserved,    \* number of extensions that others registered before
    Modes,       \* ways to start the services: a subset of {"docker", "local"}
    MaxMishaps,  \* bound on deaths, swallowed errors and late answers
    MaxWhims     \* bound on the scripts run without need

ASSUME ExtensionSetupAssumption ==
    /\ Reserved \in Nat
    /\ Modes # {} /\ Modes \subseteq {"docker", "local"}
    /\ MaxMishaps \in Nat /\ MaxWhims \in Nat

VARIABLES
    registry,  \* on chain: the extensions; extension n is registry[n + 1]
    senders,   \* on chain: _extensionId of each InstructionSender deployed
    machines,  \* every TEE machine started, with its record on chain
    config,    \* config/extension.env
    mode,      \* how this operator starts the services
    tee,       \* the machine running, or 0
    proxy,     \* the machine the proxy's /info tells of, or 0 for no proxy
    hasKey,    \* has the running machine the test key?
    at,        \* the next step of the running script, or "idle"
    draft,     \* EXTENSION_ID and INSTRUCTION_SENDER in pre-build.sh
    sent,      \* the machine that the last instruction was sent to
    result,    \* how the last test ended
    mishaps, whims

chain    == <<registry, senders>>
services == <<tee, proxy, hasKey>>
counts   == <<mishaps, whims>>
vars     == <<chain, machines, config, mode, services, at, draft, sent, result,
              counts>>

NoConfig == [id |-> 0, sender |-> 0]

\* Nobody's InstructionSender is 0; the reserved extensions are complete.
Foreign == [sender |-> 0, machineOwner |-> TRUE, projectOwner |-> TRUE,
            keyType |-> TRUE, version |-> TRUE]

Init ==
    /\ registry = [n \in 1..Reserved |-> Foreign]
    /\ senders = <<>> /\ machines = <<>>
    /\ config = NoConfig
    /\ mode \in Modes
    /\ tee = 0 /\ proxy = 0 /\ hasKey = FALSE
    /\ at = "idle" /\ draft = NoConfig /\ sent = 0
    /\ result = "none"
    /\ mishaps = 0 /\ whims = 0

Extension(id) == registry[id + 1]
Extensions == 0..(Len(registry) - 1)

Mishap == mishaps < MaxMishaps /\ mishaps' = mishaps + 1

Step(from, to) == at = from /\ at' = to

------------------------------------------------------------------------------
\* pre-build.sh and register-extension.

\* The script's guard: it overwrites a config only when it is told to.
PreBuild(force) ==
    /\ Step("idle", "deploy")
    /\ config = NoConfig \/ force
    /\ UNCHANGED <<chain, machines, config, mode, services, draft, sent, result>>

\* Deploys the contract with _extensionId at its zero value.
DeployInstructionSender ==
    /\ Step("deploy", "register")
    /\ senders' = Append(senders, 0)
    /\ draft' = [id |-> 0, sender |-> Len(senders) + 1]
    /\ UNCHANGED <<registry, machines, config, mode, services, sent, result, counts>>

RegisterExtension ==
    /\ Step("register", "machineOwner")
    /\ registry' = Append(registry,
          [sender |-> draft.sender, machineOwner |-> FALSE,
           projectOwner |-> FALSE, keyType |-> FALSE, version |-> FALSE])
    /\ draft' = [draft EXCEPT !.id = Len(registry)]
    /\ UNCHANGED <<senders, machines, config, mode, services, sent, result, counts>>

Grant(extension) ==
    /\ registry' = [registry EXCEPT ![draft.id + 1] = extension]
    /\ UNCHANGED <<senders, machines, config, mode, services, draft, sent,
                   result, whims>>

\* An error here is dropped: "return" is commented out in SetupExtension.
AllowMachineOwner ==
    /\ Step("machineOwner", "projectOwner")
    /\ \/ Grant([Extension(draft.id) EXCEPT !.machineOwner = TRUE]) /\ UNCHANGED mishaps
       \/ /\ Mishap
          /\ UNCHANGED <<chain, machines, config, mode, services, draft, sent,
                         result, whims>>

\* A slip to compare with: the error is dropped here too.
AllowProjectOwner_dropped ==
    /\ Step("projectOwner", "keyType")
    /\ \/ Grant([Extension(draft.id) EXCEPT !.projectOwner = TRUE]) /\ UNCHANGED mishaps
       \/ /\ Mishap
          /\ UNCHANGED <<chain, machines, config, mode, services, draft, sent,
                         result, whims>>

AllowProjectOwner ==
    /\ Step("projectOwner", "keyType")
    /\ Grant([Extension(draft.id) EXCEPT !.projectOwner = TRUE]) /\ UNCHANGED mishaps

AddKeyType ==
    /\ Step("keyType", "write")
    /\ Grant([Extension(draft.id) EXCEPT !.keyType = TRUE]) /\ UNCHANGED mishaps

WriteConfig ==
    /\ Step("write", "idle")
    /\ config' = draft
    /\ UNCHANGED <<chain, machines, mode, services, draft, sent, result, counts>>

------------------------------------------------------------------------------
\* start-services.sh and stop-services.sh.

NewMachine(id) == [ext |-> id, status |-> "none"]

\* docker compose up --force-recreate: a new node and a new proxy.
Recreate ==
    /\ Step("idle", "idle") /\ mode = "docker"
    /\ machines' = Append(machines, NewMachine(config.id))
    /\ tee' = Len(machines) + 1 /\ proxy' = tee' /\ hasKey' = FALSE

\* e2e.sh start leaves a process alone that is running already.
StartTee ==
    /\ Step("idle", "startProxy") /\ mode = "local"
    /\ IF tee # 0 THEN UNCHANGED <<machines, tee, hasKey>>
       ELSE /\ machines' = Append(machines, NewMachine(config.id))
            /\ tee' = Len(machines) + 1 /\ hasKey' = FALSE
    /\ UNCHANGED proxy

StartServices ==
    /\ config # NoConfig
    /\ Recreate \/ StartTee
    /\ UNCHANGED <<chain, config, mode, draft, sent, result>>

\* The proxy asks the node for its identity once, when it starts.
StartProxy ==
    /\ Step("startProxy", "idle")
    /\ proxy' = IF proxy # 0 THEN proxy ELSE tee
    /\ UNCHANGED <<chain, machines, config, mode, tee, hasKey, draft, sent,
                   result, counts>>

StopServices ==
    /\ Step("idle", "idle")
    /\ tee' = 0 /\ proxy' = 0 /\ hasKey' = FALSE
    /\ UNCHANGED <<chain, machines, config, mode, draft, sent, result>>

------------------------------------------------------------------------------
\* post-build.sh: every step is about the machine that the proxy tells of.

PostBuild ==
    /\ Step("idle", "version")
    /\ proxy # 0
    /\ UNCHANGED <<chain, machines, config, mode, services, draft, sent, result>>

\* allow-tee-version does nothing when the version is allowed already.
AllowTeeVersion ==
    /\ Step("version", "preRegister")
    /\ registry' = [registry EXCEPT ![machines[proxy].ext + 1].version = TRUE]
    /\ UNCHANGED <<senders, machines, config, mode, services, draft, sent,
                   result, counts>>

\* Step r: skipped for a machine the registry knows; else the registry wants an
\* owner on the list and an allowed version.
PreRegister ==
    /\ at = "preRegister"
    /\ \/ /\ machines[proxy].status # "none"
          /\ at' = "promote" /\ UNCHANGED machines
       \/ /\ machines[proxy].status = "none"
          /\ IF /\ Extension(machines[proxy].ext).machineOwner
                /\ Extension(machines[proxy].ext).version
             THEN /\ machines' = [machines EXCEPT ![proxy].status = "initialized"]
                  /\ at' = "promote"
             ELSE at' = "idle" /\ UNCHANGED machines
    /\ UNCHANGED <<chain, config, mode, services, draft, sent, result, counts>>

\* Steps R, a and p: only a running machine passes the availability check; a
\* machine in production is left alone.
Promote ==
    /\ Step("promote", "idle")
    /\ IF proxy = tee
       THEN machines' = [machines EXCEPT ![proxy].status = "production"]
       ELSE UNCHANGED machines
    /\ UNCHANGED <<chain, config, mode, services, draft, sent, result, counts>>

------------------------------------------------------------------------------
\* test.sh and run-test, with the InstructionSender they call.

Test ==
    /\ Step("idle", "setExtensionId")
    /\ config # NoConfig /\ proxy # 0
    /\ result' = "none" /\ sent' = 0
    /\ UNCHANGED <<chain, machines, config, mode, services, draft>>

Fail == at' = "idle" /\ result' = "failed"

\* The extensions that setExtensionId()'s loop would stop at.
Registered(sender) == {id \in Extensions : Extension(id).sender = sender}

First(ids) == CHOOSE id \in ids : \A other \in ids : id <= other

\* Slips to compare with: the loop counts from one, or takes the newest.
ExtensionFound_fromOne(sender) == First(Registered(sender)) + 1
ExtensionFound_newest(sender) == IF Registered(sender) = {} THEN 0 ELSE Len(registry) - 1

ExtensionFound(sender) == First(Registered(sender))

\* A slip to compare with: the revert "already set" ends the test.
SetExtensionId_once ==
    /\ at = "setExtensionId"
    /\ IF senders[config.sender] = 0 /\ Registered(config.sender) # {}
       THEN /\ senders' = [senders EXCEPT ![config.sender] = ExtensionFound(config.sender)]
            /\ at' = "update" /\ UNCHANGED result
       ELSE Fail /\ UNCHANGED senders
    /\ UNCHANGED <<registry, machines, config, mode, services, draft, sent, counts>>

\* "Extension ID already set." is not an error to the test; 0 counts as not set.
SetExtensionId ==
    /\ at = "setExtensionId"
    /\ IF senders[config.sender] = 0 /\ Registered(config.sender) = {}
       THEN Fail /\ UNCHANGED senders
       ELSE /\ at' = "update" /\ UNCHANGED result
            /\ senders' = IF senders[config.sender] # 0 THEN senders
                          ELSE [senders EXCEPT ![config.sender] = ExtensionFound(config.sender)]
    /\ UNCHANGED <<registry, machines, config, mode, services, draft, sent, counts>>

\* The machines that getRandomTeeIds chooses from.
Active(id) ==
    {m \in 1..Len(machines) : machines[m].ext = id /\ machines[m].status = "production"}

\* _getExtensionId() reverts on 0, getRandomTeeIds on an empty active set.
Send(from, to) ==
    /\ at = from
    /\ LET id == senders[config.sender]
       IN  \/ /\ id # 0 /\ Active(id) # {}
              /\ sent' \in Active(id)
              /\ at' = to /\ UNCHANGED result
           \/ /\ id = 0 \/ Active(id) = {}
              /\ Fail /\ UNCHANGED sent
    /\ UNCHANGED <<chain, machines, config, mode, services, draft, counts>>

SendUpdateKey == Send("update", "pollUpdate")
SendSign      == Send("sign", "pollSign")

\* A slip to compare with: the answer of any machine is taken.
Answered_byAny == sent \in 1..Len(machines)

\* The proxy has the answers of the machine it was started with, if it runs.
Answered == sent = proxy /\ sent = tee

\* The poll gives up: nobody answers, or the answer is late.  An update that
\* reaches the machine takes effect all the same.
GiveUp ==
    /\ IF Answered THEN Mishap ELSE UNCHANGED mishaps
    /\ hasKey' \in {hasKey, hasKey \/ (at = "pollUpdate" /\ Answered)}
    /\ Fail

PollUpdate ==
    /\ at = "pollUpdate"
    /\ \/ /\ Answered
          /\ hasKey' = TRUE
          /\ at' = "sign" /\ UNCHANGED <<result, mishaps>>
       \/ GiveUp
    /\ UNCHANGED <<chain, machines, config, mode, tee, proxy, draft, sent, whims>>

\* The test passes when the signer recovered is the owner of the test key.
PollSign ==
    /\ at = "pollSign"
    /\ \/ /\ Answered
          /\ at' = "idle" /\ result' = "passed"
          /\ UNCHANGED <<hasKey, mishaps>>
       \/ GiveUp
    /\ UNCHANGED <<chain, machines, config, mode, tee, proxy, draft, sent, whims>>

------------------------------------------------------------------------------
\* The script ends early: killed, an RPC error, a reverted or late transaction.
\* The config is truncated before it is written.
ScriptDies ==
    /\ at # "idle" /\ Mishap
    /\ at' = "idle"
    /\ config' \in {config} \cup (IF at = "write" THEN {NoConfig} ELSE {})
    /\ UNCHANGED <<chain, machines, mode, services, draft, sent, result, whims>>

\* The node's process dies, and its key with it; the proxy does not notice.
TeeDies ==
    /\ tee # 0 /\ Mishap
    /\ tee' = 0 /\ hasKey' = FALSE
    /\ UNCHANGED <<chain, machines, config, mode, proxy, at, draft, sent, result, whims>>

\* What the operator does next, following the guides and the scripts' warnings.
\* A config is useless when its extension has the id 0 or no machine owner;
\* services that do not serve it are stopped first.
ConfigServes ==
    config # NoConfig /\ config.id # 0 /\ Extension(config.id).machineOwner
ServicesServe == tee # 0 /\ proxy = tee /\ machines[tee].ext = config.id
Needed ==
    \/ ~ ConfigServes /\ PreBuild(config # NoConfig)
    \/ /\ ConfigServes /\ ~ ServicesServe
       /\ IF tee # 0 \/ proxy # 0 THEN StopServices ELSE StartServices
    \/ /\ ConfigServes /\ ServicesServe
       /\ IF machines[tee].status # "production" THEN PostBuild ELSE Test

Whim == \/ \E force \in BOOLEAN : PreBuild(force)
        \/ StartServices \/ StopServices \/ PostBuild \/ Test

Operate ==
    \/ Needed /\ UNCHANGED counts
    \/ Whim /\ whims < MaxWhims /\ whims' = whims + 1 /\ UNCHANGED mishaps

Run ==
    \/ DeployInstructionSender \/ RegisterExtension \/ AllowMachineOwner
    \/ AllowProjectOwner \/ AddKeyType \/ WriteConfig
    \/ StartProxy
    \/ AllowTeeVersion \/ PreRegister \/ Promote
    \/ SetExtensionId \/ SendUpdateKey \/ PollUpdate \/ SendSign \/ PollSign

Next == Operate \/ Run \/ ScriptDies \/ TeeDies

Spec == Init /\ [][Next]_vars

\* A script goes on unless it dies; the operator does what is needed, and tests
\* again when nothing is; the random choice falls on the running machine in the
\* end, however many dead ones are still active.
FairSpec ==
    /\ Spec
    /\ WF_vars(Run)
    /\ WF_vars(Needed /\ UNCHANGED counts)
    /\ SF_vars(SendUpdateKey /\ sent' = tee)
    /\ SF_vars(SendSign /\ sent' = tee)

------------------------------------------------------------------------------
ExtensionRecord ==
    [sender : 0..Len(senders), machineOwner : BOOLEAN, projectOwner : BOOLEAN,
     keyType : BOOLEAN, version : BOOLEAN]
MachineRecord == [ext : Extensions, status : {"none", "initialized", "production"}]
Steps == {"idle", "deploy", "register", "machineOwner", "projectOwner", "keyType",
          "write", "startProxy", "version", "preRegister", "promote",
          "setExtensionId", "update", "pollUpdate", "sign", "pollSign"}

TypeOK ==
    /\ registry \in Seq(ExtensionRecord)
    /\ senders \in Seq({0} \cup Extensions)
    /\ machines \in Seq(MachineRecord)
    /\ config = NoConfig \/ (config.id \in Extensions /\ config.sender \in 1..Len(senders))
    /\ draft \in [id : {0} \cup Extensions, sender : 0..Len(senders)]
    /\ mode \in Modes
    /\ {tee, proxy, sent} \subseteq 0..Len(machines)
    /\ hasKey \in BOOLEAN
    /\ at \in Steps
    /\ result \in {"none", "passed", "failed"}
    /\ mishaps \in 0..MaxMishaps /\ whims \in 0..MaxWhims

\* What the config file names is finished, wherever pre-build.sh died before:
\* an extension of this very sender, the only one, with a project owner and a
\* key type.  Only the machine owner may be missing.
ConfigIsComplete ==
    config # NoConfig =>
        /\ Extension(config.id).projectOwner /\ Extension(config.id).keyType
        /\ Registered(config.sender) = {config.id}

\* An InstructionSender that is ready speaks for the extension it was
\* registered with and for no other, whatever half-finished or forced set-ups
\* registered around it.
SendersKnowTheirExtension ==
    \A s \in 1..Len(senders) :
        senders[s] # 0 => Extension(senders[s]).sender = s

\* A test passes only when the whole chain holds: the machine that runs behind
\* the proxy has the key, is in production with an allowed version and owner,
\* and the config, the sender and the machine name the same extension.
TestsTellTheTruth ==
    [][result # "passed" /\ result' = "passed" =>
          /\ hasKey /\ tee = proxy
          /\ machines[tee].status = "production"
          /\ machines[tee].ext = config.id
          /\ senders[config.sender] = config.id
          /\ Extension(config.id).machineOwner /\ Extension(config.id).version]_vars

\* However scripts and the TEE die, the operator who starts what is missing
\* gets a passing test again and again: no half-done step, no id 0 and no
\* machine left over in the active set makes the set-up unusable for good.
EventuallyUsable == []<>(result = "passed")

\* check-tee-state's complaints about the proxy's machine and the sender.
Verdict ==
    (IF machines[proxy].status = "none" THEN {"no on-chain record"} ELSE
      (IF senders[config.sender] # machines[proxy].ext THEN {"sender mismatch"} ELSE {})
      \cup
      (IF machines[proxy].status # "initialized" THEN {"toProduction will revert"} ELSE {}))

\* "All consistent. If test.sh still fails, the active set was emptied for a
\* non-status reason (banned/disabled version)": nothing here bans a machine or
\* disables a version, so where check-tee-state complains of nothing the active
\* set is not empty.
AllConsistentMeansActive ==
    config # NoConfig /\ proxy # 0 /\ Verdict = {} =>
        Active(senders[config.sender]) # {}
==============================================================================
