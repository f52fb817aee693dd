----------------------------- MODULE DeployTools -----------------------------
(***************************************************************************)
(* The deployment tools and the chain they send transactions to:           *)
(* pre-build.sh's deploy-contract and register-extension, the first step   *)
(* of run-test, and allow-tee-version.  ExtensionSetup has the pipeline    *)
(* with a transaction as one step; here a transaction is estimated, sent,  *)
(* waits among others of the same key, is mined, fails or is lost, and the *)
(* tool hears of it, gives up after two minutes, or dies.  What was given  *)
(* up may be mined later, under the next run of the script.                *)
(***************************************************************************)
EXTENDS RevertReasons, DeployEnvironment, Integers, Sequences, FiniteSets

CONSTANTS
    Settings,    \* the environments, worlds and nodes to start with
    Images,      \* code hashes of the images built; one TEE_VERSION names them
    MaxBuilds,   \* bound on the runs of pre-build.sh
    MaxTests,    \* bound on the runs of run-test and of allow-tee-version
    MaxOthers,   \* bound on what others send to the contracts
    MaxMishaps   \* bound on lost or failed transactions, RPC errors and deaths

ASSUME DeployToolsAssumption ==
    /\ Settings \subseteq [env : Environment, world : World, node : Habits]
    /\ {"already set", "not found"} \subseteq Reasons
    /\ {"VersionAlreadyExists", "OnlyOwner"} \subseteq Customs
    /\ Images # {} /\ Images \subseteq STRING \ {""}
    /\ MaxBuilds \in Nat /\ MaxTests \in Nat
    /\ MaxOthers \in Nat /\ MaxMishaps \in Nat

VARIABLES
    setting,     \* .env and the addresses file, the chain, the node's habits
    extensions,  \* on chain: extension n is extensions[n + 1]
    bound,       \* on chain: _extensionId of each InstructionSender
    txs,         \* the transactions sent, in the order of their nonces
    config,      \* config/extension.env
    served,      \* history: the extensions it has named; machines are started for
                 \* what it names, and may run on when it is replaced
    tool,        \* the running tool: its step, the transaction it waits for,
                 \* EXTENSION_ID and INSTRUCTION_SENDER, or the machine's
                 \* extension and code hash, and why its send was refused
    ended,       \* how the last run-test or allow-tee-version ended
    builds, tests, others, mishaps

onchain == <<extensions, bound>>
counts  == <<builds, tests, others, mishaps>>
vars    == <<setting, onchain, txs, config, served, tool, ended, counts>>

env   == setting.env
world == setting.world
node  == setting.node

NoConfig == [id |-> 0, sender |-> 0]
Idle     == [at |-> "idle", tx |-> 0, id |-> 0, sender |-> 0, hash |-> "", why |-> {}]
Nothing  == [tool |-> "none", well |-> FALSE, id |-> 0, hash |-> ""]

\* Extension 0 is another's: no InstructionSender deployed here is its sender.
Foreign == [sender |-> 0, owner |-> {}, granted |-> {}, versions |-> {}]

Init ==
    /\ setting \in Settings
    /\ extensions = <<Foreign>> /\ bound = <<>>
    /\ txs = <<>>
    /\ config = NoConfig /\ served = {}
    /\ tool = Idle /\ ended = Nothing
    /\ builds = 0 /\ tests = 0 /\ others = 0 /\ mishaps = 0

Extension(id) == extensions[id + 1]
Registered(sender) == {id \in 0..Len(extensions) - 1 : Extension(id).sender = sender}

Mishap == mishaps < MaxMishaps /\ mishaps' = mishaps + 1

------------------------------------------------------------------------------
\* The chain.

Call(op, on, what, from) == [op |-> op, on |-> on, what |-> what, from |-> from]

\* Why the contracts refuse a call, on the chain as it is: {} if they do not.
Refusal(call) ==
    CASE call.op = "setExtensionId" /\ bound[call.on] # 0 -> {"already set"}
      [] call.op = "setExtensionId" /\ bound[call.on] = 0 /\ Registered(call.on) = {} ->
           {"not found"}
      [] call.op = "addTeeVersion" /\ call.from # Extension(call.on).owner -> {"OnlyOwner"}
      [] call.op = "addTeeVersion" /\ call.from = Extension(call.on).owner
         /\ Extension(call.on).versions # {} -> {"VersionAlreadyExists"}
      [] OTHER -> {}

\* setExtensionId() takes the first extension that names this sender.
Found(sender) ==
    CHOOSE id \in Registered(sender) : \A other \in Registered(sender) : id <= other

\* What a call does when it succeeds.
Effect(call) ==
    CASE call.op = "deploy" ->
           bound' = Append(bound, 0) /\ UNCHANGED extensions
      [] call.op = "register" ->
           /\ extensions' = Append(extensions, [sender |-> call.on, owner |-> call.from,
                                                granted |-> {}, versions |-> {}])
           /\ UNCHANGED bound
      [] call.op = "grant" ->
           /\ extensions' = [extensions EXCEPT ![call.on + 1].granted = @ \cup {call.what}]
           /\ UNCHANGED bound
      [] call.op = "setExtensionId" ->
           bound' = [bound EXCEPT ![call.on] = Found(call.on)] /\ UNCHANGED extensions
      [] call.op = "addTeeVersion" ->
           /\ extensions' = [extensions EXCEPT ![call.on + 1].versions = @ \cup {call.what}]
           /\ UNCHANGED bound

\* A slip to compare with: extensions are counted from one.
Made_next(call) ==
    CASE call.op = "deploy"   -> Len(bound) + 1
      [] call.op = "register" -> Len(extensions) + 1
      [] OTHER -> 0

\* What the receipt's events or the contract's address tell.
Made(call) ==
    CASE call.op = "deploy"   -> Len(bound) + 1
      [] call.op = "register" -> Len(extensions)
      [] OTHER -> 0

Pending == {n \in 1..Len(txs) : txs[n].fate = "pending"}

\* The transactions of one key are mined in the order of their nonces.
SameKey(m, n) == txs[m].call.from = txs[n].call.from
IsNext(n) == n \in Pending /\ \A m \in Pending : SameKey(m, n) => n <= m
IsLast(n) == n \in Pending /\ \A m \in Pending : SameKey(m, n) => m <= n

\* A transaction that the contracts do not refuse may fail all the same, for
\* want of gas.
Mine ==
    \E n \in Pending :
        /\ IsNext(n)
        /\ \/ /\ Refusal(txs[n].call) = {}
              /\ Effect(txs[n].call)
              /\ txs' = [txs EXCEPT ![n].fate = "mined", ![n].made = Made(txs[n].call)]
              /\ UNCHANGED mishaps
           \/ /\ IF Refusal(txs[n].call) = {} THEN Mishap ELSE UNCHANGED mishaps
              /\ txs' = [txs EXCEPT ![n].fate = "failed"]
              /\ UNCHANGED onchain
    /\ UNCHANGED <<setting, config, served, tool, ended, builds, tests, others>>

\* The node forgets the last of a key's waiting transactions.
Drop ==
    /\ Mishap
    /\ \E n \in Pending :
          /\ IsLast(n)
          /\ txs' = [txs EXCEPT ![n].fate = "dropped"]
    /\ UNCHANGED <<setting, onchain, config, served, tool, ended, builds, tests, others>>

Others ==
    /\ others < MaxOthers /\ others' = others + 1
    /\ UNCHANGED <<setting, txs, config, served, tool, ended, builds, tests, mishaps>>

\* Anybody may call setExtensionId() of any InstructionSender, and register an
\* extension of his own.
OthersSetId ==
    /\ \E s \in 1..Len(bound) :
          LET call == Call("setExtensionId", s, "", {})
          IN  Refusal(call) = {} /\ Effect(call)
    /\ Others

OthersRegister ==
    /\ extensions' = Append(extensions, Foreign)
    /\ UNCHANGED bound
    /\ Others

------------------------------------------------------------------------------
\* The tools' way to send a transaction and to wait for it.

BuildSteps == {"deploy", "register", "machineOwner", "projectOwner", "keyType"}
Sender == DefaultPrivateKey(env)

\* The call of each step.
CallOf(at) ==
    CASE at = "deploy"         -> Call("deploy", 0, "", Sender)
      [] at = "register"       -> Call("register", tool.sender, "", Sender)
      [] at \in {"machineOwner", "projectOwner", "keyType"} ->
                                  Call("grant", tool.id, at, Sender)
      [] at = "setExtensionId" -> Call("setExtensionId", config.sender, "", Sender)
      [] at = "addTeeVersion"  -> Call("addTeeVersion", tool.id, tool.hash, OwnerKey(env))

\* A slip to compare with: the grant whose error is dropped comes last.
After_ownerLast(at) ==
    CASE at = "deploy" -> "register"
      [] at = "register" -> "projectOwner"
      [] at = "projectOwner" -> "keyType"
      [] at = "keyType" -> "machineOwner"
      [] at = "machineOwner" -> "write"

\* Where a step that is done leads to.
After(at) ==
    CASE at = "deploy" -> "register"
      [] at = "register" -> "machineOwner"
      [] at = "machineOwner" -> "projectOwner"
      [] at = "projectOwner" -> "keyType"
      [] at = "keyType" -> "write"

Proceed(with) == tool' = [with EXCEPT !.at = After(@), !.tx = 0] /\ UNCHANGED ended

EndTest(well) ==
    /\ tool' = Idle
    /\ ended' = [tool |-> tool.at, well |-> well, id |-> tool.id, hash |-> tool.hash]

\* The tool ends with an error.  The error of the machine owner's grant alone
\* is dropped: register-extension goes on.
GoWrong ==
    CASE tool.at = "machineOwner"  -> Proceed(tool)
      [] tool.at \in BuildSteps \ {"machineOwner"} -> tool' = Idle /\ UNCHANGED ended
      [] tool.at \notin BuildSteps -> EndTest(FALSE)

\* Funds that are low may do for a transaction or not.
CanPay == \A account \in Sender : world.funds[account] # "none"
MayRefusePay == \E account \in Sender : world.funds[account] # "enough"

Waiting     == tool.tx # 0
AboutToSend == tool.at \in BuildSteps \cup {"setExtensionId", "addTeeVersion"} /\ ~ Waiting

\* The estimate passes and the transaction goes to the node.
Send ==
    /\ AboutToSend /\ CanPay
    /\ Refusal(CallOf(tool.at)) = {}
    /\ txs' = Append(txs, [call |-> CallOf(tool.at), fate |-> "pending", made |-> 0])
    /\ tool' = [tool EXCEPT !.tx = Len(txs) + 1]
    /\ UNCHANGED <<setting, onchain, config, served, ended, counts>>

\* setExtensionId's error is explained before it is returned.
ExplainOr(step) ==
    IF tool.at = "setExtensionId"
    THEN /\ tool' = [Idle EXCEPT !.at = "explain", !.why = Refusal(CallOf(tool.at))]
         /\ UNCHANGED ended
    ELSE step

\* The estimate is refused; allow-tee-version looks for an error of the registry.
SendRefused ==
    /\ AboutToSend
    /\ Refusal(CallOf(tool.at)) # {}
    /\ LET message == EstimateGas(node, Refusal(CallOf(tool.at))).text
       IN  ExplainOr(IF Mentions(message, "VersionAlreadyExists") THEN EndTest(TRUE) ELSE GoWrong)
    /\ UNCHANGED <<setting, onchain, txs, config, served, counts>>

\* The node does not take the transaction: no funds, or an RPC error.
SendFails ==
    /\ AboutToSend
    /\ IF MayRefusePay THEN UNCHANGED mishaps ELSE Mishap
    /\ ExplainOr(GoWrong)
    /\ UNCHANGED <<setting, onchain, txs, config, served, builds, tests, others>>

Fate == txs[tool.tx].fate

\* A slip to compare with: the newest extension is taken for the own one.
HeardMined_newest ==
    /\ Waiting /\ Fate = "mined"
    /\ CASE tool.at = "deploy"   -> Proceed([tool EXCEPT !.sender = txs[tool.tx].made])
         [] tool.at = "register" -> Proceed([tool EXCEPT !.id = Len(extensions) - 1])
         [] tool.at \in BuildSteps \ {"deploy", "register"} -> Proceed(tool)
         [] tool.at \notin BuildSteps -> EndTest(TRUE)
    /\ UNCHANGED <<setting, onchain, txs, config, served, counts>>

\* bind.WaitMined returns a receipt, and its status is 1: the contract's address
\* is known, or the id from the receipt's event.
HeardMined ==
    /\ Waiting /\ Fate = "mined"
    /\ CASE tool.at = "deploy"   -> Proceed([tool EXCEPT !.sender = txs[tool.tx].made])
         [] tool.at = "register" -> Proceed([tool EXCEPT !.id = txs[tool.tx].made])
         [] tool.at \in BuildSteps \ {"deploy", "register"} -> Proceed(tool)
         [] tool.at \notin BuildSteps -> EndTest(TRUE)
    /\ UNCHANGED <<setting, onchain, txs, config, served, counts>>

\* A slip to compare with: nor is a failure that nothing is known of.
Tolerated_silent(message) == Mentions(message, "already set") \/ message = {}

\* "Extension ID already set" is no error to run-test.
Tolerated(message) == Mentions(message, "already set")

\* A slip to compare with: run-test waits for a receipt that says 1.
HeardFailed_deaf ==
    /\ Waiting /\ Fate = "failed" /\ tool.at # "setExtensionId"
    /\ GoWrong
    /\ UNCHANGED <<setting, onchain, txs, config, served, counts>>

\* The receipt's status is 0: the call is made again for the reason.
HeardFailed ==
    /\ Waiting /\ Fate = "failed"
    /\ LET later == Refusal(txs[tool.tx].call)
       IN  CASE tool.at = "setExtensionId" ->
                  IF Tolerated(MinedMessage(node, later)) THEN EndTest(TRUE) ELSE GoWrong
             [] tool.at = "addTeeVersion" ->
                  IF Mentions(GetFailingMessage(node, later), "VersionAlreadyExists")
                  THEN EndTest(TRUE) ELSE GoWrong
             [] tool.at \in BuildSteps -> GoWrong
    /\ UNCHANGED <<setting, onchain, txs, config, served, counts>>

\* A slip to compare with: no tool has a deadline.
Deadline_none == FALSE

\* CheckTx and deploy-contract wait for two minutes; run-test waits for ever.
Deadline == tool.at # "setExtensionId"

TimeOut ==
    /\ Waiting /\ Deadline
    /\ GoWrong
    /\ UNCHANGED <<setting, onchain, txs, config, served, counts>>

------------------------------------------------------------------------------
\* pre-build.sh

\* With --force where there is a config.  The pre-flight check comes first.
StartBuild ==
    /\ tool = Idle /\ builds < MaxBuilds /\ builds' = builds + 1
    /\ Preflight(env, world)
    /\ tool' = [Idle EXCEPT !.at = "deploy"] /\ ended' = Nothing
    /\ UNCHANGED <<setting, onchain, txs, config, served, tests, others, mishaps>>

WriteConfig ==
    /\ tool.at = "write"
    /\ config' = [id |-> tool.id, sender |-> tool.sender] /\ tool' = Idle
    /\ served' = served \cup {tool.id}
    /\ UNCHANGED <<setting, onchain, txs, ended, counts>>

------------------------------------------------------------------------------
\* run-test's step 1, and allow-tee-version

StartTool(start) ==
    /\ tool = Idle /\ tests < MaxTests /\ tests' = tests + 1
    /\ DefaultSupport(env, world)
    /\ tool' = start /\ ended' = Nothing
    /\ UNCHANGED <<setting, onchain, txs, config, served, builds, others, mishaps>>

StartTest == config # NoConfig /\ StartTool([Idle EXCEPT !.at = "setExtensionId"])

\* The machine tells its extension and the image it runs, maybe another than
\* when the version was allowed first.  Nothing is sent for a code hash that is
\* supported already.
StartAllowVersion ==
    \E id \in served, hash \in Images :
        /\ OwnerKey(env) # {} /\ hash \notin Extension(id).versions
        /\ StartTool([Idle EXCEPT !.at = "addTeeVersion", !.id = id, !.hash = hash])

\* The call is made for the reason that the estimate did not give, maybe later.
ExplainRefusal ==
    /\ tool.at = "explain"
    /\ LET message == SendMessage(node, tool.why, Refusal(CallOf("setExtensionId")))
       IN  /\ tool' = Idle
           /\ ended' = [Nothing EXCEPT !.tool = "setExtensionId", !.well = Tolerated(message)]
    /\ UNCHANGED <<setting, onchain, txs, config, served, counts>>

\* Killed, or a power cut.  The config is truncated before it is written.
ToolDies ==
    /\ tool # Idle /\ Mishap
    /\ tool' = Idle
    /\ config' \in {config} \cup (IF tool.at = "write" THEN {NoConfig} ELSE {})
    /\ UNCHANGED <<setting, onchain, txs, served, ended, builds, tests, others>>

Work == Send \/ SendRefused \/ ExplainRefusal \/ HeardMined \/ HeardFailed \/ TimeOut \/ WriteConfig

Next ==
    \/ Work \/ SendFails \/ ToolDies
    \/ StartBuild \/ StartTest \/ StartAllowVersion
    \/ Mine \/ Drop \/ OthersSetId \/ OthersRegister

Spec == Init /\ [][Next]_vars

\* A tool goes on, and what waits is mined unless the node forgets it.  A send
\* that cannot be paid for does not wait.
FairSpec == Spec /\ WF_vars(Work \/ SendFails) /\ WF_vars(Mine)

------------------------------------------------------------------------------
TxRecord ==
    [call : [op   : {"deploy", "register", "grant", "setExtensionId", "addTeeVersion"},
             on   : Nat,
             what : {"", "machineOwner", "projectOwner", "keyType"} \cup Images,
             from : SUBSET {"dev", "deployer", "owner"}],
     fate : {"pending", "mined", "failed", "dropped"},
     made : Nat]

TypeOK ==
    /\ setting \in Settings
    /\ \A n \in 1..Len(extensions) : extensions[n].sender \in 0..Len(bound)
    /\ \A s \in 1..Len(bound) : bound[s] \in 0..Len(extensions) - 1
    /\ \A n \in 1..Len(txs) : txs[n] \in TxRecord
    /\ config.id \in 0..Len(extensions) - 1 /\ config.sender \in 0..Len(bound)
    /\ served \subseteq 1..Len(extensions) - 1
    /\ tool.tx \in 0..Len(txs)
    /\ ended \in [tool : {"none", "setExtensionId", "addTeeVersion"}, well : BOOLEAN,
                 id : {0} \cup served, hash : {""} \cup Images]
    /\ builds \in 0..MaxBuilds /\ tests \in 0..MaxTests
    /\ others \in 0..MaxOthers /\ mishaps \in 0..MaxMishaps

\* However late the transactions of a run that was given up are mined, among
\* those of the next: the config names the extension of its sender, the only
\* one, with a project owner and a key type.
ConfigNamesItsRegistration ==
    config # NoConfig =>
        /\ Extension(config.id).sender = config.sender
        /\ {"projectOwner", "keyType"} \subseteq Extension(config.id).granted
        /\ Registered(config.sender) = {config.id}
        /\ \A n \in Pending : txs[n].call.op = "register" => txs[n].call.on # config.sender

\* Once the config has named an extension, its grants are final: a machine
\* owner's grant that register-extension gave up, and went on without, is decided
\* by then, because the later steps waited for transactions with higher nonces.
\* What the scripts and the machines find granted will not change under them.
GrantsAreFinal ==
    [][\A id \in served : Extension(id)'.granted = Extension(id).granted]_vars

\* Step 1 of run-test goes on only with an InstructionSender that knows its
\* extension, whoever told it and whatever the message was that was tolerated.
StepOneMeansBound ==
    ended.tool = "setExtensionId" /\ ended.well /\ config # NoConfig
        => bound[config.sender] = config.id

\* Nodes that give a reason in a way that SetExtensionId reads.
Readable == node.call \in {"data", "result"} \/ node.text

\* On such a node a sender that knows its extension is never an error to
\* run-test: not after a race with somebody else's setExtensionId(), before or
\* after the estimate, and not when the send itself failed.
KnownSenderIsNoError ==
    [][ended' # ended /\ ended'.tool = "setExtensionId" /\ ~ ended'.well /\ Readable
          => bound[config.sender] = 0]_vars

\* pre-build.sh ends, whatever happens to its transactions.
BuildEnds == (tool.at \in BuildSteps) ~> (tool.at = "idle")

\* Step 1 of run-test ends unless the node forgets its transaction: then it
\* waits for ever.
TestEndsUnlessDropped ==
    (tool.at = "setExtensionId") ~>
        (tool.at # "setExtensionId" \/ (Waiting /\ Fate = "dropped"))

\* A report of verify-deploy without a warning is earnest about the deployer's key
\* and the manager: unless something fails that it cannot see, a mishap or a wait
\* that is given up, pre-build.sh never has to stop, and the first step of
\* run-test never fails, however its transaction falls among those of others.
EarnestReport ==
    [][SilentReport(env, world) /\ mishaps' = 0 =>
          /\ tool.at \in BuildSteps /\ ~ Waiting => tool'.at # "idle"
          /\ ended' # ended /\ ended'.tool = "setExtensionId" /\ Readable => ended'.well]_vars

\* What the tools say of a refusal on this node is so (RevertReasons).
ReasonsHold == ReasonsAreTrue(node)

\* The comment in allow-tee-version: it skips where "this codeHash+platform
\* combo is already registered and active".
AllowedMeansSupported ==
    ended.tool = "addTeeVersion" /\ ended.well =>
        ended.hash \in Extension(ended.id).versions
==============================================================================
