--------------------------- MODULE DeployEnvironment ---------------------------
(***************************************************************************)
(* What the Go tools make of .env, the addresses file and the chain before *)
(* they do anything: which key they sign with, which FlareTeeManager they  *)
(* talk to, whether deploy-contract's pre-flight lets them go on, and what *)
(* verify-deploy says about the same settings.  Nothing here changes.      *)
(***************************************************************************)

\* Settings, as the tools tell them apart.  "" is a variable that is not set.
Environment ==
    [deploymentKey : {"", "deployer", "malformed"},
     ownerKey      : {"", "owner", "malformed"},
     proxyKey      : {"", "set"},
     localMode     : {"", "true", "false", "other"},
     simulated     : {"", "true", "false"},
     addresses     : {"unreadable", "object", "list"},
     manager       : {"absent", "given"},
     extProxy      : {"", "down", "up"},
     normalProxy   : {"", "down", "up"}]

\* The chain behind CHAIN_URL: does it answer, is there code at the manager's
\* address, and what do the accounts of the two keys hold: "enough" is what the
\* checks ask for, and pays for whatever the tools send.
Payers == {"dev", "deployer"}
World ==
    [chain : {"down", "local", "testnet"},
     code  : BOOLEAN,
     funds : [Payers -> {"none", "low", "enough"}]]

------------------------------------------------------------------------------
\* support.go, validate.go, deploy-contract

\* An object is read into the fields, a list by the names of its entries; a name
\* that is not there leaves the zero address.
ReadAddresses(env)  == env.addresses = "object"
ParseAddresses(env) == env.addresses = "list"
AddressNotZero(env) == env.manager = "given"

\* The hard-coded key stands in for one that is not set.
DefaultPrivateKey(env) ==
    CASE env.deploymentKey = ""          -> {"dev"}
      [] env.deploymentKey = "deployer"  -> {"deployer"}
      [] env.deploymentKey = "malformed" -> {}

\* The bindings ask the chain for its id, so a chain that is down is noticed.
DefaultSupport(env, world) ==
    /\ ReadAddresses(env) \/ ParseAddresses(env)
    /\ DefaultPrivateKey(env) # {}
    /\ world.chain # "down"

AddressHasCode(env, world) == world.chain # "down" /\ AddressNotZero(env) /\ world.code

\* deploy-contract before it sends anything; --preflight-only stops here.
Preflight(env, world) ==
    /\ DefaultSupport(env, world)
    /\ AddressNotZero(env)
    /\ AddressHasCode(env, world)

KeyHasFunds(env, world) ==
    world.chain # "down" /\ \A account \in DefaultPrivateKey(env) : world.funds[account] = "enough"

\* The key that allow-tee-version sends with.
OwnerKey(env) ==
    CASE env.ownerKey = ""          -> DefaultPrivateKey(env)
      [] env.ownerKey = "owner"     -> {"owner"}
      [] env.ownerKey = "malformed" -> {}

\* The scripts treat what is neither "true" nor unset as a deployment.
IsLocal(env) == env.localMode \in {"", "true"}

------------------------------------------------------------------------------
\* verify-deploy's checks of these settings.

Result(id, status) == [id |-> id, status |-> status]

\* D3, and D1 for an address that is not zero.
ManagerChecks(env, world) ==
    IF ~ AddressNotZero(env) THEN {Result("D3", "FAIL")}
    ELSE {Result("D3", "PASS"),
          Result("D1", IF AddressHasCode(env, world) THEN "PASS" ELSE "FAIL")}

\* D5: is DEPLOYMENT_PRIVATE_KEY set.
CheckDeployerKeySource(env) ==
    Result("D5", IF env.deploymentKey # "" \/ IsLocal(env) THEN "PASS" ELSE "WARN")

\* A slip to compare with: any funds pass.
FundsCheck_any(env, world) ==
    Result("D5", IF \A account \in DefaultPrivateKey(env) : world.funds[account] # "none"
                 THEN "PASS" ELSE "FAIL")

FundsCheck(env, world) == Result("D5", IF KeyHasFunds(env, world) THEN "PASS" ELSE "FAIL")

CheckChainID(world) == Result("D6", IF world.chain = "down" THEN "FAIL" ELSE "PASS")

DeployChecks(env, world) ==
    ManagerChecks(env, world)
    \cup {CheckDeployerKeySource(env), FundsCheck(env, world), CheckChainID(world)}

UrlCheck(id, url) ==
    Result(id, CASE url = "" -> "SKIP" [] url = "up" -> "PASS" [] url = "down" -> "WARN")

\* S7 to S10.  A LOCAL_MODE that is neither "true" nor "false" passes S10, which
\* then calls the key configured.
SettingsOfServices(env) ==
    {Result("S7", "PASS"), UrlCheck("S9", env.extProxy),
     Result("S10", IF env.localMode = "false" /\ env.proxyKey = "" THEN "WARN" ELSE "PASS")}

\* V2: which key allow-tee-version will send with.
OwnerKeyCheck(env) ==
    Result("V2", IF env.ownerKey # "" \/ env.deploymentKey # "" \/ IsLocal(env)
                 THEN "PASS" ELSE "WARN")

SettingsOfMachine(env) ==
    {Result("T1", IF env.simulated = "true" /\ env.localMode = "false" THEN "WARN" ELSE "PASS"),
     UrlCheck("T5", env.normalProxy)}

\* The step "all" without the registry's checks, which VerifyDeploy has.  It
\* ends with an error before any check where the support fails.
AllChecks(env, world) ==
    DeployChecks(env, world) \cup SettingsOfServices(env)
    \cup {OwnerKeyCheck(env), Result("E6", "PASS")} \cup SettingsOfMachine(env)

SilentReport(env, world) ==
    DefaultSupport(env, world) /\ \A r \in AllChecks(env, world) : r.status \in {"PASS", "SKIP"}

==============================================================================
