------------------------------ MODULE VerifyDeploy ------------------------------
(***************************************************************************)
(* verify-deploy: what its report says at any moment of the set-up.  It    *)
(* changes nothing; the checks read the config file, the chain and the     *)
(* ports, and this module asks whether what they say is so.  Checks of the *)
(* environment alone (addresses, keys, funds, chain id) pass: the scripts  *)
(* are run with the environment they need, EXT_PROXY_URL included.         *)
(***************************************************************************)
EXTENDS ExtensionSetup, FiniteSets

\* Without a config there is no file, or the empty one of a script that died.
Files ==
    IF config # NoConfig THEN {"written"}
    ELSE {"missing"} \cup (IF mishaps > 0 THEN {"empty"} ELSE {})

Check(id, status) == [id |-> id, status |-> status]

\* What parseExtensionEnv reads: no values from a file that is missing or empty.
Parsed(file) == IF file = "written" THEN {config} ELSE {}

\* D7.  The ids and addresses that pre-build.sh writes are well formed.
EnvFormatChecks(file) ==
    CASE file = "missing" -> {Check("D7", "SKIP")}
      [] file = "empty"   -> {Check("D7", "FAIL")}
      [] file = "written" -> {Check("D7", "PASS")}

------------------------------------------------------------------------------
\* R1 to R7: the chain against the config.

CounterCheck ==
    Check("R1", IF Len(registry) = 0 THEN "WARN" ELSE "PASS")

SenderCheck(env) ==
    Check("R2", IF Extension(env.id).sender = env.sender THEN "PASS" ELSE "FAIL")

\* A slip to compare with: the list of the project owners is asked.
OwnerCheck_project(env) ==
    Check("R3", IF Extension(env.id).projectOwner THEN "PASS" ELSE "FAIL")

OwnerCheck(env) ==
    Check("R3", IF Extension(env.id).machineOwner THEN "PASS" ELSE "FAIL")

KeyTypeCheck(env) ==
    Check("R4", IF Extension(env.id).keyType THEN "PASS" ELSE "FAIL")

\* Warns when several of the extensions that were counted have this sender.
UniqueSenderCheck(env) ==
    IF Len(registry) = 0 THEN {}
    ELSE {Check("R7", IF Cardinality(Registered(env.sender)) > 1 THEN "WARN" ELSE "PASS")}

\* An unset file ends the checks early, and so does a malformed id.
RegistrationChecks(file) ==
    IF Parsed(file) = {} THEN {Check("R1-R7", "SKIP")}
    ELSE UNION {{CounterCheck, SenderCheck(env), OwnerCheck(env), KeyTypeCheck(env)}
                \cup UniqueSenderCheck(env) : env \in Parsed(file)}

------------------------------------------------------------------------------
\* The other steps: the file again, and the ports.

\* S2 does not ask whether there is a file, V4 and E1 do.
IdCheck(file) ==
    Check("S2", IF Parsed(file) = {} THEN "FAIL" ELSE "PASS")

MissingOrEmpty(id, file) ==
    Check(id, CASE file = "missing" -> "SKIP"
                [] file = "empty"   -> "FAIL"
                [] file = "written" -> "PASS")

VersionIdCheck(file) == MissingOrEmpty("V4", file)
TestSenderCheck(file) == MissingOrEmpty("E1", file)

\* The extension's port is taken on this host by a node that runs here: a
\* container keeps the port to itself.
PortCheck == Check("S5", IF mode = "local" /\ tee # 0 THEN "WARN" ELSE "PASS")

ProxyCheck(id) == Check(id, IF proxy # 0 THEN "PASS" ELSE "WARN")

ServicesChecks(file) == {IdCheck(file), PortCheck, ProxyCheck("S9")}
TeeVersionChecks(file) == {VersionIdCheck(file), ProxyCheck("V6")}
TeeMachineChecks == {ProxyCheck("T10")}
TestChecks(file) == {TestSenderCheck(file), ProxyCheck("E3")}

\* verify-deploy with -step all, and its exit code.
Report(file) ==
    EnvFormatChecks(file) \cup RegistrationChecks(file) \cup ServicesChecks(file)
    \cup TeeVersionChecks(file) \cup TeeMachineChecks \cup TestChecks(file)

With(status, report) == {c.id : c \in {check \in report : check.status = status}}

HasFailures(report) == With("FAIL", report) # {}

------------------------------------------------------------------------------
\* verify-deploy's exit code is right about pre-build.sh at every moment, with
\* any script half done and other extensions registered around: it fails when
\* there is no config, fails on R3 alone when the grant that pre-build.sh lets
\* fail is missing, and passes otherwise; its warnings about the registry (R1,
\* R7) never fire on a set-up of these scripts.
VerifyIsExact ==
    \A file \in Files :
        LET report == Report(file)
        IN  /\ ~ HasFailures(report) <=>
                  config # NoConfig /\ Extension(config.id).machineOwner
            /\ config # NoConfig =>
                  /\ With("FAIL", report) \subseteq {"R3"}
                  /\ With("WARN", report) \cap {"R1", "R7"} = {}
==============================================================================
