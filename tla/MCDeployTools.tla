---------------------------- MODULE MCDeployTools ----------------------------
(***************************************************************************)
(* DeployTools for TLC: two runs of pre-build.sh on every kind of node,    *)
(* and in environments with one mistake each.                              *)
(***************************************************************************)
EXTENDS DeployTools

Sound ==
    [deploymentKey |-> "deployer", ownerKey |-> "", proxyKey |-> "set",
     localMode |-> "false", simulated |-> "false", addresses |-> "list",
     manager |-> "given", extProxy |-> "up", normalProxy |-> "up"]

SoundWorld ==
    [chain |-> "testnet", code |-> TRUE,
     funds |-> [a \in Payers |-> IF a = "dev" THEN "none" ELSE "enough"]]

Devnet == [estimate |-> "data", call |-> "data", text |-> TRUE, fees |-> "dynamic"]

\* A node of each way to give a reason, or to give none.
MCNodes ==
    {Devnet,
     [Devnet EXCEPT !.text = FALSE, !.estimate = "bare", !.fees = "legacy"],
     [Devnet EXCEPT !.call = "bytes", !.estimate = "bare", !.fees = "legacy"],
     [Devnet EXCEPT !.call = "short", !.text = FALSE],
     [Devnet EXCEPT !.call = "result", !.estimate = "bare", !.text = FALSE]}

\* These nodes; and the settings and worlds that differ from the sound ones in one
\* way that a tool minds: most never get past the pre-flight check.
MCSettings ==
    {[env |-> Sound, world |-> SoundWorld, node |-> n] : n \in MCNodes}
    \cup {[env |-> e, world |-> SoundWorld, node |-> Devnet] :
             e \in {[Sound EXCEPT !.deploymentKey = ""], [Sound EXCEPT !.deploymentKey = "malformed"],
                    [Sound EXCEPT !.ownerKey = "malformed"], [Sound EXCEPT !.addresses = "unreadable"],
                    [Sound EXCEPT !.manager = "absent"]}}
    \cup {[env |-> Sound, world |-> w, node |-> Devnet] :
             w \in {[SoundWorld EXCEPT !.chain = "down"], [SoundWorld EXCEPT !.code = FALSE]}}
    \cup {[env |-> [Sound EXCEPT !.ownerKey = "owner"],
           world |-> [SoundWorld EXCEPT !.funds = [a \in Payers |-> "low"]], node |-> Devnet]}
==============================================================================
