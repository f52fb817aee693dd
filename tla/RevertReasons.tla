----------------------------- MODULE RevertReasons -----------------------------
(***************************************************************************)
(* Why a call was refused: what the tools make of the answers of an RPC    *)
(* node.  A contract refuses for a cause, a require() string or a custom   *)
(* error, and nodes differ in where they put it.  A piece of revert data   *)
(* is the set of what it holds: one cause, {Short} for fewer than four     *)
(* bytes, {} for nothing.  A message is the set of what it mentions: a     *)
(* cause by its text, or by its bytes in hex.                              *)
(***************************************************************************)
CONSTANTS
    Reasons,      \* the strings that a require() gives
    Customs,      \* custom errors, told apart by their selectors
    KnownErrors,  \* the custom errors in the ABIs that the diagnosis searches
    AuditErrors,  \* those in the ABIs that audit-deploy searches
    Short         \* data that has no room for a selector

ASSUME RevertReasonsAssumption ==
    /\ Reasons \cap Customs = {} /\ Short \notin Reasons \cup Customs
    /\ KnownErrors \subseteq Customs /\ AuditErrors \subseteq Customs

Causes == Reasons \cup Customs

\* How a node answers: where eth_estimateGas and eth_call put the cause, does
\* the text of the error mention it, and how are transactions priced.
Habits ==
    [estimate : {"data", "bare"},
     call     : {"data", "bytes", "short", "bare", "result"},
     text     : BOOLEAN,
     fees     : {"legacy", "dynamic"}]

Texts(causes) == {[cause |-> c, by |-> "text"] : c \in causes}
Hexes(causes) == {[cause |-> c, by |-> "hex"] : c \in causes}
Messages      == SUBSET [cause : Causes \cup {Short}, by : {"text", "hex"}]

\* What strings.Contains(err.Error(), ...) asks of a message.
Mentions(message, cause) == [cause |-> cause, by |-> "text"] \in message

\* The answer to a call: is it an error, its text, how it carries data (as a hex
\* string, as bytes, not at all), and the data.
Reply(failed, text, carries, data) ==
    [failed |-> failed, text |-> text, carries |-> carries, data |-> data]

\* The answer where why is {} or {c}.  A call that passes returns nothing here.
Answer(why, place, text) ==
    LET says == IF text THEN Texts(why) ELSE {}
    IN  IF why = {} THEN Reply(FALSE, {}, "none", {})
        ELSE CASE place = "data"   -> Reply(TRUE, says, "string", why)
               [] place = "bytes"  -> Reply(TRUE, says, "bytes", why)
               [] place = "short"  -> Reply(TRUE, says, "string", {Short})
               [] place = "bare"   -> Reply(TRUE, says, "none", {})
               [] place = "result" -> Reply(FALSE, {}, "none", why)

EstimateGas(node, why)  == Answer(why, node.estimate, node.text)
CallContract(node, why) == Answer(why, node.call, node.text)

------------------------------------------------------------------------------
\* revert.go

\* abi.UnpackRevert: the string of a require(), an error for all else.
UnpackRevert(data) == Texts(data \cap Reasons)

\* The string; or the data in hex, when it is no string and not too short.
DecodeRevertHex(data) == UnpackRevert(data) \cup Hexes(data \cap Customs)

DecodeRevertReason(reply) ==
    IF reply.carries = "string" THEN DecodeRevertHex(reply.data) ELSE {}

\* A slip to compare with: the text of the error is not the last resort.
SimulateAndDecodeRevert_dataOnly(reply) ==
    IF reply.failed THEN DecodeRevertReason(reply) ELSE DecodeRevertHex(reply.data)

SimulateAndDecodeRevert(reply) ==
    IF ~ reply.failed THEN DecodeRevertHex(reply.data)
    ELSE IF DecodeRevertReason(reply) # {} THEN DecodeRevertReason(reply)
    ELSE reply.text

------------------------------------------------------------------------------
\* support.go: CheckTx's account of a transaction that was mined and failed.

DecodeRevertFromError(reply) ==
    IF reply.carries = "string" THEN UnpackRevert(reply.data) ELSE {}

\* The sender is recovered with the EIP-155 signer, which takes transactions of
\* the old pricing alone: for others the message is an error about their type.
GetFailingMessage(node, why) ==
    LET reply == CallContract(node, why)
    IN  IF node.fees = "dynamic" THEN {}
        ELSE IF reply.failed
             THEN IF DecodeRevertFromError(reply) # {} THEN DecodeRevertFromError(reply)
                  ELSE reply.text
             ELSE IF UnpackRevert(reply.data) # {} THEN UnpackRevert(reply.data)
                  ELSE Hexes(reply.data)

------------------------------------------------------------------------------
\* diag.go, and the replay of audit-deploy: the line that is logged.

Line(kind, message) == [kind |-> kind, message |-> message]

\* A slip to compare with: the string is not looked at.
ExtractRevertData_bytes(reply) == IF reply.carries = "bytes" THEN reply.data ELSE {}

ExtractRevertData(reply) ==
    IF reply.carries \in {"string", "bytes"} THEN reply.data ELSE {}

\* From data with a selector: a string, a custom error by its name, or hex.
Selected(data, abis) ==
    CASE data \subseteq Reasons        -> Line("reason", UnpackRevert(data))
      [] data \subseteq abis           -> Line("custom error", Texts(data))
      [] data \subseteq Customs \ abis -> Line("unknown selector", Hexes(data))

Diagnose(reply) ==
    LET data == ExtractRevertData(reply)
    IN  IF ~ reply.failed THEN Line("succeeded", {})
        ELSE IF data = {} THEN Line("no data", reply.text)
        ELSE IF data = {Short} THEN Line("too short", Hexes(data))
        ELSE Selected(data, KnownErrors)

\* After a refused requestAvailabilityCheckAttestation or toProduction.
DiagAvailabilityCheckRevert(node, why) == Diagnose(CallContract(node, why))
DiagToProductionRevert(node, why)      == Diagnose(CallContract(node, why))

\* audit-deploy asks the node again for what addTeeVersion would do.
ReplayAddTeeVersion(node, why) ==
    LET reply == CallContract(node, why)
        data  == ExtractRevertData(reply)
    IN  IF ~ reply.failed THEN Line("succeeded", {})
        ELSE IF data \subseteq {Short} THEN Line("no data", reply.text)
        ELSE Selected(data, AuditErrors)

------------------------------------------------------------------------------
\* instructions.go: the message of a send that the estimate refused.  It holds
\* the error, and the reason: from the error, or else from a call made later,
\* when the contract may refuse for another cause, or for none.
SendMessage(node, why, later) ==
    LET estimate == EstimateGas(node, why)
    IN  estimate.text
        \cup (IF DecodeRevertReason(estimate) # {} THEN DecodeRevertReason(estimate)
              ELSE SimulateAndDecodeRevert(CallContract(node, later)))

\* The message about a transaction that was mined and failed.
MinedMessage(node, later) == SimulateAndDecodeRevert(CallContract(node, later))

------------------------------------------------------------------------------
CausesIn(message) == {said.cause : said \in message} \ {Short}

\* The accounts of a refusal for which the contract had the same cause all the
\* time: those that look for a custom error as well, and CheckTx's.
Searches(node, why) ==
    {SendMessage(node, why, why), MinedMessage(node, why),
     DiagAvailabilityCheckRevert(node, why).message, DiagToProductionRevert(node, why).message,
     ReplayAddTeeVersion(node, why).message}

Accounts(node, why) == Searches(node, why) \cup {GetFailingMessage(node, why)}

\* No tool names another cause than the contract had, on any kind of node; and
\* where eth_call carries the data as geth does, every search names the cause,
\* and CheckTx does if it is a string and the transaction has the old pricing.
ReasonsAreTrue(node) ==
    \A c \in Causes :
        /\ \A account \in Accounts(node, {c}) : CausesIn(account) \subseteq {c}
        /\ node.call = "data" =>
              /\ \A account \in Searches(node, {c}) : CausesIn(account) = {c}
              /\ c \in Reasons /\ node.fees = "legacy" =>
                    CausesIn(GetFailingMessage(node, {c})) = {c}
==============================================================================
